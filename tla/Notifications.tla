--------------------------- MODULE Notifications ---------------------------
(***************************************************************************)
(* The notifications of a tenant (notification-service: the handlers of    *)
(* internal/grpcserver/server.go, internal/logic/logic.go, the statements  *)
(* of repo/postgres.go), and a client that walks their pages, of a channel *)
(* or of all, while others arrive.  Only the channel, whose text two       *)
(* conversions disagree on, and the read mark of a row are kept.           *)
(***************************************************************************)
EXTENDS Integers, Sequences, FiniteSets

CONSTANTS
  Channels,     \* NotificationChannel without UNSPECIFIED
  PageSizes,    \* page_size of the walks
  DefaultSize,  \* 20
  LargestSize,  \* 100
  MaxSent       \* bound: notifications

ASSUME NoteAssumption == PageSizes \subseteq Int /\ LargestSize \in Nat /\ MaxSent \in Nat

VARIABLES
  events,    \* notification_events, in the order of created_at: no two rows
             \* are taken to have the same
  sent,      \* history: the channels they were sent on
  walk,      \* the client that walks: where it is in its list of pages
  squeezed   \* history: one arrived between the count and the page of a call

noteVars == <<events, sent, walk, squeezed>>

Texts == {"NOTIFICATION_CHANNEL", "short"} \X Channels
Unspecified == "UNSPECIFIED"  \* a list of all channels
NotWalking == [at |-> "idle", filter |-> Unspecified, size |-> 0, page |-> 0,
               pages |-> 0, total |-> 0, seen |-> {}, there |-> 0]

NoteInit ==
  /\ events = <<>> /\ sent = <<>> /\ walk = NotWalking /\ squeezed = FALSE

NoteTypeOK ==
  /\ events \in Seq([channel : Texts, read : BOOLEAN]) /\ Len(events) <= MaxSent
  /\ sent \in Seq(Channels) /\ Len(sent) = Len(events)
  /\ walk \in [at : {"idle", "count", "page"}, filter : Channels \cup {Unspecified},
               size : PageSizes \cup {0}, page : Nat, pages : Nat, total : 0..MaxSent,
               seen : SUBSET (1..MaxSent), there : 0..MaxSent]
  /\ squeezed \in BOOLEAN

\* Mutant: the name that mapChannelProto reads back.
ShortText(c) == <<"short", c>>

\* Channel.String(): the full name of the enum's value.
StoredText(c) == <<"NOTIFICATION_CHANNEL", c>>

SendNotification(c) ==
  /\ Len(events) < MaxSent
  /\ events' = Append(events, [channel |-> StoredText(c), read |-> FALSE])
  /\ sent' = Append(sent, c)
  /\ squeezed' = (squeezed \/ walk.at = "page")
  /\ UNCHANGED walk

MarkRead(n) ==
  /\ n \in DOMAIN events
  /\ events' = [events EXCEPT ![n].read = TRUE]
  /\ UNCHANGED <<sent, walk, squeezed>>

MarkAllRead ==
  /\ events' = [n \in DOMAIN events |-> [events[n] EXCEPT !.read = TRUE]]
  /\ UNCHANGED <<sent, walk, squeezed>>

-----------------------------------------------------------------------------
ClampedSize(size) ==
  IF size < 1 THEN DefaultSize ELSE IF size > LargestSize THEN LargestSize ELSE size

\* What a list that is filtered by channel compares the text with.
FilterText(c) == <<"NOTIFICATION_CHANNEL", c>>

\* The rows a list is about: the WHERE of its two statements.
Listed(filter) ==
  {n \in DOMAIN events : filter = Unspecified \/ events[n].channel = FilterText(filter)}

Newer(filter, n) == {m \in Listed(filter) : m > n}

\* The number of pages is computed with the size that was asked for.
Pages(total, size) == IF size > 0 THEN (total + size - 1) \div size ELSE 0

StartWalk(filter, size) ==
  /\ walk.at = "idle"
  /\ walk' = [NotWalking EXCEPT !.at = "count", !.filter = filter, !.size = size,
                                !.page = 1, !.there = Len(events)]
  /\ squeezed' = FALSE
  /\ UNCHANGED <<events, sent>>

\* SELECT COUNT(*): a statement and a snapshot of its own.
CountNotifications ==
  /\ walk.at = "count"
  /\ walk' = [walk EXCEPT !.at = "page", !.total = Cardinality(Listed(walk.filter))]
  /\ UNCHANGED <<events, sent, squeezed>>

\* Mutant: the offset of a page is counted from page 0.
OffsetFromZero(filter, page, size) ==
  {n \in Listed(filter) :
     Cardinality(Newer(filter, n)) \in page * size .. (page + 1) * size - 1}

\* ORDER BY created_at DESC LIMIT size OFFSET (page - 1) * size.
PageOf(filter, page, size) ==
  {n \in Listed(filter) :
     Cardinality(Newer(filter, n)) \in (page - 1) * size .. page * size - 1}

\* The client goes on to the next page while the answer names one.
ListPage ==
  /\ walk.at = "page"
  /\ LET pages == Pages(walk.total, walk.size) IN
       walk' = [walk EXCEPT !.at = IF walk.page < pages THEN "count" ELSE "idle",
                            !.page = IF walk.page < pages THEN @ + 1 ELSE @,
                            !.pages = pages,
                            !.seen = @ \cup PageOf(walk.filter, walk.page, ClampedSize(walk.size))]
  /\ UNCHANGED <<events, sent, squeezed>>

NoteNext ==
  \/ \E c \in Channels : SendNotification(c)
  \/ \E n \in 1..MaxSent : MarkRead(n)
  \/ MarkAllRead
  \/ \E filter \in Channels \cup {Unspecified}, size \in PageSizes : StartWalk(filter, size)
  \/ CountNotifications
  \/ ListPage

\* The service on its own.
NoteSpec == NoteInit /\ [][NoteNext]_noteVars

-----------------------------------------------------------------------------
\* The notifications a client asks for.
Wanted(filter) == {n \in DOMAIN sent : filter = Unspecified \/ sent[n] = filter}

\* A walk over the notifications of a channel shows none of another channel,
\* though the channel it reads of each is UNSPECIFIED.
WalkSeesItsOwn == walk.seen \subseteq Wanted(walk.filter)

\* A client that walks all pages sees every notification it asks for that was
\* there when it began, whatever arrives meanwhile, unless one arrives between
\* the two statements of a call, or it asks for pages over the largest size, or
\* for the default one (page_size 0: no pages are announced).
WalkSeesAll ==
  walk.at = "idle" /\ walk.size \in 1..LargestSize /\ ~squeezed =>
    Wanted(walk.filter) \cap (1..walk.there) \subseteq walk.seen

\* Page by page a list is complete, and holds nothing else.
ListsAreComplete == WalkSeesItsOwn /\ WalkSeesAll
=============================================================================
