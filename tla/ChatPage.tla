------------------------------ MODULE ChatPage ------------------------------
(***************************************************************************)
(* The Viewer's chat page on the room of Chat: the messages it holds, the   *)
(* live events it applies, the fetches that fill it, and when it tells the   *)
(* server that the room was read.                                           *)
(***************************************************************************)
EXTENDS Chat, SequencesExt

CONSTANTS PageSize, MaxDrops    \* messages of one fetch; bound: lost connections

ASSUME PageAssumption == PageSize \in Nat \ {0} /\ MaxDrops \in Nat

VARIABLES
  shown,      \* ids in the order of the screen, NoList until the first list arrives
  view,       \* what the screen says of each message
  looking,    \* the tab is visible and focused
  owes,       \* owesRead
  reading,    \* a read call on its way to the server
  fetch,      \* the list on its way, if any
  answers,    \* own messages the server has answered
  online, drops,
  seen,       \* history: messages that were on screen while somebody looked
  crossed     \* history: messages posted while a read call of the page was on its way
history == <<seen, crossed>>
pageVars == <<shown, view, looking, owes, reading, fetch, answers, online, drops, history>>

NoList == <<NoMessage>>
NoFetch == [at |-> "none", rows |-> <<>>]
Blank == [text |-> 0, deleted |-> FALSE]
Loaded == shown # NoList
ViewOf(row) == [text |-> IF row.deleted THEN 0 ELSE row.text, deleted |-> row.deleted]
\* The messages of S by createdAt: at place i the one that i - 1 of S are older than.
Older(S, m) == {n \in S : message[n].at < message[m].at}
InTime(S) == [i \in 1 .. Cardinality(S) |-> CHOOSE m \in S : Cardinality(Older(S, m)) = i - 1]
Newest ==
  {m \in Messages : Posted(m) /\
     Cardinality({n \in Messages : message[n].at > message[m].at}) < PageSize}

PageInit ==
  /\ shown = NoList /\ view = [m \in Messages |-> Blank]
  /\ looking = TRUE /\ owes = FALSE /\ reading = FALSE
  /\ fetch = [NoFetch EXCEPT !.at = "asked"] /\ answers = {}
  /\ online = TRUE /\ drops = 0 /\ seen = {} /\ crossed = {}

\* Mutant: the room is marked read whether or not somebody looks.
TellReadAlways == reading' = TRUE /\ owes' = FALSE
\* markRead of the page: the server is told only while somebody is looking.
TellRead ==
  IF looking THEN reading' = TRUE /\ owes' = FALSE ELSE reading' = reading /\ owes' = TRUE
KeepRead == UNCHANGED <<reading, owes>>

\* What the screen holds after a step has been seen, if somebody is looking.
Watch ==
  /\ seen' = IF looking /\ Loaded' THEN seen \cup ToSet(shown') ELSE seen
  /\ UNCHANGED crossed

----------------------------------------------------------------------------
\* GET /chat/messages on the server, for the first list and after a reconnect.
FetchRead ==
  /\ fetch.at = "asked"
  /\ fetch' = IF Viewer \in active /\ MayEnter(Viewer)
              THEN [at |-> "answered", rows |-> [m \in Newest |-> ViewOf(message[m])]]
              ELSE NoFetch
  /\ UNCHANGED <<vars, shown, view, looking, owes, reading, answers, online, drops, history>>

\* Mutant: what the page holds wins over what it fetched.
MergedKeeping(old, rows) ==
  [m \in Messages |-> IF m \in DOMAIN rows \ old THEN rows[m] ELSE view[m]]
\* mergeMessages: the fetched copy wins, what was not fetched stays.
Merged(old, rows) == [m \in Messages |-> IF m \in DOMAIN rows THEN rows[m] ELSE view[m]]

FetchApply ==
  /\ fetch.at = "answered"
  /\ LET old == IF Loaded THEN ToSet(shown) ELSE {}
     IN /\ shown' = InTime(old \cup DOMAIN fetch.rows)
        /\ view' = Merged(old, fetch.rows)
  /\ fetch' = NoFetch
  /\ TellRead /\ Watch
  /\ UNCHANGED <<vars, looking, answers, online, drops>>

\* "Dedupe by id": an event or an answer for a message on screen adds nothing.
Appended(m) == IF Loaded /\ m \notin ToSet(shown) THEN Append(shown, m) ELSE shown

\* The three events the page applies; a message that is not on screen is not changed.
Hear ==
  /\ inbox # <<>>
  /\ inbox' = Tail(inbox)
  /\ LET e == Head(inbox)
         on == Loaded /\ e.id \in ToSet(shown)
     IN CASE e.kind = "message" ->
               /\ shown' = Appended(e.id)
               /\ view' = IF Loaded /\ ~ on THEN [view EXCEPT ![e.id] = ViewOf(e)] ELSE view
               /\ TellRead
          [] e.kind = "edited" ->
               /\ view' = IF on THEN [view EXCEPT ![e.id] = ViewOf(e)] ELSE view
               /\ UNCHANGED shown /\ KeepRead
          [] e.kind = "deleted" ->
               /\ view' = IF on THEN [view EXCEPT ![e.id] = [text |-> 0, deleted |-> TRUE]] ELSE view
               /\ UNCHANGED shown /\ KeepRead
  /\ Watch
  /\ UNCHANGED <<room, message, readAt, slot, clock, job, joined, faults,
                 looking, fetch, answers, online, drops>>

\* The answer to one's own post.
Answered(m) ==
  /\ m \in answers
  /\ answers' = answers \ {m}
  /\ shown' = Appended(m)
  /\ view' = IF Loaded /\ m \notin ToSet(shown) THEN [view EXCEPT ![m] = Blank] ELSE view
  /\ Watch
  /\ UNCHANGED <<vars, looking, owes, reading, fetch, online, drops>>

\* Coming back to the tab pays what is owed.
LookBack ==
  /\ ~ looking /\ looking' = TRUE
  /\ IF owes THEN reading' = TRUE /\ owes' = FALSE ELSE KeepRead
  /\ seen' = IF Loaded THEN seen \cup ToSet(shown) ELSE seen
  /\ UNCHANGED <<vars, shown, view, fetch, answers, online, drops, crossed>>

LookAway ==
  /\ looking /\ looking' = FALSE
  /\ UNCHANGED <<vars, shown, view, owes, reading, fetch, answers, online, drops, history>>

\* The read call reaches the server.  Calls on their way at once count as one.
ReadArrives(p) ==
  /\ reading /\ reading' = FALSE
  /\ ReadCall(p, Viewer)
  /\ UNCHANGED <<shown, view, looking, owes, fetch, answers, online, drops, history>>

\* The server puts the socket into the room of its user after the handshake.
Join ==
  /\ online /\ ~ joined /\ joined' = TRUE
  /\ UNCHANGED <<room, message, readAt, slot, clock, job, inbox, faults, pageVars>>

\* The connection is lost, with the events on it.  Bound: not while a list is on its way.
Drop ==
  /\ online /\ drops < MaxDrops /\ fetch = NoFetch
  /\ online' = FALSE /\ drops' = drops + 1
  /\ joined' = FALSE /\ inbox' = <<>>
  /\ UNCHANGED <<room, message, readAt, slot, clock, job, faults,
                 shown, view, looking, owes, reading, fetch, answers, history>>

\* onReconnect: the list is fetched again as soon as the handshake is through.
Reconnect ==
  /\ ~ online /\ online' = TRUE
  /\ fetch' = [NoFetch EXCEPT !.at = "asked"]
  /\ UNCHANGED <<vars, shown, view, looking, owes, reading, answers, drops, history>>

JustPosted == {m \in Messages : Posted(m)' /\ ~ Posted(m)}

\* A step of the server, which may answer the Viewer's own post or drop its socket.
Server ==
  /\ Next
  /\ \A p \in Calls : ~ ReadCall(p, Viewer)    \* these come from the page
  /\ answers' = answers \cup
       {m \in Messages : \E p \in Calls :
          job[p].at = "mentions" /\ job[p].user = Viewer /\ job[p].msg = m /\ Mentions(p)}
  /\ online' = (online /\ (joined => joined'))
  /\ crossed' = IF reading THEN crossed \cup JustPosted ELSE crossed
  /\ UNCHANGED <<shown, view, looking, owes, reading, fetch, drops, seen>>

PageStep ==
  \/ FetchRead \/ FetchApply \/ Hear \/ LookBack \/ LookAway \/ Join \/ Drop \/ Reconnect
  \/ \E m \in Messages : Answered(m)
  \/ \E p \in Calls : ReadArrives(p)

PageNext == Server \/ PageStep
PageSpec == Init /\ PageInit /\ [][PageNext]_<<vars, pageVars>>
=============================================================================
