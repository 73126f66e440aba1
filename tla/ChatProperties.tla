--------------------------- MODULE ChatProperties ---------------------------
(***************************************************************************)
(* What the chat promises: of scheduled messages, and of the Viewer's page. *)
(***************************************************************************)
EXTENDS ChatPage

MessageRow == [author : Users \cup {NoOne}, at : Nat, text : Nat, deleted : BOOLEAN,
               slot : Slots \cup {NoSlot}]
SlotRow == [author : Users \cup {NoOne}, state : {"none", "waiting", "claimed", "cancelled"},
            sent : Messages \cup {NoMessage}, failed : BOOLEAN, told : BOOLEAN]
EventRow == [kind : {"message", "edited", "deleted"}, id : Messages \cup {NoMessage},
             text : Nat, deleted : BOOLEAN]
JobRow == [at : {"idle", "insert", "commit", "audience", "emit", "mentions", "mark", "marking",
                 "edit", "delete", "add", "remove", "archive", "cancelAll", "schedule",
                 "pass", "enter", "record", "fail", "tell"},
           user : Users \cup {NoOne}, msg : Messages \cup {NoMessage}, slot : Slots \cup {NoSlot},
           tick : Nat, to : SUBSET Users, event : EventRow \cup {NoEvent},
           todo : SUBSET [slot : Slots, ok : BOOLEAN]]
\* Steps that take a row by its id have one.
Aimed(row) ==
  /\ row.at = "add" => row.user \in Users
  /\ row.at \in {"commit", "edit", "delete"} => row.msg \in Messages

\* Type invariant of the server's side.
TypeOK ==
  /\ members \subseteq Users /\ archived \in BOOLEAN /\ active \subseteq Users
  /\ message \in [Messages -> MessageRow]
  /\ readAt \in [Users -> Nat]
  /\ slot \in [Slots -> SlotRow]
  /\ clock \in Nat /\ faults \in Nat
  /\ job \in [Procs -> JobRow]
  /\ \A p \in Procs : Aimed(job[p])

\* "Each is claimed first, so a message is never sent twice": whatever passes overlap, with
\* cancels, deletions of the group, failing queries and restarts between any two steps, a
\* scheduled message is posted at most once, and never once its author has cancelled it.
SentOnce ==
  \A m \in Messages :
    Posted(m) /\ message[m].slot # NoSlot =>
      /\ slot[message[m].slot].state = "claimed"
      /\ \A n \in Messages : Posted(n) /\ message[n].slot = message[m].slot => n = m

\* "Never fail silently": while no query fails and the API stays up, a claimed message that no
\* pass works on was posted or its author was told that it was not, and never both.
ScheduledIsSettled ==
  faults = 0 =>
    \A s \in Slots :
      slot[s].state = "claimed" /\ (\A p \in Passes : job[p].slot # s) =>
        LET sent == \E m \in Messages : Posted(m) /\ message[m].slot = s
        IN /\ sent <=> slot[s].sent # NoMessage
           /\ sent <=> ~ slot[s].told
           /\ slot[s].told <=> slot[s].failed

----------------------------------------------------------------------------
Quiet == \A p \in Procs : job[p] = Idle
\* Nothing is on its way to the page; a read call may be on its way to the server.
Still == fetch = NoFetch /\ answers = {} /\ inbox = <<>> /\ (online => joined)

\* The server works on one request at a time and begins none while the page fetches, and none
\* but a read call while an event or an answer is on its way to the page; the connection and the
\* Viewer's attention change between requests; the Viewer writes, looking at the page, and comes
\* back to the tab, only while connected.
CalmStep ==
  /\ (\E p \in Procs : job[p] = Idle /\ job'[p] # Idle) =>
       Quiet /\ fetch = NoFetch /\ (reading' # reading \/ Still)
  /\ online' # online => Quiet /\ Still
  /\ looking' # looking => Quiet /\ Still /\ (looking' => online)
  /\ \A p \in Calls :
       job[p] = Idle /\ job'[p].user = Viewer /\ job'[p].at # "mark" => online /\ looking /\ Loaded

\* "Fold in whatever was posted, edited or deleted while we were offline": once nothing is on
\* its way to it the page shows, of the newest PageSize messages, each once, in order, as it is.
PageMatches ==
  Quiet /\ Still /\ online /\ Loaded =>
    /\ Newest \subseteq ToSet(shown)
    /\ \A m \in Newest : view[m] = ViewOf(message[m])
    /\ \A i, j \in DOMAIN shown : i < j => message[shown[i]].at < message[shown[j]].at

\* "A message only counts as read when someone is actually looking at it": of the messages a
\* fetch would bring, each below the read pointer was on the screen while somebody looked, or
\* was posted after the page had sent a read call and before the server stamped it with its own
\* now (chat.service.ts:989): such a message counts as read unseen.
ReadIsSeen ==
  \A m \in Newest :
    message[m].author # Viewer /\ message[m].at <= readAt[Viewer] => m \in seen \cup crossed

=============================================================================
