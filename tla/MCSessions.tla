----------------------------- MODULE MCSessions -----------------------------
(***************************************************************************)
(* Small instances of Sessions, and of Sockets when they are "watching".    *)
(***************************************************************************)
EXTENDS SessionsProperties, TLC

CONSTANTS ann, bob, eve, member, lead, d1, t1, t2, t3, l1, l2, c1, c2,
          ShortTick  \* bound on the time of an instance that is not watching

VARIABLE watching

MCMay ==
  (c1 :> {"login", "refresh", "request", "logout", "consume", "invite"})
  @@ (c2 :> {"refresh", "deactivate", "setRole", "resend", "forgot", "consume", "update"})
MCSymmetry == Permutations(Tokens) \cup Permutations(Links)

\* Explored, of one account: lost answers and failed logins; the end of its sessions by others;
\* or its links.  Else the managers of three.
Alone == user[bob] = NoRow /\ user[eve] = NoRow
NoSessions == \A t \in Tokens : token[t] = NoRow
NoLinks == (\A l \in Links : link[l] = NoRow) /\ \A c \in Calls : call[c].at \notin {"link", "reissue"}
Undisturbed == user[ann] # NoRow /\ user[ann] = [Founder EXCEPT !.failed = user[ann].failed,
                                                                !.lockedUntil = user[ann].lockedUntil]
Unfailing == (user[ann] # NoRow => user[ann].failed = 0) /\ \A d \in Devices : device[d].losses = 0
Established == \A u \in Users : user[u] = Founder
OnlyManaging == \A c \in Calls : call[c].at \in {"idle", "walk", "assign"}
MCFocus ==
  /\ manager = [u \in Users |-> None] \/ (Established /\ OnlyManaging /\ now = 0)
  /\ Alone => \/ NoLinks /\ (Undisturbed \/ Unfailing)
              \/ NoSessions /\ Unfailing
  /\ ~ Alone => Established /\ OnlyManaging /\ now = 0 /\ NoSessions /\ NoLinks

\* Watching: one account, cut off once; its links and failed logins are left out, the requests
\* that fill the cache are the sockets' own, and an answer is lost when nobody revokes.  Roles
\* change only there.
MCInit ==
  /\ Init /\ FeedInit /\ watching \in BOOLEAN
  /\ ~ watching => \A d \in Devices : feed[d].kind = "page"
  /\ watching => Undisturbed /\ Alone
MCNext ==
  /\ UNCHANGED watching
  /\ \/ ~ watching /\ Next /\ now' <= ShortTick /\ UNCHANGED feed
     \/ watching /\ FeedNext
MCSpec == MCInit /\ [][MCNext]_<<feedVars, watching>>
MCWatching ==
  IF watching
  THEN /\ NoLinks /\ user[ann].failed = 0 /\ Cardinality(Free(token)) > 0
       /\ user[ann].revokedAt # Never => \A c \in Calls : call[c].at \notin {"leave", "role"}
       /\ user[ann].role = Founder.role \/ user[ann].status = "ACTIVE"
       /\ Unfailing \/ Undisturbed
       /\ \A c \in Calls : call[c].at \notin {"fill", "lock", "logout"}
  ELSE \A c \in Calls : call[c].at # "role"
=============================================================================
