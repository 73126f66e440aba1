------------------------------ MODULE Sessions ------------------------------
(***************************************************************************)
(* Accounts and their sessions: invitations, sign-in, the rotation of      *)
(* refresh tokens, revocation, and the cached account state every request  *)
(* is checked against (apps/api/src/auth/auth.service.ts,                  *)
(* session-state.service.ts, jwt-auth.guard.ts), with the staff actions    *)
(* that end sessions (apps/api/src/people/employees.service.ts) and a      *)
(* device that holds one session and renews it one call at a time          *)
(* (apps/desktop/src/main/auth-store.ts, apps/internal/src/lib/api.ts).    *)
(*                                                                         *)
(* call[c] is what a running handler read; a device gives up on a call     *)
(* whose answer is lost, and the handler runs on.  A tick is longer than   *)
(* the second of slack of rejectionReason, refresh tokens outlive the time *)
(* considered, and a read of one row takes less than a tick (Tick).        *)
(***************************************************************************)
EXTENDS Integers, FiniteSets

CONSTANTS
  Users, Roles, Devices,
  Tokens,       \* row ids of RefreshToken (bound on their number)
  Links,        \* row ids of AuthToken (bound on their number)
  AccessTicks,  \* JWT_ACCESS_TTL
  CacheTicks,   \* TTL_MS of SessionStateService
  GraceTicks,   \* GRACE_MS of refresh
  LinkTicks,    \* the lifetime of a link
  LockTicks,    \* failedLoginLockMinutes
  LockCount,    \* failedLoginLockCount
  LastTick,     \* bound on the time considered
  MaxLosses,    \* a device's losses in a row are counted up to this bound
  MaxFailures,  \* bound on the failed logins of an account
  Calls, May    \* bounds: handlers in flight, and which handlers each may be

VARIABLES
  now,
  user,     \* [Users -> row of User, or NoRow]
  manager,  \* [Users -> reportingManagerId, or None]
  token,    \* [Tokens -> row of RefreshToken, or NoRow]
  link,     \* [Links -> row of AuthToken, or NoRow]
  cache,    \* [Users -> entry of SessionStateService, or NoRow]
  device,   \* [Devices -> the cookie, the access token and the call awaited]
  call,
  lag       \* history: how long after its revocation a request was still served

rows == <<user, manager, token, link>>
vars == <<now, rows, cache, device, call, lag>>

-----------------------------------------------------------------------------
NoRow == [none |-> TRUE]
None == "none"
Never == -1

ASSUME SessionsAssumption ==
  /\ Roles # {} /\ None \notin Users \cup Tokens \cup Calls
  /\ {GraceTicks, LinkTicks, LockTicks, MaxLosses} \subseteq Nat
  /\ CacheTicks \in Nat \ {0} /\ MaxLosses > 1

Idle == [at |-> "idle"]
Busy(c) == call[c] # Idle
Founder == [status |-> "ACTIVE", role |-> CHOOSE r \in Roles : TRUE, revokedAt |-> Never,
            leftAt |-> Never, failed |-> 0, lockedUntil |-> Never]
SignedOut == [cookie |-> None, access |-> NoRow, waits |-> None, losses |-> 0]

Init ==
  /\ now = 0
  /\ user \in [Users -> {NoRow, Founder}]
  /\ manager = [u \in Users |-> None]
  /\ token = [t \in Tokens |-> NoRow]
  /\ link = [l \in Links |-> NoRow]
  /\ cache = [u \in Users |-> NoRow]
  /\ device = [d \in Devices |-> SignedOut]
  /\ call = [c \in Calls |-> Idle]
  /\ lag = 0

Become(c, next) == call' = [call EXCEPT ![c] = next]
Begin(c, handler, next) ==
  /\ handler \in May[c] /\ ~ Busy(c) /\ Become(c, next)
  /\ UNCHANGED <<now, lag>>
Continue(c, at, next) ==
  /\ call[c].at = at /\ Become(c, next)
  /\ UNCHANGED <<now, lag>>

\* The answer reaches the device unless it gave up on the call.
Send(d, c) == device' = [device EXCEPT ![d].waits = c]
Answer(d, c, held) ==
  device' = IF device[d].waits = c THEN [device EXCEPT ![d] = held] ELSE device
Refuse(d, c) == Answer(d, c, SignedOut)

Exists(u) == user[u] # NoRow
Active(u) == Exists(u) /\ user[u].status = "ACTIVE"
Free(table) == {i \in DOMAIN table : table[i] = NoRow}
Live(t) == token[t] # NoRow /\ token[t].revokedAt = Never

-----------------------------------------------------------------------------
\* persistRefreshToken and signAccessToken, then respondWithTokens.
NewToken(u, family) == [user |-> u, family |-> family, revokedAt |-> Never, next |-> None]
Held(u, t) == [cookie |-> t, access |-> [user |-> u, iat |-> now], waits |-> None, losses |-> 0]

\* login: the row is read, then the password verified, then the row updated.
LoginLoad(c, d, u, right) ==
  /\ device[d].cookie = None /\ device[d].waits = None
  /\ Active(u) /\ user[u].lockedUntil <= now /\ user[u].failed < MaxFailures
  /\ Begin(c, "login", [at |-> "verify", d |-> d, user |-> u, right |-> right])
  /\ Send(d, c)
  /\ UNCHANGED <<rows, cache>>
LoginRight(c) ==
  LET u == call[c].user
  IN /\ call[c].at = "verify" /\ call[c].right
     /\ Continue(c, "verify", Idle)
     /\ user' = [user EXCEPT ![u].failed = 0, ![u].lockedUntil = Never]
     /\ \E t \in Free(token) : /\ token' = [token EXCEPT ![t] = NewToken(u, t)]
                               /\ Answer(call[c].d, c, Held(u, t))
     /\ UNCHANGED <<manager, link, cache>>
Locks(failed) == failed >= LockCount
LoginWrong(c) ==       \* registerFailedLogin: the atomic increment
  LET u == call[c].user
  IN /\ call[c].at = "verify" /\ ~ call[c].right
     /\ user' = [user EXCEPT ![u].failed = @ + 1]
     /\ Continue(c, "verify", IF Locks(user'[u].failed) THEN [at |-> "lock", user |-> u]
                              ELSE Idle)
     /\ Refuse(call[c].d, c)
     /\ UNCHANGED <<manager, token, link, cache>>
LoginLock(c) ==
  /\ Continue(c, "lock", Idle)
  /\ user' = [user EXCEPT ![call[c].user].lockedUntil = now + LockTicks]
  /\ UNCHANGED <<manager, token, link, cache, device>>

\* refresh.  A token revoked within the grace period whose replacement is unused rotates from
\* the replacement; any other reuse revokes the family.
NoGrace(t) == FALSE
OnceReplaced(t) == now - token[t].revokedAt < GraceTicks /\ token[t].next # None
InGrace(t) ==
  /\ now - token[t].revokedAt < GraceTicks
  /\ token[t].next # None /\ Live(token[t].next)
Usable(d) == device[d].access # NoRow /\ now - device[d].access.iat < AccessTicks
\* Ended by a logout or a revocation, not by rotation; a name for the properties.
Ended(t) ==
  \/ token[t].next = None
  \/ token[token[t].next].next = None /\ ~ Live(token[t].next)
RefreshPlan(d) ==
  LET t == device[d].cookie
      u == token[t].user
      rotate(from) == [at |-> "insert", d |-> d, user |-> u, from |-> from,
                       family |-> token[t].family]
  IN IF Live(t) THEN IF Active(u) THEN rotate(t) ELSE [at |-> "refuse", d |-> d]
     ELSE IF InGrace(t) THEN IF Active(u) THEN rotate(token[t].next) ELSE [at |-> "refuse", d |-> d]
     ELSE [at |-> "reuse", d |-> d, family |-> token[t].family,
           excused |-> device[d].losses > 1 \/ now - token[t].revokedAt >= GraceTicks \/ Ended(t)]
Renew(c, d) ==
  /\ device[d].cookie # None /\ device[d].waits = None
  /\ Begin(c, "refresh", RefreshPlan(d))
  /\ Send(d, c)
  /\ UNCHANGED <<rows, cache>>
RefreshLoad(c, d) == ~ Usable(d) /\ Renew(c, d)
RefreshRefuse(c) ==
  /\ Continue(c, "refuse", Idle) /\ Refuse(call[c].d, c)
  /\ UNCHANGED <<rows, cache>>
RotateInsert(c) ==
  /\ call[c].at = "insert"
  /\ \E t \in Free(token) :
       /\ token' = [token EXCEPT ![t] = NewToken(call[c].user, call[c].family)]
       /\ Continue(c, "insert", [at |-> "replace", d |-> call[c].d, user |-> call[c].user,
                                 from |-> call[c].from, family |-> call[c].family, new |-> t])
  /\ UNCHANGED <<user, manager, link, cache, device>>
Replace(from, new) == token' = [token EXCEPT ![from].revokedAt = now, ![from].next = new]
RotateReplace(c) ==
  /\ Continue(c, "replace", Idle)
  /\ Replace(call[c].from, call[c].new)
  /\ Answer(call[c].d, c, Held(call[c].user, call[c].new))
  /\ UNCHANGED <<user, manager, link, cache>>
RevokeRows(rowsOf(_)) ==
  token' = [t \in Tokens |-> IF Live(t) /\ rowsOf(t) THEN [token[t] EXCEPT !.revokedAt = now]
                             ELSE token[t]]
RevokeFamily(c) ==
  /\ Continue(c, "reuse", Idle)
  /\ RevokeRows(LAMBDA t : token[t].family = call[c].family)
  /\ Refuse(call[c].d, c)
  /\ UNCHANGED <<user, manager, link, cache>>

\* logout: the client forgets the session whatever becomes of the call.
LogoutLoad(c, d) ==
  /\ device[d].cookie # None /\ device[d].waits = None
  /\ Begin(c, "logout", IF Live(device[d].cookie) THEN [at |-> "logout", t |-> device[d].cookie]
                        ELSE Idle)
  /\ device' = [device EXCEPT ![d] = SignedOut]
  /\ UNCHANGED <<rows, cache>>
LogoutWrite(c) ==
  /\ Continue(c, "logout", Idle)
  /\ token' = [token EXCEPT ![call[c].t].revokedAt = now]
  /\ UNCHANGED <<user, manager, link, cache, device>>

\* The answer, or the request, is lost.  The access token lives in memory only: a client that
\* starts again has the cookie and renews.
Relaunch(d) ==
  /\ device[d].access # NoRow
  /\ device' = [device EXCEPT ![d].access = NoRow]
  /\ UNCHANGED <<now, rows, cache, call, lag>>
Lose(d) == IF device[d].waits = None THEN device[d]
           ELSE [device[d] EXCEPT !.waits = None, !.losses = IF @ < MaxLosses THEN @ + 1 ELSE @]
GiveUp(d) ==
  /\ device[d].waits # None
  /\ device' = [device EXCEPT ![d] = Lose(d)]
  /\ UNCHANGED <<now, rows, cache, call, lag>>

-----------------------------------------------------------------------------
\* JwtAuthGuard, rejectionReason and read.
Cached(u) == cache[u] # NoRow
Fresh(u) == cache[u] # NoRow /\ now - cache[u].readAt < CacheTicks
Rejected(entry, iat) == entry.status # "ACTIVE" \/ entry.revokedAt > iat
Behind(u, iat) ==
  IF user[u].status # "ACTIVE" THEN now - user[u].leftAt
  ELSE IF user[u].revokedAt > iat THEN now - user[u].revokedAt ELSE 0
Guarded(d, entry) ==
  LET a == device[d].access
  IN IF Rejected(entry, a.iat)
     THEN device' = [device EXCEPT ![d].access = NoRow] /\ UNCHANGED lag
     ELSE /\ lag' = IF Behind(a.user, a.iat) > lag THEN Behind(a.user, a.iat) ELSE lag
          /\ UNCHANGED device
RequestHit(d) ==
  /\ Usable(d) /\ Fresh(device[d].access.user)
  /\ Guarded(d, cache[device[d].access.user])
  /\ UNCHANGED <<now, rows, cache, call>>
RequestRead(c, d) ==
  /\ Usable(d) /\ ~ Fresh(device[d].access.user)
  /\ LET u == device[d].access.user
     IN Begin(c, "request", [at |-> "fill", d |-> d, user |-> u, access |-> device[d].access,
                             entry |-> [status |-> user[u].status, revokedAt |-> user[u].revokedAt]])
  /\ UNCHANGED <<rows, cache, device>>
Entry(reading) == [status |-> reading.status, revokedAt |-> reading.revokedAt, readAt |-> now]
Remember(c) == cache' = [cache EXCEPT ![call[c].user] = Entry(call[c].entry)]
RequestFill(c) ==
  /\ call[c].at = "fill" /\ Become(c, Idle)
  /\ Remember(c)
  /\ IF device[call[c].d].access = call[c].access THEN Guarded(call[c].d, call[c].entry)
     ELSE UNCHANGED <<device, lag>>
  /\ UNCHANGED <<now, rows>>

-----------------------------------------------------------------------------
\* revokeAllForUser: the tokens, then the stamp and the cached state; then what the caller adds.
RevokeAll(u, then) == [at |-> "revoke", user |-> u, then |-> then]
RevokeTokens(c) ==
  /\ Continue(c, "revoke", [call[c] EXCEPT !.at = "stamp"])
  /\ RevokeRows(LAMBDA t : token[t].user = call[c].user)
  /\ UNCHANGED <<user, manager, link, cache, device>>
Stamp(c) ==
  /\ Continue(c, "stamp", call[c].then)
  /\ user' = [user EXCEPT ![call[c].user].revokedAt = now]
  /\ cache' = [cache EXCEPT ![call[c].user] = NoRow]
  /\ UNCHANGED <<manager, token, link, device>>

\* EmployeesService.deactivate (its tasks are returned in Tasks) and setRole.
DeactivateLoad(c, u) ==
  /\ Exists(u) /\ user[u].status # "DEACTIVATED"
  /\ Begin(c, "deactivate", [at |-> "leave", user |-> u])
  /\ UNCHANGED <<rows, cache, device>>
DeactivateWrite(c) ==
  LET u == call[c].user
  IN /\ Continue(c, "leave", RevokeAll(u, [at |-> "burn", user |-> u]))
     /\ user' = [user EXCEPT ![u].status = "DEACTIVATED", ![u].leftAt = now]
     /\ UNCHANGED <<manager, token, link, cache, device>>
Burnt(burns(_)) ==
  link' = [l \in Links |-> IF link[l] # NoRow /\ burns(l) THEN [link[l] EXCEPT !.used = TRUE]
                           ELSE link[l]]
BurnLinks(c) ==
  /\ Continue(c, "burn", Idle)
  /\ Burnt(LAMBDA l : link[l].user = call[c].user)
  /\ UNCHANGED <<user, manager, token, cache, device>>
SetRoleLoad(c, u, role) ==
  /\ Exists(u) /\ user[u].role # role
  /\ Begin(c, "setRole", [at |-> "role", user |-> u, role |-> role])
  /\ UNCHANGED <<rows, cache, device>>
SetRoleWrite(c) ==
  /\ Continue(c, "role", RevokeAll(call[c].user, Idle))
  /\ user' = [user EXCEPT ![call[c].user].role = call[c].role]
  /\ UNCHANGED <<manager, token, link, cache, device>>

\* invite, resendInvite and forgotPassword, down to createAuthToken.
Invite(c, u, role) ==
  /\ ~ Exists(u)
  /\ Begin(c, "invite", [at |-> "link", user |-> u, kind |-> "INVITE"])
  /\ user' = [user EXCEPT ![u] = [Founder EXCEPT !.status = "INVITED", !.role = role]]
  /\ UNCHANGED <<manager, token, link, cache, device>>
ResendLoad(c, u) ==
  /\ Exists(u) /\ user[u].status = "INVITED"
  /\ Begin(c, "resend", [at |-> "reissue", user |-> u])
  /\ UNCHANGED <<rows, cache, device>>
NewLink(u, kind) == [user |-> u, kind |-> kind, used |-> FALSE, expires |-> now + LinkTicks]
BurnInvites(u) ==
  Burnt(LAMBDA l : link[l].user = u /\ link[l].kind = "INVITE")
ResendBurn(c) ==
  /\ Continue(c, "reissue", [at |-> "link", user |-> call[c].user, kind |-> "INVITE"])
  /\ BurnInvites(call[c].user)
  /\ UNCHANGED <<user, manager, token, cache, device>>
ForgotLoad(c, u) ==
  /\ Active(u)
  /\ Begin(c, "forgot", [at |-> "link", user |-> u, kind |-> "RESET"])
  /\ UNCHANGED <<rows, cache, device>>
CreateLink(c) ==
  /\ Continue(c, "link", Idle)
  /\ \E l \in Free(link) : link' = [link EXCEPT ![l] = NewLink(call[c].user, call[c].kind)]
  /\ UNCHANGED <<user, manager, token, cache, device>>

\* consumePasswordToken: what the link and its owner allow is read before the hash is made.
Works(l) == link[l] # NoRow /\ ~ link[l].used /\ link[l].expires >= now
Allows(l) == user[link[l].user].status = IF link[l].kind = "INVITE" THEN "INVITED" ELSE "ACTIVE"
ConsumeLoad(c, l) ==
  /\ Works(l) /\ Allows(l)
  /\ Begin(c, "consume", [at |-> "password", link |-> l])
  /\ UNCHANGED <<rows, cache, device>>
ConsumeWrite(c) ==
  LET l == call[c].link
      u == link[l].user
  IN /\ Continue(c, "password", RevokeAll(u, Idle))
     /\ user' = [user EXCEPT ![u].failed = 0, ![u].lockedUntil = Never,
                             ![u].status = IF link[l].kind = "INVITE" THEN "ACTIVE" ELSE @]
     /\ link' = [link EXCEPT ![l].used = TRUE]
     /\ UNCHANGED <<manager, token, cache, device>>

-----------------------------------------------------------------------------
\* EmployeesService.update, as to the reporting manager: assertNoManagerCycle reads the chain
\* row by row, the write follows.
UpdateLoad(c, u, m) ==
  /\ Exists(u) /\ Exists(m) /\ u # m /\ manager[u] # m
  /\ Begin(c, "update", [at |-> "walk", user |-> u, boss |-> m, current |-> m, seen |-> {u}])
  /\ UNCHANGED <<rows, cache, device>>
WalkOneStep(c) == [at |-> "assign", user |-> call[c].user, boss |-> call[c].boss]
WalkOn(c) ==
  LET k == call[c]
  IN IF k.current \in k.seen THEN Idle
     ELSE IF manager[k.current] = None THEN [at |-> "assign", user |-> k.user, boss |-> k.boss]
     ELSE [k EXCEPT !.seen = @ \cup {k.current}, !.current = manager[k.current]]
Walk(c) ==
  /\ Continue(c, "walk", WalkOn(c))
  /\ UNCHANGED <<rows, cache, device>>
UpdateWrite(c) ==
  /\ Continue(c, "assign", Idle)
  /\ manager' = [manager EXCEPT ![call[c].user] = call[c].boss]
  /\ UNCHANGED <<user, token, link, cache, device>>

-----------------------------------------------------------------------------
Tick ==
  /\ now < LastTick /\ \A c \in Calls : call[c].at # "fill"
  /\ now' = now + 1
  /\ UNCHANGED <<rows, cache, device, call, lag>>
Restart ==
  /\ \E c \in Calls : Busy(c)
  /\ call' = [c \in Calls |-> Idle] /\ cache' = [u \in Users |-> NoRow]
  /\ device' = [d \in Devices |-> Lose(d)]
  /\ UNCHANGED <<now, rows, lag>>

DeviceStep(c) ==
  \/ \E d \in Devices, u \in Users, right \in BOOLEAN : LoginLoad(c, d, u, right)
  \/ LoginRight(c) \/ LoginWrong(c) \/ LoginLock(c)
  \/ \E d \in Devices : RefreshLoad(c, d) \/ LogoutLoad(c, d) \/ RequestRead(c, d)
  \/ RefreshRefuse(c) \/ RotateInsert(c) \/ RotateReplace(c) \/ RevokeFamily(c)
  \/ LogoutWrite(c) \/ RequestFill(c)
StaffStep(c) ==
  \/ \E u \in Users : DeactivateLoad(c, u) \/ ResendLoad(c, u) \/ ForgotLoad(c, u)
  \/ \E u \in Users, r \in Roles : SetRoleLoad(c, u, r) \/ Invite(c, u, r)
  \/ \E l \in Links : ConsumeLoad(c, l)
  \/ \E u, m \in Users : UpdateLoad(c, u, m)
  \/ DeactivateWrite(c) \/ RevokeTokens(c) \/ Stamp(c) \/ BurnLinks(c) \/ SetRoleWrite(c)
  \/ ResendBurn(c) \/ CreateLink(c) \/ ConsumeWrite(c) \/ Walk(c) \/ UpdateWrite(c)

Next ==
  \/ Tick \/ Restart
  \/ \E d \in Devices : RequestHit(d) \/ GiveUp(d) \/ Relaunch(d)
  \/ \E c \in Calls : DeviceStep(c) \/ StaffStep(c)

Spec == Init /\ [][Next]_vars
=============================================================================
