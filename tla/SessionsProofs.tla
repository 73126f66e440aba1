--------------------------- MODULE SessionsProofs ---------------------------
(***************************************************************************)
(* Proofs about accounts, their sessions and their sockets.                *)
(***************************************************************************)
EXTENDS SessionsProperties, TLAPS

-----------------------------------------------------------------------------
\* Types.
Statuses == {"INVITED", "ACTIVE", "DEACTIVATED"}
Account == [status : Statuses, role : Roles, revokedAt : Int, leftAt : Int, failed : Int,
            lockedUntil : Int]
RefreshToken == [user : Users, family : Tokens, revokedAt : Int, next : Tokens \cup {None}]
AuthLink == [user : Users, kind : {"INVITE", "RESET"}, used : BOOLEAN, expires : Int]
Reading == [status : Statuses, revokedAt : Int]
CacheEntry == [status : Statuses, revokedAt : Int, readAt : Int]
Access == [user : Users, iat : Int]
Session == [cookie : Tokens \cup {None}, access : Access \cup {NoRow},
            waits : Calls \cup {None}, losses : Nat]

OfUser(at) == [at : {at}, user : Users]
CallOf(at) ==
  CASE at = "idle" -> {Idle}
    [] at = "verify" -> [at : {at}, d : Devices, user : Users, right : BOOLEAN]
    [] at \in {"lock", "burn", "leave", "reissue"} -> OfUser(at)
    [] at = "insert" -> [at : {at}, d : Devices, user : Users, from : Tokens, family : Tokens]
    [] at = "replace" -> [at : {at}, d : Devices, user : Users, from : Tokens, family : Tokens,
                          new : Tokens]
    [] at = "refuse" -> [at : {at}, d : Devices]
    [] at = "reuse" -> [at : {at}, d : Devices, family : Tokens, excused : BOOLEAN]
    [] at = "logout" -> [at : {at}, t : Tokens]
    [] at = "fill" -> [at : {at}, d : Devices, user : Users, access : Access, entry : Reading]
    [] at \in {"revoke", "stamp"} -> [at : {at}, user : Users, then : OfUser("burn") \cup {Idle}]
    [] at = "role" -> [at : {at}, user : Users, role : Roles]
    [] at = "link" -> [at : {at}, user : Users, kind : {"INVITE", "RESET"}]
    [] at = "password" -> [at : {at}, link : Links]
    [] at = "walk" -> [at : {at}, user : Users, boss : Users, current : Users, seen : SUBSET Users]
    [] at = "assign" -> [at : {at}, user : Users, boss : Users]
    [] OTHER -> {}

\* Every row has its type, and rows are never deleted: what refers to one finds it.
Anonymous == {"idle", "refuse", "reuse", "logout", "burn", "password"}
References(k) ==
  /\ k.at \notin Anonymous => Exists(k.user)
  /\ k.at \in {"insert", "replace"} => token[k.from] # NoRow
  /\ k.at = "replace" => token[k.new] # NoRow
  /\ k.at = "logout" => token[k.t] # NoRow
  /\ k.at = "password" => link[k.link] # NoRow
  /\ k.at = "fill" => k.access.user = k.user
AccountsOK ==
  /\ now \in Nat /\ lag \in Int
  /\ user \in [Users -> Account \cup {NoRow}]
  /\ manager \in [Users -> Users \cup {None}]
TablesOK ==
  /\ token \in [Tokens -> RefreshToken \cup {NoRow}]
  /\ link \in [Links -> AuthLink \cup {NoRow}]
  /\ \A t \in Tokens : token[t] # NoRow => Exists(token[t].user)
  /\ \A l \in Links : link[l] # NoRow => Exists(link[l].user)
CacheOK ==
  /\ cache \in [Users -> CacheEntry \cup {NoRow}]
  /\ \A u \in Users : cache[u] # NoRow => Exists(u)
DevicesOK ==
  /\ device \in [Devices -> Session]
  /\ \A d \in Devices : /\ device[d].cookie # None => token[device[d].cookie] # NoRow
                        /\ device[d].access # NoRow => Exists(device[d].access.user)
CallsOK ==
  /\ call = [c \in Calls |-> call[c]]
  /\ \A c \in Calls : call[c] \in CallOf(call[c].at) /\ References(call[c])
Sound == AccountsOK /\ TablesOK /\ CacheOK /\ DevicesOK /\ CallsOK

RowsStay ==
  /\ \A u \in Users : Exists(u) => user'[u] # NoRow
  /\ \A t \in Tokens : token[t] # NoRow => token'[t] # NoRow
  /\ \A l \in Links : link[l] # NoRow => link'[l] # NoRow

-----------------------------------------------------------------------------
LEMMA CallShapes ==
  ASSUME NEW k, k \in CallOf(k.at)
  PROVE  /\ k.at = "verify" => k \in [at : {"verify"}, d : Devices, user : Users, right : BOOLEAN]
         /\ k.at \in {"lock", "burn", "leave", "reissue"} => k \in OfUser(k.at)
         /\ k.at = "insert" => k \in [at : {"insert"}, d : Devices, user : Users, from : Tokens,
                                      family : Tokens]
         /\ k.at = "replace" => k \in [at : {"replace"}, d : Devices, user : Users, from : Tokens,
                                       family : Tokens, new : Tokens]
         /\ k.at = "refuse" => k \in [at : {"refuse"}, d : Devices]
         /\ k.at = "reuse" => k \in [at : {"reuse"}, d : Devices, family : Tokens, excused : BOOLEAN]
         /\ k.at = "logout" => k \in [at : {"logout"}, t : Tokens]
         /\ k.at = "fill" => k \in [at : {"fill"}, d : Devices, user : Users, access : Access,
                                    entry : Reading]
         /\ k.at \in {"revoke", "stamp"} =>
              k \in [at : {k.at}, user : Users, then : OfUser("burn") \cup {Idle}]
         /\ k.at = "role" => k \in [at : {"role"}, user : Users, role : Roles]
         /\ k.at = "link" => k \in [at : {"link"}, user : Users, kind : {"INVITE", "RESET"}]
         /\ k.at = "password" => k \in [at : {"password"}, link : Links]
         /\ k.at = "walk" => k \in [at : {"walk"}, user : Users, boss : Users, current : Users,
                                    seen : SUBSET Users]
         /\ k.at = "assign" => k \in [at : {"assign"}, user : Users, boss : Users]
         /\ k.at \notin Anonymous => k.user \in Users
  BY DEF CallOf, OfUser, Anonymous, Idle

LEMMA CallOfInverse ==
  ASSUME NEW x
  PROVE  /\ Idle.at = "idle" /\ Idle \in CallOf("idle")
         /\ x \in {"lock", "burn", "leave", "reissue"} => CallOf(x) = OfUser(x)
  BY DEF CallOf, Idle

LEMMA SoundInitially == Init => Sound
  <1> SUFFICES ASSUME Init PROVE Sound
    OBVIOUS
  <1>1. Founder \in Account
    BY SessionsAssumption DEF Founder, Account, Statuses, Never
  <1>2. SignedOut \in Session /\ SignedOut.cookie = None /\ SignedOut.access = NoRow
    BY DEF SignedOut, Session
  <1>3. Idle \in CallOf("idle") /\ Idle.at = "idle"
    BY CallOfInverse
  <1>4. References(Idle)
    BY <1>3 DEF References, Anonymous
  <1> QED BY <1>1, <1>2, <1>3, <1>4
          DEF Init, Sound, AccountsOK, TablesOK, CacheOK, DevicesOK, CallsOK

\* A handler goes on.
LEMMA CallGoesOn ==
  ASSUME Sound, RowsStay, NEW c \in Calls, NEW next, Become(c, next), next \in CallOf(next.at),
         /\ next.at \notin Anonymous => user'[next.user] # NoRow
         /\ next.at \in {"insert", "replace"} => token'[next.from] # NoRow
         /\ next.at = "replace" => token'[next.new] # NoRow
         /\ next.at = "logout" => token'[next.t] # NoRow
         /\ next.at = "password" => link'[next.link] # NoRow
         /\ next.at = "fill" => next.access.user = next.user
  PROVE  CallsOK'
  <1>1. \A e \in Calls : call'[e] = IF e = c THEN next ELSE call[e]
    BY DEF Sound, CallsOK, Become
  <1>2. call' = [e \in Calls |-> call'[e]]
    BY DEF Sound, CallsOK, Become
  <1>3. ASSUME NEW e \in Calls PROVE call'[e] \in CallOf(call'[e].at)
    BY <1>1 DEF Sound, CallsOK
  <1>4. ASSUME NEW e \in Calls, e # c PROVE References(call[e])'
    <2>1. call'[e] = call[e] /\ References(call[e]) /\ call[e] \in CallOf(call[e].at)
      BY <1>1, <1>4 DEF Sound, CallsOK
    <2> DEFINE k == call[e]
    <2>2. /\ k.at \notin Anonymous => k.user \in Users
          /\ k.at \in {"insert", "replace"} => k.from \in Tokens
          /\ k.at = "replace" => k.new \in Tokens
          /\ k.at = "logout" => k.t \in Tokens
          /\ k.at = "password" => k.link \in Links
      BY <2>1, CallShapes
    <2> QED BY <2>1, <2>2 DEF References, RowsStay, Exists
  <1>5. References(call[c])'
    BY <1>1 DEF References, Exists
  <1> QED BY <1>1, <1>2, <1>3, <1>4, <1>5 DEF CallsOK

\* What a step leaves alone stays sound.
LEMMA UntouchedStays ==
  ASSUME Sound, RowsStay
  PROVE  /\ UNCHANGED <<now, lag, user, manager>> => AccountsOK'
         /\ UNCHANGED <<token, link>> => TablesOK'
         /\ UNCHANGED cache => CacheOK'
         /\ UNCHANGED device => DevicesOK'
         /\ UNCHANGED call => CallsOK'
  <1>1. UNCHANGED <<now, lag, user, manager>> => AccountsOK'
    BY DEF Sound, AccountsOK
  <1>2. ASSUME UNCHANGED <<token, link>> PROVE TablesOK'
    BY <1>2 DEF Sound, TablesOK, RowsStay, Exists, RefreshToken, AuthLink
  <1>3. ASSUME UNCHANGED cache PROVE CacheOK'
    BY <1>3 DEF Sound, CacheOK, RowsStay, Exists
  <1>4. ASSUME UNCHANGED device PROVE DevicesOK'
    BY <1>4 DEF Sound, DevicesOK, RowsStay, Exists, Session, Access
  <1>5. ASSUME UNCHANGED call PROVE CallsOK'
    <2>1. ASSUME NEW e \in Calls PROVE References(call[e])'
      <3> DEFINE k == call[e]
      <3>1. k \in CallOf(k.at) /\ References(k)
        BY DEF Sound, CallsOK
      <3>2. /\ k.at \notin Anonymous => k.user \in Users
            /\ k.at \in {"insert", "replace"} => k.from \in Tokens
            /\ k.at = "replace" => k.new \in Tokens
            /\ k.at = "logout" => k.t \in Tokens
            /\ k.at = "password" => k.link \in Links
        BY <3>1, CallShapes
      <3> QED BY <1>5, <3>1, <3>2 DEF References, RowsStay, Exists
    <2> QED BY <1>5, <2>1 DEF Sound, CallsOK
  <1> QED BY <1>1, <1>2, <1>3, <1>4, <1>5

-----------------------------------------------------------------------------
LEMMA NoRowStays ==
  ASSUME NEW x
  PROVE  /\ [NoRow EXCEPT !.revokedAt = x] = NoRow /\ [NoRow EXCEPT !.next = x] = NoRow
         /\ [NoRow EXCEPT !.used = x] = NoRow
  BY DEF NoRow

LEMMA RowsDiffer ==
  /\ \A r \in Account : r # NoRow
  /\ \A r \in RefreshToken : r # NoRow
  /\ \A r \in AuthLink : r # NoRow
  /\ \A r \in CacheEntry : r # NoRow
  <1>1. \A r \in Account : "status" \in DOMAIN r
    BY DEF Account
  <1>2. \A r \in RefreshToken : "user" \in DOMAIN r
    BY DEF RefreshToken
  <1>3. \A r \in AuthLink : "user" \in DOMAIN r
    BY DEF AuthLink
  <1>4. \A r \in CacheEntry : "status" \in DOMAIN r
    BY DEF CacheEntry
  <1> QED BY <1>1, <1>2, <1>3, <1>4 DEF NoRow

LEMMA NewTokenRow ==
  ASSUME NEW u \in Users, NEW f \in Tokens
  PROVE  NewToken(u, f) \in RefreshToken /\ NewToken(u, f).user = u /\ NewToken(u, f).next = None
         /\ NewToken(u, f).revokedAt = Never
  BY DEF NewToken, RefreshToken, Never

\* A token is added, or the rows that were there are changed.
LEMMA TokenAdded ==
  ASSUME Sound, UNCHANGED <<user, link>>, NEW t \in Free(token), NEW u \in Users, Exists(u),
         NEW f \in Tokens, token' = [token EXCEPT ![t] = NewToken(u, f)]
  PROVE  RowsStay /\ TablesOK' /\ t \in Tokens /\ token'[t] # NoRow
  <1>1. t \in Tokens /\ token[t] = NoRow
    BY DEF Free, Sound, TablesOK
  <1>2. token'[t] = NewToken(u, f) /\ token'[t] # NoRow
    BY <1>1, NewTokenRow, RowsDiffer DEF Sound, TablesOK
  <1> QED BY <1>1, <1>2, NewTokenRow DEF Sound, TablesOK, RowsStay, Exists

LEMMA TokensChanged ==
  ASSUME Sound, UNCHANGED <<user, link>>, token' = [t \in Tokens |-> token'[t]],
         \A t \in Tokens : /\ token[t] = NoRow => token'[t] = NoRow
                           /\ token[t] # NoRow => /\ token'[t] \in RefreshToken
                                                  /\ token'[t].user = token[t].user
  PROVE  RowsStay /\ TablesOK'
  <1>1. token' \in [Tokens -> RefreshToken \cup {NoRow}]
    BY DEF Sound, TablesOK
  <1>2. RowsStay
    BY RowsDiffer DEF RowsStay, Exists
  <1>3. \A t \in Tokens : token'[t] # NoRow => Exists(token[t].user)
    BY DEF Sound, TablesOK
  <1> QED BY <1>1, <1>2, <1>3 DEF Sound, TablesOK, Exists

LEMMA TokensRevoked ==
  ASSUME Sound, UNCHANGED <<user, link>>, token' = [t \in Tokens |-> token'[t]],
         \A t \in Tokens : token'[t] # token[t] =>
           token[t] # NoRow /\ token'[t] = [token[t] EXCEPT !.revokedAt = now]
  PROVE  RowsStay /\ TablesOK'
  <1>1. ASSUME NEW t \in Tokens, token[t] # NoRow
        PROVE  [token[t] EXCEPT !.revokedAt = now] \in RefreshToken
    BY <1>1 DEF Sound, TablesOK, AccountsOK, RefreshToken
  <1>2. ASSUME NEW t \in Tokens, token[t] # NoRow
        PROVE  [token[t] EXCEPT !.revokedAt = now].user = token[t].user
    BY <1>2 DEF Sound, TablesOK, RefreshToken
  <1>4. ASSUME NEW t \in Tokens
        PROVE  /\ token[t] = NoRow => token'[t] = NoRow
               /\ token[t] # NoRow => /\ token'[t] \in RefreshToken
                                      /\ token'[t].user = token[t].user
    BY <1>1, <1>2 DEF Sound, TablesOK
  <1> QED BY <1>4, TokensChanged

LEMMA HeldSession ==
  ASSUME Sound, NEW u \in Users, NEW t \in Tokens
  PROVE  /\ Held(u, t) \in Session /\ Held(u, t).cookie = t /\ Held(u, t).losses = 0
         /\ Held(u, t).access.user = u /\ Held(u, t).waits = None
  BY DEF Held, Session, Access, Sound, AccountsOK

LEMMA SignedOutSession ==
  /\ SignedOut \in Session /\ SignedOut.cookie = None /\ SignedOut.access = NoRow
  BY DEF SignedOut, Session

LEMMA SessionChanged ==
  ASSUME Sound, RowsStay, NEW d \in Devices, NEW held \in Session,
         held.cookie # None => token'[held.cookie] # NoRow,
         held.access # NoRow => user'[held.access.user] # NoRow,
         device' \in {device, [device EXCEPT ![d] = held]}
  PROVE  DevicesOK'
  <1>1. CASE device' = device
    BY <1>1, UntouchedStays
  <1>2. CASE device' = [device EXCEPT ![d] = held]
    <2>1. device' \in [Devices -> Session]
      BY <1>2 DEF Sound, DevicesOK
    <2>2. \A e \in Devices : e # d => device'[e] = device[e]
      BY <1>2 DEF Sound, DevicesOK
    <2>3. device'[d] = held
      BY <1>2 DEF Sound, DevicesOK
    <2> QED BY <2>1, <2>2, <2>3 DEF Sound, DevicesOK, RowsStay, Exists, Session, Access
  <1> QED BY <1>1, <1>2

LEMMA CallSent ==
  ASSUME Sound, RowsStay, NEW d \in Devices, NEW c \in Calls, Send(d, c)
  PROVE  DevicesOK'
  <1> DEFINE held == [device[d] EXCEPT !.waits = c]
  <1>1. held \in Session /\ held.cookie = device[d].cookie /\ held.access = device[d].access
    BY DEF Sound, DevicesOK, Session
  <1>2. device' = [device EXCEPT ![d] = held]
    BY DEF Send
  <1>3. /\ held.cookie # None => token'[held.cookie] # NoRow
        /\ held.access # NoRow => user'[held.access.user] # NoRow
    BY <1>1 DEF Sound, DevicesOK, RowsStay, Exists, Session, Access
  <1> HIDE DEF held
  <1> QED BY <1>1, <1>2, <1>3, SessionChanged

LEMMA RefusalSent ==
  ASSUME Sound, RowsStay, NEW d \in Devices, NEW c \in Calls, Refuse(d, c)
  PROVE  DevicesOK'
  <1>1. device' \in {device, [device EXCEPT ![d] = SignedOut]}
    BY DEF Refuse, Answer
  <1> QED BY <1>1, SignedOutSession, SessionChanged

\* An account is changed, none is removed.
LEMMA AccountChanged ==
  ASSUME Sound, UNCHANGED <<now, lag, manager, token, link>>, NEW u \in Users, Exists(u),
         NEW row \in Account, user' = [user EXCEPT ![u] = row]
  PROVE  RowsStay /\ AccountsOK' /\ TablesOK'
  <1>1. user' \in [Users -> Account \cup {NoRow}]
    BY DEF Sound, AccountsOK
  <1>2. RowsStay
    BY RowsDiffer DEF Sound, AccountsOK, RowsStay, Exists
  <1>3. AccountsOK'
    BY <1>1 DEF Sound, AccountsOK
  <1> QED BY <1>2, <1>3, UntouchedStays

-----------------------------------------------------------------------------
\* The device's calls.
LEMMA NothingMoves == UNCHANGED <<user, token, link>> => RowsStay
  BY DEF RowsStay, Exists

LEMMA LoginLoadSound ==
  ASSUME Sound, NEW c \in Calls, NEW d \in Devices, NEW u \in Users, NEW right \in BOOLEAN,
         LoginLoad(c, d, u, right)
  PROVE  Sound'
  <1> DEFINE next == [at |-> "verify", d |-> d, user |-> u, right |-> right]
  <1>1. UNCHANGED <<now, lag, user, manager, token, link, cache>> /\ RowsStay
    BY NothingMoves DEF LoginLoad, Begin, rows
  <1>2. Become(c, next) /\ Exists(u)
    BY DEF LoginLoad, Begin, Active
  <1>3. next \in CallOf(next.at) /\ next.at = "verify"
    BY DEF CallOf
  <1>4. CallsOK'
    BY <1>1, <1>2, <1>3, CallGoesOn DEF Exists
  <1>5. DevicesOK'
    BY <1>1, CallSent DEF LoginLoad
  <1> QED BY <1>1, <1>4, <1>5, UntouchedStays DEF Sound

LEMMA IdleAgain ==
  ASSUME Sound, RowsStay, NEW c \in Calls, Become(c, Idle)
  PROVE  CallsOK'
  <1>1. Idle \in CallOf(Idle.at) /\ Idle.at = "idle"
    BY CallOfInverse
  <1> QED BY <1>1, CallGoesOn DEF Anonymous

LEMMA LoginRightSound ==
  ASSUME Sound, NEW c \in Calls, LoginRight(c)
  PROVE  Sound'
  <1> DEFINE u == call[c].user  d == call[c].d
             row == [user[u] EXCEPT !.failed = 0, !.lockedUntil = Never]
  <1>1. call[c] \in [at : {"verify"}, d : Devices, user : Users, right : BOOLEAN] /\ Exists(u)
    BY CallShapes DEF LoginRight, Sound, CallsOK, References, Anonymous
  <1>2. u \in Users /\ d \in Devices /\ user[u] \in Account
    BY <1>1 DEF Sound, AccountsOK, Exists
  <1>3. row \in Account
    <2> DEFINE first == [user[u] EXCEPT !.failed = 0]
    <2>1. first \in Account
      BY <1>2 DEF Account
    <2>2. row = [first EXCEPT !.lockedUntil = Never] /\ Never \in Int
      BY DEF Never
    <2> HIDE DEF first
    <2> QED BY <2>1, <2>2 DEF Account
  <1>4. PICK t \in Free(token) : /\ token' = [token EXCEPT ![t] = NewToken(u, t)]
                                 /\ Answer(d, c, Held(u, t))
    BY DEF LoginRight
  <1>5. t \in Tokens /\ token[t] = NoRow /\ user' = [user EXCEPT ![u] = row]
        /\ UNCHANGED <<now, lag, manager, link, cache>> /\ Become(c, Idle)
    BY <1>2 DEF LoginRight, Continue, Free, Sound, TablesOK, AccountsOK
  <1> HIDE DEF row
  <1>6. user' \in [Users -> Account \cup {NoRow}] /\ \A v \in Users : Exists(v) => user'[v] # NoRow
    BY <1>2, <1>3, <1>5, RowsDiffer DEF Sound, AccountsOK, Exists
  <1>7. token' \in [Tokens -> RefreshToken \cup {NoRow}] /\ token'[t] # NoRow /\ token'[t].user = u
        /\ \A s \in Tokens : s # t => token'[s] = token[s]
    BY <1>2, <1>4, <1>5, NewTokenRow, RowsDiffer DEF Sound, TablesOK
  <1>8. RowsStay
    BY <1>5, <1>6, <1>7 DEF RowsStay
  <1>9. AccountsOK' /\ TablesOK'
    BY <1>1, <1>2, <1>5, <1>6, <1>7 DEF Sound, AccountsOK, TablesOK, Exists, AuthLink, RefreshToken
  <1>10. DevicesOK'
    <2>1. /\ Held(u, t) \in Session
          /\ Held(u, t).cookie = t /\ Held(u, t).access.user = u
      BY <1>2, <1>5, HeldSession
    <2>2. device' \in {device, [device EXCEPT ![d] = Held(u, t)]}
      BY <1>4 DEF Answer
    <2>3. user'[u] # NoRow
      BY <1>1, <1>2, <1>6
    <2> QED BY <2>1, <2>2, <2>3, <1>2, <1>7, <1>8, SessionChanged
  <1>11. CallsOK'
    BY <1>5, <1>8, IdleAgain
  <1> QED BY <1>5, <1>8, <1>9, <1>10, <1>11, UntouchedStays DEF Sound

LEMMA LoginWrongSound ==
  ASSUME Sound, NEW c \in Calls, LoginWrong(c)
  PROVE  Sound'
  <1> DEFINE u == call[c].user  d == call[c].d
             row == [user[u] EXCEPT !.failed = @ + 1]
             lock == [at |-> "lock", user |-> u]
  <1>1. call[c] \in [at : {"verify"}, d : Devices, user : Users, right : BOOLEAN] /\ Exists(u)
    BY CallShapes DEF LoginWrong, Sound, CallsOK, References, Anonymous
  <1>2. u \in Users /\ d \in Devices /\ user[u] \in Account
    BY <1>1 DEF Sound, AccountsOK, Exists
  <1>3. row \in Account
    BY <1>2 DEF Account
  <1>4. user' = [user EXCEPT ![u] = row] /\ UNCHANGED <<now, lag, manager, token, link, cache>>
        /\ (Become(c, Idle) \/ Become(c, lock)) /\ Refuse(d, c)
    BY <1>2 DEF LoginWrong, Continue, Sound, AccountsOK
  <1> HIDE DEF row
  <1>5. RowsStay /\ AccountsOK' /\ TablesOK'
    BY <1>1, <1>2, <1>3, <1>4, AccountChanged
  <1>6. lock \in CallOf(lock.at) /\ lock.at = "lock" /\ lock.user = u /\ user'[u] # NoRow
    BY <1>1, <1>2, <1>5, CallOfInverse DEF OfUser, RowsStay
  <1>7. CallsOK'
    BY <1>4, <1>5, <1>6, IdleAgain, CallGoesOn
  <1> QED BY <1>2, <1>4, <1>5, <1>7, RefusalSent, UntouchedStays DEF Sound

LEMMA LoginLockSound ==
  ASSUME Sound, NEW c \in Calls, LoginLock(c)
  PROVE  Sound'
  <1> DEFINE u == call[c].user
             row == [user[u] EXCEPT !.lockedUntil = now + LockTicks]
  <1>1. call[c] \in OfUser("lock") /\ Exists(u)
    BY CallShapes DEF LoginLock, Continue, Sound, CallsOK, References, Anonymous
  <1>2. u \in Users /\ user[u] \in Account
    BY <1>1 DEF Sound, AccountsOK, Exists, OfUser
  <1>3. row \in Account
    BY <1>2, SessionsAssumption DEF Account, Sound, AccountsOK
  <1>4. user' = [user EXCEPT ![u] = row] /\ UNCHANGED <<now, lag, manager, token, link, cache, device>>
        /\ Become(c, Idle)
    BY <1>2 DEF LoginLock, Continue, Sound, AccountsOK
  <1> HIDE DEF row
  <1>5. RowsStay /\ AccountsOK' /\ TablesOK'
    BY <1>1, <1>2, <1>3, <1>4, AccountChanged
  <1> QED BY <1>4, <1>5, IdleAgain, UntouchedStays DEF Sound


LEMMA RenewSound ==
  ASSUME Sound, NEW c \in Calls, NEW d \in Devices, Renew(c, d)
  PROVE  Sound'
  <1> DEFINE t == device[d].cookie  next == RefreshPlan(d)
  <1>1. UNCHANGED <<now, lag, user, manager, token, link, cache>> /\ RowsStay
    BY NothingMoves DEF Renew, Begin, rows
  <1>2. Become(c, next) /\ Send(d, c)
    BY DEF Renew, Begin
  <1>3. t \in Tokens /\ token[t] \in RefreshToken /\ Exists(token[t].user)
    BY DEF Renew, Sound, DevicesOK, TablesOK, Session
  <1>4. token[t].user \in Users /\ token[t].family \in Tokens
        /\ (token[t].next # None => token[t].next \in Tokens)
    BY <1>3 DEF RefreshToken
  <1>5. \/ \E from \in Tokens : /\ token[from] # NoRow
                                /\ next = [at |-> "insert", d |-> d, user |-> token[t].user,
                                           from |-> from, family |-> token[t].family]
        \/ next = [at |-> "refuse", d |-> d]
        \/ \E excused \in BOOLEAN : next = [at |-> "reuse", d |-> d, family |-> token[t].family,
                                            excused |-> excused]
    BY <1>3, <1>4 DEF RefreshPlan, InGrace, Live
  <1> HIDE DEF next
  <1>6. CallsOK'
    <2>1. CASE \E from \in Tokens : /\ token[from] # NoRow
                                    /\ next = [at |-> "insert", d |-> d, user |-> token[t].user,
                                               from |-> from, family |-> token[t].family]
      <3>1. next \in CallOf(next.at) /\ next.at = "insert" /\ token[next.from] # NoRow
            /\ next.user = token[t].user
        BY <2>1, <1>4 DEF CallOf
      <3> QED BY <3>1, <1>1, <1>2, <1>3, CallGoesOn DEF Exists
    <2>2. CASE next = [at |-> "refuse", d |-> d]
      <3>1. next \in CallOf(next.at) /\ next.at = "refuse"
        BY <2>2 DEF CallOf
      <3> QED BY <3>1, <1>1, <1>2, CallGoesOn DEF Anonymous
    <2>3. CASE \E excused \in BOOLEAN : next = [at |-> "reuse", d |-> d, family |-> token[t].family,
                                                excused |-> excused]
      <3>1. next \in CallOf(next.at) /\ next.at = "reuse"
        BY <2>3, <1>4 DEF CallOf
      <3> QED BY <3>1, <1>1, <1>2, CallGoesOn DEF Anonymous
    <2> QED BY <1>5, <2>1, <2>2, <2>3
  <1> QED BY <1>1, <1>2, <1>6, CallSent, UntouchedStays DEF Sound

LEMMA RefreshRefuseSound ==
  ASSUME Sound, NEW c \in Calls, RefreshRefuse(c)
  PROVE  Sound'
  <1>1. UNCHANGED <<now, lag, user, manager, token, link, cache>> /\ RowsStay
    BY NothingMoves DEF RefreshRefuse, Continue, rows
  <1>2. call[c].d \in Devices
    BY CallShapes DEF RefreshRefuse, Continue, Sound, CallsOK
  <1>3. Become(c, Idle) /\ Refuse(call[c].d, c)
    BY DEF RefreshRefuse, Continue
  <1> QED BY <1>1, <1>2, <1>3, IdleAgain, RefusalSent, UntouchedStays DEF Sound

LEMMA RotateInsertSound ==
  ASSUME Sound, NEW c \in Calls, RotateInsert(c)
  PROVE  /\ Sound'
         /\ \E t \in Free(token) :
              /\ t \in Tokens /\ token' = [token EXCEPT ![t] = NewToken(call[c].user, call[c].family)]
              /\ call'[c] = [at |-> "replace", d |-> call[c].d, user |-> call[c].user,
                             from |-> call[c].from, family |-> call[c].family, new |-> t]
  <1> DEFINE k == call[c]
             next(t) == [at |-> "replace", d |-> k.d, user |-> k.user, from |-> k.from,
                         family |-> k.family, new |-> t]
  <1>1. UNCHANGED <<now, lag, user, manager, link, cache, device>>
    BY DEF RotateInsert, Continue
  <1>2. k \in [at : {"insert"}, d : Devices, user : Users, from : Tokens, family : Tokens]
        /\ Exists(k.user) /\ token[k.from] # NoRow
    BY CallShapes DEF RotateInsert, Sound, CallsOK, References, Anonymous
  <1>3. PICK t \in Free(token) :
          /\ token' = [token EXCEPT ![t] = NewToken(k.user, k.family)]
          /\ Become(c, next(t))
    BY DEF RotateInsert, Continue
  <1>5. RowsStay /\ TablesOK' /\ t \in Tokens /\ token'[t] # NoRow
    BY <1>1, <1>2, <1>3, TokenAdded
  <1>6. next(t) \in CallOf(next(t).at) /\ next(t).at = "replace" /\ next(t).new = t
        /\ next(t).from = k.from /\ next(t).user = k.user
    BY <1>2, <1>5 DEF CallOf
  <1>7. k.user \in Users /\ k.from \in Tokens
    BY <1>2
  <1>8. call'[c] = next(t)
    BY <1>3 DEF Become, Sound, CallsOK
  <1> HIDE DEF next
  <1>9. CallsOK'
    BY <1>2, <1>3, <1>5, <1>6, <1>7, CallGoesOn DEF RowsStay
  <1>10. Sound'
    BY <1>1, <1>5, <1>9, UntouchedStays DEF Sound
  <1> QED BY <1>3, <1>5, <1>8, <1>10 DEF next

LEMMA RotateReplaceSound ==
  ASSUME Sound, NEW c \in Calls, RotateReplace(c)
  PROVE  Sound'
  <1> DEFINE k == call[c]
             row == [[token[k.from] EXCEPT !.revokedAt = now] EXCEPT !.next = k.new]
  <1>1. UNCHANGED <<now, lag, user, manager, link, cache>>
    BY DEF RotateReplace, Continue
  <1>2. k \in [at : {"replace"}, d : Devices, user : Users, from : Tokens, family : Tokens,
               new : Tokens]
        /\ Exists(k.user) /\ token[k.from] # NoRow /\ token[k.new] # NoRow
    BY CallShapes DEF RotateReplace, Continue, Sound, CallsOK, References, Anonymous
  <1>3. k.d \in Devices /\ k.user \in Users /\ k.from \in Tokens /\ k.new \in Tokens
    BY <1>2
  <1>4. token' = [token EXCEPT ![k.from] = row]
    BY <1>3 DEF RotateReplace, Replace, Sound, TablesOK
  <1>5. row \in RefreshToken /\ row.user = token[k.from].user
    <2> DEFINE revoked == [token[k.from] EXCEPT !.revokedAt = now]
    <2>1. revoked \in RefreshToken /\ revoked.user = token[k.from].user
      BY <1>2, <1>3 DEF Sound, TablesOK, AccountsOK, RefreshToken
    <2> HIDE DEF revoked
    <2>2. [revoked EXCEPT !.next = k.new] \in RefreshToken
          /\ [revoked EXCEPT !.next = k.new].user = revoked.user
      BY <1>3, <2>1 DEF RefreshToken
    <2> QED BY <2>1, <2>2 DEF revoked
  <1> HIDE DEF row
  <1>6. RowsStay /\ TablesOK'
    <2>1. token' = [t \in Tokens |-> token'[t]]
      BY <1>4 DEF Sound, TablesOK
    <2>2. \A t \in Tokens : /\ token[t] = NoRow => token'[t] = NoRow
                            /\ token[t] # NoRow => /\ token'[t] \in RefreshToken
                                                   /\ token'[t].user = token[t].user
      BY <1>2, <1>3, <1>4, <1>5 DEF Sound, TablesOK
    <2> QED BY <1>1, <2>1, <2>2, TokensChanged
  <1>7. DevicesOK'
    <2>1. Held(k.user, k.new) \in Session /\ Held(k.user, k.new).cookie = k.new
          /\ Held(k.user, k.new).access.user = k.user
      BY <1>3, HeldSession
    <2>2. device' \in {device, [device EXCEPT ![k.d] = Held(k.user, k.new)]}
      BY DEF RotateReplace, Answer
    <2>3. token'[k.new] # NoRow /\ user'[k.user] # NoRow
      BY <1>2, <1>3, <1>6 DEF RowsStay
    <2> QED BY <1>3, <1>6, <2>1, <2>2, <2>3, SessionChanged
  <1>8. Become(c, Idle)
    BY DEF RotateReplace, Continue
  <1> QED BY <1>1, <1>6, <1>7, <1>8, IdleAgain, UntouchedStays DEF Sound

LEMMA RevokeFamilySound ==
  ASSUME Sound, NEW c \in Calls, RevokeFamily(c)
  PROVE  Sound'
  <1>1. UNCHANGED <<now, lag, user, manager, link, cache>> /\ Become(c, Idle)
        /\ Refuse(call[c].d, c)
    BY DEF RevokeFamily, Continue
  <1>2. call[c].d \in Devices
    BY CallShapes DEF RevokeFamily, Continue, Sound, CallsOK
  <1>3. RowsStay /\ TablesOK'
    <2>1. /\ token' = [t \in Tokens |-> token'[t]]
          /\ \A t \in Tokens : token'[t] # token[t] =>
               token[t] # NoRow /\ token'[t] = [token[t] EXCEPT !.revokedAt = now]
      BY DEF RevokeFamily, RevokeRows, Live
    <2> QED BY <1>1, <2>1, TokensRevoked
  <1> QED BY <1>1, <1>2, <1>3, IdleAgain, RefusalSent, UntouchedStays DEF Sound

LEMMA LogoutLoadSound ==
  ASSUME Sound, NEW c \in Calls, NEW d \in Devices, LogoutLoad(c, d)
  PROVE  Sound'
  <1> DEFINE t == device[d].cookie  next == [at |-> "logout", t |-> t]
  <1>1. UNCHANGED <<now, lag, user, manager, token, link, cache>> /\ RowsStay
    BY NothingMoves DEF LogoutLoad, Begin, rows
  <1>2. t \in Tokens /\ token[t] # NoRow
    BY DEF LogoutLoad, Sound, DevicesOK, Session
  <1>3. Become(c, next) \/ Become(c, Idle)
    BY DEF LogoutLoad, Begin
  <1>4. next \in CallOf(next.at) /\ next.at = "logout" /\ next.t = t
    BY <1>2 DEF CallOf
  <1>5. CallsOK'
    BY <1>1, <1>2, <1>3, <1>4, IdleAgain, CallGoesOn DEF Anonymous
  <1>6. DevicesOK'
    BY <1>1, SignedOutSession, SessionChanged DEF LogoutLoad
  <1> QED BY <1>1, <1>5, <1>6, UntouchedStays DEF Sound

LEMMA LogoutWriteSound ==
  ASSUME Sound, NEW c \in Calls, LogoutWrite(c)
  PROVE  Sound'
  <1> DEFINE t == call[c].t
  <1>1. UNCHANGED <<now, lag, user, manager, link, cache, device>> /\ Become(c, Idle)
        /\ token' = [token EXCEPT ![t].revokedAt = now]
    BY DEF LogoutWrite, Continue
  <1>2. t \in Tokens /\ token[t] # NoRow
    BY CallShapes DEF LogoutWrite, Continue, Sound, CallsOK, References
  <1>3. RowsStay /\ TablesOK'
    <2>1. /\ token' = [s \in Tokens |-> token'[s]]
          /\ \A s \in Tokens : token'[s] # token[s] =>
               token[s] # NoRow /\ token'[s] = [token[s] EXCEPT !.revokedAt = now]
      BY <1>1, <1>2 DEF Sound, TablesOK
    <2> QED BY <1>1, <2>1, TokensRevoked
  <1> QED BY <1>1, <1>3, IdleAgain, UntouchedStays DEF Sound

\* A client alone: it starts again, or gives up on a call.
LEMMA LostSession ==
  ASSUME Sound, NEW d \in Devices
  PROVE  /\ Lose(d) \in Session /\ Lose(d).cookie = device[d].cookie
         /\ Lose(d).access = device[d].access /\ Lose(d).waits = None
  <1>1. device[d] \in Session
    BY DEF Sound, DevicesOK
  <1>2. [device[d] EXCEPT !.waits = None] \in Session
    BY <1>1 DEF Session
  <1>3. device[d].losses + 1 \in Nat
    BY <1>1 DEF Session
  <1>4. CASE device[d].waits = None
    BY <1>1, <1>4 DEF Lose
  <1>5. CASE device[d].waits # None
    <2> DEFINE parted == [device[d] EXCEPT !.waits = None]
               losses == IF device[d].losses < MaxLosses THEN device[d].losses + 1
                         ELSE device[d].losses
    <2>1. Lose(d) = [parted EXCEPT !.losses = losses]
      BY <1>1, <1>5 DEF Lose, Session
    <2>2. losses \in Nat
      BY <1>1, <1>3 DEF Session
    <2>3. parted \in Session /\ parted.cookie = device[d].cookie /\ parted.waits = None
          /\ parted.access = device[d].access
      BY <1>1 DEF Session
    <2> HIDE DEF parted, losses
    <2> QED BY <2>1, <2>2, <2>3 DEF Session
  <1> QED BY <1>4, <1>5

LEMMA RelaunchSound ==
  ASSUME Sound, NEW d \in Devices, Relaunch(d) \/ GiveUp(d)
  PROVE  Sound'
  <1> DEFINE held == [device[d] EXCEPT !.access = NoRow]
  <1>1. UNCHANGED <<now, lag, user, manager, token, link, cache, call>> /\ RowsStay
    BY NothingMoves DEF Relaunch, GiveUp, rows
  <1>2. held \in Session /\ held.cookie = device[d].cookie /\ held.access = NoRow
    BY DEF Sound, DevicesOK, Session
  <1>3. device' = [device EXCEPT ![d] = held] \/ device' = [device EXCEPT ![d] = Lose(d)]
    BY DEF Relaunch, GiveUp, Sound, DevicesOK
  <1>4. device[d].cookie # None => token[device[d].cookie] # NoRow
    BY DEF Sound, DevicesOK
  <1>5. device[d].access # NoRow => Exists(device[d].access.user)
    BY DEF Sound, DevicesOK
  <1> HIDE DEF held
  <1>6. DevicesOK'
    BY <1>1, <1>2, <1>3, <1>4, <1>5, LostSession, SessionChanged DEF Exists
  <1> QED BY <1>1, <1>6, UntouchedStays DEF Sound

LEMMA RestartSound ==
  ASSUME Sound, Restart
  PROVE  Sound'
  <1>1. UNCHANGED <<now, lag, user, manager, token, link>> /\ RowsStay
    BY NothingMoves DEF Restart, rows
  <1>2. CallsOK'
    <2>1. Idle \in CallOf(Idle.at) /\ Idle.at = "idle"
      BY CallOfInverse
    <2>2. call' = [c \in Calls |-> Idle]
      BY DEF Restart
    <2> QED BY <2>1, <2>2 DEF CallsOK, References, Anonymous
  <1>3. CacheOK'
    BY DEF Restart, CacheOK
  <1>4. DevicesOK'
    BY <1>1, LostSession DEF Restart, Sound, DevicesOK, Exists
  <1> QED BY <1>1, <1>2, <1>3, <1>4, UntouchedStays DEF Sound


\* A request is judged: the device forgets its access token, or the request is served.
LEMMA BehindInt ==
  ASSUME Sound, NEW u \in Users, Exists(u), NEW iat \in Int
  PROVE  Behind(u, iat) \in Int
  <1>1. user[u].leftAt \in Int /\ user[u].revokedAt \in Int /\ now \in Int
    BY DEF Sound, AccountsOK, Exists, Account
  <1> QED BY <1>1 DEF Behind

LEMMA JudgedSound ==
  ASSUME Sound, RowsStay, NEW d \in Devices, device[d].access # NoRow, NEW entry, Guarded(d, entry),
         UNCHANGED <<now, user, manager>>
  PROVE  AccountsOK' /\ DevicesOK'
  <1> DEFINE a == device[d].access  held == [device[d] EXCEPT !.access = NoRow]
  <1>1. a \in Access /\ Exists(a.user) /\ a.user \in Users /\ a.iat \in Int
    BY DEF Sound, DevicesOK, Session, Access
  <1>2. held \in Session /\ held.cookie = device[d].cookie /\ held.access = NoRow
    BY DEF Sound, DevicesOK, Session
  <1>3. Behind(a.user, a.iat) \in Int
    BY <1>1, BehindInt
  <1>4. lag' \in {lag, Behind(a.user, a.iat)}
    BY DEF Guarded
  <1>5. device' = [device EXCEPT ![d] = held] \/ UNCHANGED device
    BY DEF Guarded, Sound, DevicesOK
  <1>6. AccountsOK'
    BY <1>3, <1>4 DEF Sound, AccountsOK
  <1>7. device[d].cookie # None => token[device[d].cookie] # NoRow /\ device[d].cookie \in Tokens
    BY DEF Sound, DevicesOK, Session
  <1> HIDE DEF held
  <1>8. DevicesOK'
    BY <1>2, <1>5, <1>7, SessionChanged, UntouchedStays DEF RowsStay
  <1> QED BY <1>6, <1>8

LEMMA RequestHitSound ==
  ASSUME Sound, NEW d \in Devices, RequestHit(d)
  PROVE  Sound'
  <1>1. UNCHANGED <<now, user, manager, token, link, cache, call>> /\ RowsStay
    BY NothingMoves DEF RequestHit, rows
  <1>2. device[d].access # NoRow /\ Guarded(d, cache[device[d].access.user])
    BY DEF RequestHit, Usable
  <1>3. AccountsOK' /\ DevicesOK'
    BY <1>1, <1>2, JudgedSound
  <1> QED BY <1>1, <1>3, UntouchedStays DEF Sound

\* What a query reads of an account.
Current(u) == [status |-> user[u].status, revokedAt |-> user[u].revokedAt]

LEMMA ReadingRow ==
  ASSUME Sound, NEW u \in Users, Exists(u)
  PROVE  Current(u) \in Reading
  BY DEF Sound, AccountsOK, Exists, Account, Reading, Current

LEMMA RequestReadSound ==
  ASSUME Sound, NEW c \in Calls, NEW d \in Devices, RequestRead(c, d)
  PROVE  Sound'
  <1> DEFINE a == device[d].access  u == a.user
             next == [at |-> "fill", d |-> d, user |-> u, access |-> a, entry |-> Current(u)]
  <1>1. UNCHANGED <<now, lag, user, manager, token, link, cache, device>> /\ RowsStay
    BY NothingMoves DEF RequestRead, Begin, rows
  <1>2. Become(c, next) /\ a # NoRow
    BY DEF RequestRead, Begin, Usable, Current
  <1>3. a \in Access /\ Exists(u) /\ u \in Users
    BY <1>2 DEF Sound, DevicesOK, Session, Access
  <1>4. next \in CallOf(next.at) /\ next.at = "fill" /\ next.user = u /\ next.access.user = u
    BY <1>3, ReadingRow DEF CallOf
  <1> HIDE DEF next
  <1>5. CallsOK'
    BY <1>1, <1>2, <1>3, <1>4, CallGoesOn DEF Exists
  <1> QED BY <1>1, <1>5, UntouchedStays DEF Sound

LEMMA CacheFilled ==
  ASSUME Sound, RowsStay, UNCHANGED now, NEW u \in Users, Exists(u), NEW reading \in Reading,
         cache' = [cache EXCEPT ![u] = Entry(reading)]
  PROVE  CacheOK'
  <1>1. Entry(reading) \in CacheEntry
    BY DEF Entry, Reading, CacheEntry, Sound, AccountsOK
  <1> QED BY <1>1 DEF Sound, CacheOK, RowsStay, Exists

LEMMA FillShape ==
  ASSUME Sound, NEW c \in Calls, call[c].at = "fill"
  PROVE  /\ call[c].d \in Devices /\ call[c].user \in Users /\ Exists(call[c].user)
         /\ call[c].entry \in Reading /\ call[c].access \in Access
         /\ call[c].access # NoRow /\ call[c].access.user = call[c].user
  <1>1. call[c] \in [at : {"fill"}, d : Devices, user : Users, access : Access, entry : Reading]
        /\ References(call[c])
    BY CallShapes DEF Sound, CallsOK
  <1>2. \A a \in Access : a # NoRow
    <2>1. \A a \in Access : "user" \in DOMAIN a
      BY DEF Access
    <2> QED BY <2>1 DEF NoRow
  <1> QED BY <1>1, <1>2 DEF References, Anonymous

LEMMA RequestFillSound ==
  ASSUME Sound, NEW c \in Calls, RequestFill(c)
  PROVE  Sound'
  <1> DEFINE d == call[c].d
  <1>1. UNCHANGED <<now, user, manager, token, link>> /\ RowsStay /\ Become(c, Idle)
    BY NothingMoves DEF RequestFill, rows
  <1>2. /\ d \in Devices /\ call[c].user \in Users /\ Exists(call[c].user)
        /\ call[c].entry \in Reading /\ call[c].access # NoRow
    BY FillShape DEF RequestFill
  <1>3. CacheOK'
    BY <1>1, <1>2, CacheFilled DEF RequestFill, Remember
  <1>4. AccountsOK' /\ DevicesOK'
    <2>1. CASE device[d].access = call[c].access
      BY <1>1, <1>2, <2>1, JudgedSound DEF RequestFill
    <2>2. CASE device[d].access # call[c].access
      BY <1>1, <2>2, UntouchedStays DEF RequestFill
    <2> QED BY <2>1, <2>2
  <1> QED BY <1>1, <1>3, <1>4, IdleAgain, UntouchedStays DEF Sound

-----------------------------------------------------------------------------
\* The staff's calls.
LEMMA OfUserCall ==
  ASSUME NEW at \in {"lock", "burn", "leave", "reissue"}, NEW u \in Users
  PROVE  [at |-> at, user |-> u] \in CallOf(at)
  BY CallOfInverse DEF OfUser

\* A call that writes nothing but goes on about an account that exists.
LEMMA ReadsOnly ==
  ASSUME Sound, UNCHANGED <<now, lag, user, manager, token, link, cache, device>>,
         NEW c \in Calls, NEW next, Become(c, next), next \in CallOf(next.at), References(next)
  PROVE  Sound'
  <1>1. RowsStay
    BY NothingMoves
  <1>2. CallsOK'
    BY <1>1, CallGoesOn DEF References, Exists
  <1> QED BY <1>1, <1>2, UntouchedStays DEF Sound

LEMMA LoadsSound ==
  ASSUME Sound, NEW c \in Calls,
         \/ \E u \in Users : DeactivateLoad(c, u) \/ ResendLoad(c, u) \/ ForgotLoad(c, u)
         \/ \E u \in Users, r \in Roles : SetRoleLoad(c, u, r)
         \/ \E l \in Links : ConsumeLoad(c, l)
         \/ \E u, m \in Users : UpdateLoad(c, u, m)
  PROVE  Sound'
  <1>1. UNCHANGED <<now, lag, user, manager, token, link, cache, device>>
    BY DEF DeactivateLoad, ResendLoad, ForgotLoad, SetRoleLoad, ConsumeLoad, UpdateLoad, Begin, rows
  <1>2. ASSUME NEW u \in Users, DeactivateLoad(c, u) PROVE Sound'
    BY <1>1, <1>2, OfUserCall, ReadsOnly DEF DeactivateLoad, Begin, References
  <1>3. ASSUME NEW u \in Users, ResendLoad(c, u) PROVE Sound'
    BY <1>1, <1>3, OfUserCall, ReadsOnly DEF ResendLoad, Begin, References
  <1>4. ASSUME NEW u \in Users, ForgotLoad(c, u) PROVE Sound'
    <2> DEFINE next == [at |-> "link", user |-> u, kind |-> "RESET"]
    <2>1. next \in CallOf(next.at)
      BY DEF CallOf
    <2> QED BY <1>1, <1>4, <2>1, ReadsOnly DEF ForgotLoad, Begin, References, Active
  <1>5. ASSUME NEW u \in Users, NEW r \in Roles, SetRoleLoad(c, u, r) PROVE Sound'
    <2> DEFINE next == [at |-> "role", user |-> u, role |-> r]
    <2>1. next \in CallOf(next.at)
      BY DEF CallOf
    <2> QED BY <1>1, <1>5, <2>1, ReadsOnly DEF SetRoleLoad, Begin, References
  <1>6. ASSUME NEW l \in Links, ConsumeLoad(c, l) PROVE Sound'
    <2> DEFINE next == [at |-> "password", link |-> l]
    <2>1. next \in CallOf(next.at)
      BY DEF CallOf
    <2> QED BY <1>1, <1>6, <2>1, ReadsOnly DEF ConsumeLoad, Begin, References, Anonymous, Works
  <1>7. ASSUME NEW u \in Users, NEW m \in Users, UpdateLoad(c, u, m) PROVE Sound'
    <2> DEFINE next == [at |-> "walk", user |-> u, boss |-> m, current |-> m, seen |-> {u}]
    <2>1. next \in CallOf(next.at)
      BY DEF CallOf
    <2> QED BY <1>1, <1>7, <2>1, ReadsOnly DEF UpdateLoad, Begin, References
  <1> QED BY <1>2, <1>3, <1>4, <1>5, <1>6, <1>7

LEMMA RevokeAllCall ==
  ASSUME NEW u \in Users, NEW then \in OfUser("burn") \cup {Idle}
  PROVE  RevokeAll(u, then) \in CallOf("revoke") /\ RevokeAll(u, then).at = "revoke"
         /\ RevokeAll(u, then).user = u
  BY DEF RevokeAll, CallOf

LEMMA RevokeTokensSound ==
  ASSUME Sound, NEW c \in Calls, RevokeTokens(c)
  PROVE  Sound'
  <1> DEFINE k == call[c]  next == [k EXCEPT !.at = "stamp"]
  <1>1. UNCHANGED <<now, lag, user, manager, link, cache, device>> /\ Become(c, next)
    BY DEF RevokeTokens, Continue
  <1>2. k \in [at : {"revoke"}, user : Users, then : OfUser("burn") \cup {Idle}] /\ Exists(k.user)
    BY CallShapes DEF RevokeTokens, Continue, Sound, CallsOK, References, Anonymous
  <1>3. RowsStay /\ TablesOK'
    <2>1. /\ token' = [t \in Tokens |-> token'[t]]
          /\ \A t \in Tokens : token'[t] # token[t] =>
               token[t] # NoRow /\ token'[t] = [token[t] EXCEPT !.revokedAt = now]
      BY DEF RevokeTokens, RevokeRows, Live
    <2> QED BY <1>1, <2>1, TokensRevoked
  <1>4. next \in [at : {"stamp"}, user : Users, then : OfUser("burn") \cup {Idle}]
        /\ next.user = k.user /\ next.at = "stamp"
    BY <1>2
  <1> HIDE DEF next
  <1>5. next \in CallOf(next.at) /\ user'[next.user] # NoRow
    BY <1>1, <1>2, <1>4 DEF CallOf, Exists
  <1>6. CallsOK'
    BY <1>1, <1>3, <1>4, <1>5, CallGoesOn
  <1> QED BY <1>1, <1>3, <1>6, UntouchedStays DEF Sound

LEMMA StampSound ==
  ASSUME Sound, NEW c \in Calls, Stamp(c)
  PROVE  Sound'
  <1> DEFINE k == call[c]  u == k.user  row == [user[u] EXCEPT !.revokedAt = now]
  <1>1. UNCHANGED <<now, lag, manager, token, link, device>> /\ Become(c, k.then)
        /\ cache' = [cache EXCEPT ![u] = NoRow]
    BY DEF Stamp, Continue
  <1>2. k \in [at : {"stamp"}, user : Users, then : OfUser("burn") \cup {Idle}] /\ Exists(u)
    BY CallShapes DEF Stamp, Continue, Sound, CallsOK, References, Anonymous
  <1>3. u \in Users /\ user[u] \in Account
    BY <1>2 DEF Sound, AccountsOK, Exists
  <1>4. row \in Account /\ user' = [user EXCEPT ![u] = row]
    BY <1>3 DEF Account, Stamp, Sound, AccountsOK
  <1> HIDE DEF row
  <1>5. RowsStay /\ AccountsOK' /\ TablesOK'
    BY <1>1, <1>2, <1>3, <1>4, AccountChanged
  <1>6. CacheOK'
    BY <1>1, <1>5 DEF Sound, CacheOK, RowsStay, Exists
  <1>7. CallsOK'
    <2>1. CASE k.then = Idle
      BY <1>1, <1>5, <2>1, IdleAgain
    <2>2. CASE k.then \in OfUser("burn")
      <3>1. k.then.at = "burn" /\ k.then \in CallOf(k.then.at) /\ k.then.user \in Users
        BY <2>2, CallOfInverse DEF OfUser
      <3> QED BY <1>1, <1>5, <3>1, CallGoesOn DEF Anonymous
    <2> QED BY <1>2, <2>1, <2>2
  <1> QED BY <1>1, <1>5, <1>6, <1>7, UntouchedStays DEF Sound


LEMMA DeactivateWriteSound ==
  ASSUME Sound, NEW c \in Calls, DeactivateWrite(c)
  PROVE  Sound'
  <1> DEFINE u == call[c].user  gone == [user[u] EXCEPT !.status = "DEACTIVATED"]
             row == [gone EXCEPT !.leftAt = now]
             next == RevokeAll(u, [at |-> "burn", user |-> u])
  <1>1. call[c] \in OfUser("leave") /\ Exists(u)
    BY CallShapes DEF DeactivateWrite, Continue, Sound, CallsOK, References, Anonymous
  <1>2. u \in Users /\ user[u] \in Account
    BY <1>1 DEF Sound, AccountsOK, Exists, OfUser
  <1>3. gone \in Account
    BY <1>2 DEF Account, Statuses
  <1>4. row \in Account
    <2> HIDE DEF gone
    <2> QED BY <1>3 DEF Account, Sound, AccountsOK
  <1>5. user' = [user EXCEPT ![u] = row] /\ UNCHANGED <<now, lag, manager, token, link, cache, device>>
        /\ Become(c, next)
    BY <1>2 DEF DeactivateWrite, Continue, Sound, AccountsOK
  <1> HIDE DEF row
  <1>6. RowsStay /\ AccountsOK' /\ TablesOK'
    BY <1>1, <1>2, <1>4, <1>5, AccountChanged
  <1>7. next \in CallOf(next.at) /\ next.at = "revoke" /\ next.user = u
    BY <1>2, RevokeAllCall DEF OfUser
  <1> HIDE DEF next
  <1>8. CallsOK'
    BY <1>1, <1>2, <1>5, <1>6, <1>7, CallGoesOn DEF RowsStay
  <1> QED BY <1>5, <1>6, <1>8, UntouchedStays DEF Sound

LEMMA SetRoleWriteSound ==
  ASSUME Sound, NEW c \in Calls, SetRoleWrite(c)
  PROVE  Sound'
  <1> DEFINE u == call[c].user  row == [user[u] EXCEPT !.role = call[c].role]
             next == RevokeAll(u, Idle)
  <1>1. call[c] \in [at : {"role"}, user : Users, role : Roles] /\ Exists(u)
    BY CallShapes DEF SetRoleWrite, Continue, Sound, CallsOK, References, Anonymous
  <1>2. u \in Users /\ user[u] \in Account
    BY <1>1 DEF Sound, AccountsOK, Exists
  <1>3. row \in Account
    BY <1>1, <1>2 DEF Account
  <1>4. user' = [user EXCEPT ![u] = row] /\ UNCHANGED <<now, lag, manager, token, link, cache, device>>
        /\ Become(c, next)
    BY <1>2 DEF SetRoleWrite, Continue, Sound, AccountsOK
  <1> HIDE DEF row
  <1>5. RowsStay /\ AccountsOK' /\ TablesOK'
    BY <1>1, <1>2, <1>3, <1>4, AccountChanged
  <1>6. next \in CallOf(next.at) /\ next.at = "revoke" /\ next.user = u
    BY <1>2, RevokeAllCall
  <1> HIDE DEF next
  <1>7. CallsOK'
    BY <1>1, <1>2, <1>4, <1>5, <1>6, CallGoesOn DEF RowsStay
  <1> QED BY <1>4, <1>5, <1>7, UntouchedStays DEF Sound

LEMMA InviteSound ==
  ASSUME Sound, NEW c \in Calls, NEW u \in Users, NEW r \in Roles, Invite(c, u, r)
  PROVE  Sound'
  <1> DEFINE row == [Founder EXCEPT !.status = "INVITED", !.role = r]
             next == [at |-> "link", user |-> u, kind |-> "INVITE"]
  <1>1. UNCHANGED <<now, lag, manager, token, link, cache, device>> /\ ~ Exists(u)
        /\ user' = [user EXCEPT ![u] = row] /\ Become(c, next)
    BY DEF Invite, Begin
  <1>2. row \in Account
    <2> DEFINE invited == [Founder EXCEPT !.status = "INVITED"]
    <2>1. Founder \in Account
      BY SessionsAssumption DEF Founder, Account, Statuses, Never
    <2>2. invited \in Account
      BY <2>1 DEF Account, Statuses
    <2>3. row = [invited EXCEPT !.role = r]
      OBVIOUS
    <2> HIDE DEF invited
    <2> QED BY <2>2, <2>3 DEF Account
  <1> HIDE DEF row
  <1>3. user' \in [Users -> Account \cup {NoRow}] /\ user'[u] # NoRow
        /\ \A v \in Users : v # u => user'[v] = user[v]
    BY <1>1, <1>2, RowsDiffer DEF Sound, AccountsOK
  <1>4. RowsStay
    BY <1>1, <1>3 DEF RowsStay, Exists
  <1>5. AccountsOK'
    BY <1>1, <1>3 DEF Sound, AccountsOK
  <1>6. next \in CallOf(next.at) /\ next.at = "link" /\ next.user = u
    BY DEF CallOf
  <1> HIDE DEF next
  <1>7. CallsOK'
    BY <1>1, <1>3, <1>4, <1>6, CallGoesOn
  <1> QED BY <1>1, <1>4, <1>5, <1>7, UntouchedStays DEF Sound

\* Links are burnt.
LEMMA LinksBurnt ==
  ASSUME Sound, UNCHANGED <<user, token>>, link' = [l \in Links |-> link'[l]],
         \A l \in Links : link'[l] # link[l] =>
           link[l] # NoRow /\ link'[l] = [link[l] EXCEPT !.used = TRUE]
  PROVE  RowsStay /\ TablesOK'
  <1>1. ASSUME NEW l \in Links, link[l] # NoRow
        PROVE  /\ [link[l] EXCEPT !.used = TRUE] \in AuthLink
               /\ [link[l] EXCEPT !.used = TRUE].user = link[l].user
    <2>1. link[l] \in AuthLink
      BY <1>1 DEF Sound, TablesOK
    <2> QED BY <2>1 DEF AuthLink
  <1>2. link' \in [Links -> AuthLink \cup {NoRow}]
    BY <1>1 DEF Sound, TablesOK
  <1>3. \A l \in Links : link[l] # NoRow => link'[l] # NoRow
    BY <1>1, RowsDiffer
  <1>4. RowsStay
    BY <1>3 DEF RowsStay, Exists
  <1>5. ASSUME NEW l \in Links, link'[l] # NoRow PROVE user'[link'[l].user] # NoRow
    BY <1>1, <1>5 DEF Sound, TablesOK, Exists
  <1> QED BY <1>2, <1>4, <1>5 DEF Sound, TablesOK, Exists

LEMMA BurnLinksSound ==
  ASSUME Sound, NEW c \in Calls, BurnLinks(c)
  PROVE  Sound'
  <1>1. UNCHANGED <<now, lag, user, manager, token, cache, device>> /\ Become(c, Idle)
    BY DEF BurnLinks, Continue
  <1>2. RowsStay /\ TablesOK'
    <2>1. /\ link' = [l \in Links |-> link'[l]]
          /\ \A l \in Links : link'[l] # link[l] =>
               link[l] # NoRow /\ link'[l] = [link[l] EXCEPT !.used = TRUE]
      BY DEF BurnLinks, Burnt
    <2> QED BY <1>1, <2>1, LinksBurnt
  <1> QED BY <1>1, <1>2, IdleAgain, UntouchedStays DEF Sound

LEMMA ResendBurnSound ==
  ASSUME Sound, NEW c \in Calls, ResendBurn(c)
  PROVE  Sound'
  <1> DEFINE u == call[c].user  next == [at |-> "link", user |-> u, kind |-> "INVITE"]
  <1>1. UNCHANGED <<now, lag, user, manager, token, cache, device>> /\ Become(c, next)
    BY DEF ResendBurn, Continue
  <1>2. call[c] \in OfUser("reissue") /\ Exists(u)
    BY CallShapes DEF ResendBurn, Continue, Sound, CallsOK, References, Anonymous
  <1>3. RowsStay /\ TablesOK'
    <2>1. /\ link' = [l \in Links |-> link'[l]]
          /\ \A l \in Links : link'[l] # link[l] =>
               link[l] # NoRow /\ link'[l] = [link[l] EXCEPT !.used = TRUE]
      BY DEF ResendBurn, BurnInvites, Burnt
    <2> QED BY <1>1, <2>1, LinksBurnt
  <1>4. next \in CallOf(next.at) /\ next.at = "link" /\ next.user = u
    BY <1>2 DEF CallOf, OfUser
  <1> HIDE DEF next
  <1>5. CallsOK'
    BY <1>1, <1>2, <1>3, <1>4, CallGoesOn DEF Exists
  <1> QED BY <1>1, <1>3, <1>5, UntouchedStays DEF Sound

LEMMA CreateLinkSound ==
  ASSUME Sound, NEW c \in Calls, CreateLink(c)
  PROVE  Sound'
  <1> DEFINE u == call[c].user  row == NewLink(u, call[c].kind)
  <1>1. UNCHANGED <<now, lag, user, manager, token, cache, device>> /\ Become(c, Idle)
    BY DEF CreateLink, Continue
  <1>2. call[c] \in [at : {"link"}, user : Users, kind : {"INVITE", "RESET"}] /\ Exists(u)
    BY CallShapes DEF CreateLink, Continue, Sound, CallsOK, References, Anonymous
  <1>3. PICK l \in Free(link) : link' = [link EXCEPT ![l] = row]
    BY DEF CreateLink
  <1>4. row \in AuthLink /\ row.user = u
    BY <1>2, SessionsAssumption DEF NewLink, AuthLink, Sound, AccountsOK
  <1> HIDE DEF row
  <1>5. l \in Links /\ link[l] = NoRow
    BY DEF Free, Sound, TablesOK
  <1>6. RowsStay /\ TablesOK'
    BY <1>1, <1>2, <1>3, <1>4, <1>5, RowsDiffer DEF Sound, TablesOK, RowsStay, Exists
  <1> QED BY <1>1, <1>6, IdleAgain, UntouchedStays DEF Sound

LEMMA ConsumeWriteSound ==
  ASSUME Sound, NEW c \in Calls, ConsumeWrite(c)
  PROVE  Sound'
  <1> DEFINE l == call[c].link  u == link[l].user
             status == IF link[l].kind = "INVITE" THEN "ACTIVE" ELSE user[u].status
             reset == [user[u] EXCEPT !.failed = 0]
             opened == [reset EXCEPT !.lockedUntil = Never]
             row == [opened EXCEPT !.status = status]
             next == RevokeAll(u, Idle)
  <1>1. UNCHANGED <<now, lag, manager, token, cache, device>> /\ Become(c, next)
    BY DEF ConsumeWrite, Continue
  <1>2. l \in Links /\ link[l] \in AuthLink /\ Exists(u)
    <2>1. call[c].at = "password" /\ call[c] \in CallOf(call[c].at) /\ References(call[c])
      BY DEF ConsumeWrite, Continue, Sound, CallsOK
    <2>2. l \in Links /\ link[l] # NoRow
      BY <2>1, CallShapes DEF References
    <2> QED BY <2>2 DEF Sound, TablesOK
  <1>3. u \in Users /\ user[u] \in Account
    BY <1>2 DEF Sound, AccountsOK, Exists, AuthLink
  <1>4. reset \in Account /\ status \in Statuses /\ Never \in Int
    BY <1>3 DEF Account, Statuses, Never
  <1>5. opened \in Account
    BY <1>4 DEF Account
  <1>6. row \in Account
    BY <1>4, <1>5 DEF Account
  <1>7. user' = [user EXCEPT ![u] = row]
    BY <1>3 DEF ConsumeWrite, Sound, AccountsOK, Account
  <1>8. link' = [link EXCEPT ![l].used = TRUE]
    BY DEF ConsumeWrite
  <1> HIDE DEF row
  <1>9. user' \in [Users -> Account \cup {NoRow}] /\ \A v \in Users : Exists(v) => user'[v] # NoRow
    BY <1>3, <1>6, <1>7, RowsDiffer DEF Sound, AccountsOK, Exists
  <1>10. AccountsOK'
    BY <1>1, <1>9 DEF Sound, AccountsOK
  <1>11. /\ link' \in [Links -> AuthLink \cup {NoRow}]
         /\ \A k \in Links : link[k] # NoRow => link'[k] # NoRow
         /\ \A k \in Links : link'[k] # NoRow => link[k] # NoRow /\ link'[k].user = link[k].user
    <2>1. [link[l] EXCEPT !.used = TRUE] \in AuthLink
          /\ [link[l] EXCEPT !.used = TRUE].user = link[l].user
      BY <1>2 DEF AuthLink
    <2> QED BY <1>2, <1>8, <2>1, RowsDiffer DEF Sound, TablesOK
  <1>12. RowsStay
    BY <1>1, <1>9, <1>11 DEF RowsStay
  <1>13. TablesOK'
    BY <1>1, <1>9, <1>11 DEF Sound, TablesOK, Exists, AuthLink, RefreshToken
  <1>14. next \in CallOf(next.at) /\ next.at = "revoke" /\ next.user = u
    BY <1>3, RevokeAllCall
  <1> HIDE DEF next
  <1>15. CallsOK'
    BY <1>1, <1>2, <1>3, <1>12, <1>14, CallGoesOn DEF RowsStay
  <1> QED BY <1>1, <1>10, <1>12, <1>13, <1>15, UntouchedStays DEF Sound

LEMMA WalkSound ==
  ASSUME Sound, NEW c \in Calls, Walk(c)
  PROVE  Sound'
  <1> DEFINE k == call[c]
             done == [at |-> "assign", user |-> k.user, boss |-> k.boss]
             seen == k.seen \cup {k.current}
             on == [k EXCEPT !.seen = seen, !.current = manager[k.current]]
  <1>1. UNCHANGED <<now, lag, user, manager, token, link, cache, device>> /\ Become(c, WalkOn(c))
    BY DEF Walk, Continue, rows
  <1>2. k \in [at : {"walk"}, user : Users, boss : Users, current : Users, seen : SUBSET Users]
        /\ Exists(k.user)
    BY CallShapes DEF Walk, Continue, Sound, CallsOK, References, Anonymous
  <1>3. WalkOn(c) \in {Idle, done} \/ (WalkOn(c) = on /\ manager[k.current] # None)
    BY DEF WalkOn
  <1>4. CASE WalkOn(c) = Idle
    BY <1>1, <1>4, IdleAgain, NothingMoves, UntouchedStays DEF Sound
  <1>5. CASE WalkOn(c) = done
    <2>1. done \in CallOf(done.at) /\ done.at = "assign" /\ done.user = k.user
      BY <1>2 DEF CallOf
    <2> HIDE DEF done
    <2> QED BY <1>1, <1>2, <1>5, <2>1, ReadsOnly DEF References
  <1>6. CASE WalkOn(c) = on /\ manager[k.current] # None
    <2>1. manager[k.current] \in Users /\ seen \in SUBSET Users
      BY <1>2, <1>6 DEF Sound, AccountsOK
    <2>2. on = [at |-> "walk", user |-> k.user, boss |-> k.boss, current |-> manager[k.current],
                seen |-> seen]
      <3> DEFINE marked == [k EXCEPT !.seen = seen]
      <3>1. marked = [at |-> "walk", user |-> k.user, boss |-> k.boss, current |-> k.current,
                      seen |-> seen]
        BY <1>2
      <3>2. on = [marked EXCEPT !.current = manager[k.current]]
        OBVIOUS
      <3> HIDE DEF marked, seen
      <3> QED BY <3>1, <3>2
    <2> HIDE DEF seen
    <2>3. on \in CallOf(on.at) /\ on.at = "walk" /\ on.user = k.user
      BY <1>2, <2>1, <2>2 DEF CallOf
    <2> HIDE DEF on
    <2> QED BY <1>1, <1>2, <1>6, <2>3, ReadsOnly DEF References
  <1> QED BY <1>3, <1>4, <1>5, <1>6

LEMMA UpdateWriteSound ==
  ASSUME Sound, NEW c \in Calls, UpdateWrite(c)
  PROVE  Sound'
  <1>1. UNCHANGED <<now, lag, user, token, link, cache, device>> /\ Become(c, Idle) /\ RowsStay
    BY NothingMoves DEF UpdateWrite, Continue
  <1>2. call[c] \in [at : {"assign"}, user : Users, boss : Users]
    BY CallShapes DEF UpdateWrite, Continue, Sound, CallsOK
  <1>3. AccountsOK'
    BY <1>1, <1>2 DEF UpdateWrite, Sound, AccountsOK
  <1> QED BY <1>1, <1>3, IdleAgain, UntouchedStays DEF Sound

LEMMA TickSound ==
  ASSUME Sound, Tick
  PROVE  Sound'
  <1>1. UNCHANGED <<user, manager, token, link, cache, device, call, lag>> /\ RowsStay
    BY NothingMoves DEF Tick, rows
  <1>2. AccountsOK'
    BY <1>1 DEF Tick, Sound, AccountsOK
  <1> QED BY <1>1, <1>2, UntouchedStays DEF Sound

-----------------------------------------------------------------------------
LEMMA DeviceStepSound ==
  ASSUME Sound, NEW c \in Calls, DeviceStep(c)
  PROVE  Sound'
  BY LoginLoadSound, LoginRightSound, LoginWrongSound, LoginLockSound, RenewSound, LogoutLoadSound,
     RequestReadSound, RefreshRefuseSound, RotateInsertSound, RotateReplaceSound, RevokeFamilySound,
     LogoutWriteSound, RequestFillSound DEF DeviceStep, RefreshLoad

LEMMA StaffStepSound ==
  ASSUME Sound, NEW c \in Calls, StaffStep(c)
  PROVE  Sound'
  BY LoadsSound, InviteSound, DeactivateWriteSound, RevokeTokensSound, StampSound, BurnLinksSound,
     SetRoleWriteSound, ResendBurnSound, CreateLinkSound, ConsumeWriteSound, WalkSound,
     UpdateWriteSound DEF StaffStep

\* Nothing of the sessions happens.
LEMMA StutterSound ==
  ASSUME Sound, UNCHANGED vars
  PROVE  Sound'
  BY NothingMoves, UntouchedStays DEF Sound, vars, rows

LEMMA NextSound ==
  ASSUME Sound, [Next]_vars
  PROVE  Sound'
  BY TickSound, RestartSound, RequestHitSound, RelaunchSound, DeviceStepSound, StaffStepSound,
     StutterSound DEF Next


-----------------------------------------------------------------------------
\* How the parts move.
Tracked == {"fill", "insert", "replace", "reuse", "walk", "assign"}
MovesOn(c) ==
  \/ call'[c] = call[c]
  \/ call'[c].at \notin Tracked
  \/ \E d \in Devices : RequestRead(c, d) \/ Renew(c, d)
  \/ RotateInsert(c) \/ Walk(c)
  \/ \E u, m \in Users : UpdateLoad(c, u, m)
CallsMove == \A c \in Calls : MovesOn(c)

LEMMA OnlyThis ==
  ASSUME Sound, NEW c \in Calls, NEW next, Become(c, next)
  PROVE  call'[c] = next /\ \A e \in Calls : e # c => call'[e] = call[e]
  BY DEF Become, Sound, CallsOK

LEMMA OneMoves ==
  ASSUME Sound, NEW c \in Calls, NEW next, Become(c, next), MovesOn(c)
  PROVE  CallsMove
  BY OnlyThis DEF CallsMove, MovesOn

LEMMA DeviceCallsMove ==
  ASSUME Sound, NEW c \in Calls, DeviceStep(c)
  PROVE  CallsMove
  <1>1. CASE \E d \in Devices, u \in Users, right \in BOOLEAN : LoginLoad(c, d, u, right)
    BY <1>1, OnlyThis, OneMoves DEF LoginLoad, Begin, MovesOn, Tracked
  <1>2. CASE LoginRight(c) \/ LoginWrong(c) \/ LoginLock(c) \/ RefreshRefuse(c) \/ RotateReplace(c)
             \/ RevokeFamily(c) \/ LogoutWrite(c) \/ RequestFill(c)
    <2>1. \E next \in {Idle, [at |-> "lock", user |-> call[c].user]} : Become(c, next)
      BY <1>2 DEF LoginRight, LoginWrong, LoginLock, RefreshRefuse, RotateReplace, RevokeFamily,
                  LogoutWrite, RequestFill, Continue
    <2> QED BY <2>1, OnlyThis, OneMoves DEF MovesOn, Tracked, Idle
  <1>3. CASE \E d \in Devices : LogoutLoad(c, d)
    <2>1. \E next : next.at \in {"idle", "logout"} /\ Become(c, next)
      BY <1>3 DEF LogoutLoad, Begin, Idle
    <2> QED BY <2>1, OnlyThis, OneMoves DEF MovesOn, Tracked
  <1>4. CASE RotateInsert(c) \/ \E d \in Devices : RefreshLoad(c, d) \/ RequestRead(c, d)
    <2>1. MovesOn(c)
      BY <1>4 DEF MovesOn, RefreshLoad
    <2>2. \E next : Become(c, next)
      BY <1>4 DEF RotateInsert, RefreshLoad, Renew, RequestRead, Begin, Continue
    <2> QED BY <2>1, <2>2, OneMoves
  <1> QED BY <1>1, <1>2, <1>3, <1>4 DEF DeviceStep

LEMMA StaffCallsMove ==
  ASSUME Sound, NEW c \in Calls, StaffStep(c)
  PROVE  CallsMove
  <1>1. CASE Walk(c) \/ \E u, m \in Users : UpdateLoad(c, u, m)
    <2>1. MovesOn(c)
      BY <1>1 DEF MovesOn
    <2>2. \E next : Become(c, next)
      BY <1>1 DEF Walk, UpdateLoad, Begin, Continue
    <2> QED BY <2>1, <2>2, OneMoves
  <1>2. CASE RevokeTokens(c) \/ Stamp(c)
    <2>1. call[c] \in [at : {call[c].at}, user : Users, then : OfUser("burn") \cup {Idle}]
      BY <1>2, CallShapes DEF RevokeTokens, Stamp, Continue, Sound, CallsOK
    <2>2. call[c].then.at \in {"burn", "idle"} /\ [call[c] EXCEPT !.at = "stamp"].at = "stamp"
      BY <2>1 DEF OfUser, Idle
    <2>3. Become(c, [call[c] EXCEPT !.at = "stamp"]) \/ Become(c, call[c].then)
      BY <1>2 DEF RevokeTokens, Stamp, Continue
    <2> QED BY <2>2, <2>3, OnlyThis, OneMoves DEF MovesOn, Tracked
  <1>3. CASE ~ (Walk(c) \/ (\E u, m \in Users : UpdateLoad(c, u, m)) \/ RevokeTokens(c) \/ Stamp(c))
    <2>1. \E next : next.at \notin Tracked /\ Become(c, next)
      BY <1>3 DEF StaffStep, DeactivateLoad, ResendLoad, ForgotLoad, SetRoleLoad, Invite, ConsumeLoad,
         DeactivateWrite, BurnLinks, SetRoleWrite, ResendBurn, CreateLink, ConsumeWrite, UpdateWrite,
         Begin, Continue, RevokeAll, Idle, Tracked
    <2> QED BY <2>1, OnlyThis, OneMoves DEF MovesOn
  <1> QED BY <1>1, <1>2, <1>3

LEMMA CallsMoveOn ==
  ASSUME Sound, [Next]_vars
  PROVE  CallsMove
  <1>1. CASE UNCHANGED call
    BY <1>1 DEF CallsMove, MovesOn
  <1>2. CASE Restart
    BY <1>2 DEF Restart, CallsMove, MovesOn, Tracked, Idle
  <1>3. CASE UNCHANGED vars
    BY <1>1, <1>3 DEF vars
  <1>4. CASE Tick \/ \E d \in Devices : RequestHit(d) \/ GiveUp(d) \/ Relaunch(d)
    BY <1>1, <1>4 DEF Tick, RequestHit, GiveUp, Relaunch
  <1> QED BY <1>2, <1>3, <1>4, DeviceCallsMove, StaffCallsMove DEF Next

\* An account only changes at the time of the step; who is not active any more leaves then.
AccountsMove ==
  \A u \in Users : Exists(u) =>
    /\ user'[u] # NoRow
    /\ user'[u].revokedAt \in {user[u].revokedAt, now}
    /\ user'[u].leftAt \in {user[u].leftAt, now}
    /\ user'[u].status # "ACTIVE" => user[u].status # "ACTIVE" \/ user'[u].leftAt = now

LEMMA AccountsMoveOn ==
  ASSUME Sound, [Next]_vars
  PROVE  AccountsMove
  <1>1. CASE UNCHANGED user
    BY <1>1 DEF AccountsMove, Exists
  <1>2. ASSUME NEW c \in Calls, \/ LoginRight(c) \/ LoginWrong(c) \/ LoginLock(c) \/ Stamp(c)
                                \/ DeactivateWrite(c) \/ SetRoleWrite(c)
        PROVE  AccountsMove
    <2> DEFINE u == call[c].user
    <2>1. u \in Users /\ user[u] \in Account
      BY <1>2, CallShapes DEF LoginRight, LoginWrong, LoginLock, Stamp, DeactivateWrite, SetRoleWrite,
         Continue, Sound, CallsOK, References, Exists, AccountsOK, Anonymous
    <2> HIDE DEF u
    <2>2. CASE LoginRight(c) \/ LoginWrong(c) \/ LoginLock(c) \/ SetRoleWrite(c)
      <3>1. user'[u].revokedAt = user[u].revokedAt /\ user'[u].leftAt = user[u].leftAt
            /\ user'[u].status = user[u].status
        BY <2>1, <2>2 DEF LoginRight, LoginWrong, LoginLock, SetRoleWrite, u, Sound, AccountsOK, Account
      <3>2. \A v \in Users : v # u => user'[v] = user[v]
        BY <2>1, <2>2 DEF LoginRight, LoginWrong, LoginLock, SetRoleWrite, u, Sound, AccountsOK
      <3>3. user'[u] # NoRow
        <4>1. "status" \in DOMAIN user'[u]
          BY <2>1, <2>2 DEF LoginRight, LoginWrong, LoginLock, SetRoleWrite, u, Sound, AccountsOK, Account
        <4> QED BY <4>1 DEF NoRow
      <3> QED BY <3>1, <3>2, <3>3 DEF AccountsMove, Exists
    <2>3. CASE Stamp(c) \/ DeactivateWrite(c)
      <3>1. /\ user'[u].revokedAt \in {user[u].revokedAt, now}
            /\ user'[u].leftAt \in {user[u].leftAt, now}
            /\ user'[u].status = user[u].status \/ user'[u].leftAt = now
        BY <2>1, <2>3 DEF Stamp, DeactivateWrite, u, Sound, AccountsOK, Account
      <3>2. \A v \in Users : v # u => user'[v] = user[v]
        BY <2>1, <2>3 DEF Stamp, DeactivateWrite, u, Sound, AccountsOK
      <3>3. user'[u] # NoRow
        <4>1. "status" \in DOMAIN user'[u]
          BY <2>1, <2>3 DEF Stamp, DeactivateWrite, u, Sound, AccountsOK, Account
        <4> QED BY <4>1 DEF NoRow
      <3> QED BY <3>1, <3>2, <3>3 DEF AccountsMove, Exists
    <2> QED BY <1>2, <2>2, <2>3
  <1>3. ASSUME NEW c \in Calls, NEW u \in Users, NEW r \in Roles, Invite(c, u, r) PROVE AccountsMove
    BY <1>3 DEF Invite, AccountsMove, Sound, AccountsOK, Exists
  <1>4. ASSUME NEW c \in Calls, ConsumeWrite(c) PROVE AccountsMove
    <2> DEFINE l == call[c].link  u == link[l].user
    <2>1. u \in Users /\ user[u] \in Account
      <3>1. call[c].at = "password" /\ call[c] \in CallOf(call[c].at) /\ References(call[c])
        BY <1>4 DEF ConsumeWrite, Continue, Sound, CallsOK
      <3>2. l \in Links /\ link[l] # NoRow
        BY <3>1, CallShapes DEF References
      <3>3. u \in Users /\ Exists(u)
        BY <3>2 DEF Sound, TablesOK, AuthLink
      <3> QED BY <3>3 DEF Sound, AccountsOK, Exists
    <2> HIDE DEF u
    <2>2. /\ user'[u].revokedAt = user[u].revokedAt /\ user'[u].leftAt = user[u].leftAt
          /\ user'[u].status \in {user[u].status, "ACTIVE"}
      BY <1>4, <2>1 DEF ConsumeWrite, u, Sound, AccountsOK, Account
    <2>3. \A v \in Users : v # u => user'[v] = user[v]
      BY <1>4, <2>1 DEF ConsumeWrite, u, Sound, AccountsOK
    <2>4. user'[u] # NoRow
      <3>1. "status" \in DOMAIN user'[u]
        BY <1>4, <2>1 DEF ConsumeWrite, u, Sound, AccountsOK, Account
      <3> QED BY <3>1 DEF NoRow
    <2> QED BY <2>2, <2>3, <2>4 DEF AccountsMove, Exists
  <1>5. CASE UNCHANGED vars \/ Tick \/ Restart \/ \E d \in Devices : RequestHit(d) \/ GiveUp(d) \/ Relaunch(d)
    BY <1>1, <1>5 DEF vars, rows, Tick, Restart, RequestHit, GiveUp, Relaunch
  <1>6. ASSUME NEW c \in Calls, DeviceStep(c) PROVE AccountsMove
    BY <1>1, <1>2, <1>6 DEF DeviceStep, LoginLoad, RefreshLoad, Renew, LogoutLoad, RequestRead,
       RefreshRefuse, RotateInsert, RotateReplace, RevokeFamily, LogoutWrite, RequestFill, rows
  <1>7. ASSUME NEW c \in Calls, StaffStep(c) PROVE AccountsMove
    BY <1>1, <1>2, <1>3, <1>4, <1>7 DEF StaffStep, DeactivateLoad, ResendLoad, ForgotLoad, SetRoleLoad,
       ConsumeLoad, UpdateLoad, RevokeTokens, BurnLinks, ResendBurn, CreateLink, Walk, UpdateWrite, rows
  <1> QED BY <1>5, <1>6, <1>7 DEF Next


-----------------------------------------------------------------------------
\* Revocation takes hold.  What a reading of an account at some time still tells of it:
Knows(reading, u, time) ==
  /\ user[u].status # "ACTIVE" => reading.status # "ACTIVE" \/ user[u].leftAt >= time
  /\ user[u].revokedAt = reading.revokedAt \/ user[u].revokedAt >= time
ReadingsHold ==
  /\ \A u \in Users : cache[u] # NoRow => cache[u].readAt <= now /\ Knows(cache[u], u, cache[u].readAt)
  /\ \A c \in Calls : call[c].at = "fill" => Knows(call[c].entry, call[c].user, now)
SessionsInv == Sound /\ ReadingsHold /\ ServedInTime

LEMMA AccountTimes ==
  ASSUME Sound, NEW u \in Users, Exists(u)
  PROVE  user[u].revokedAt \in Int /\ user[u].leftAt \in Int /\ now \in Int /\ now \in Nat
  BY DEF Sound, AccountsOK, Exists, Account

LEMMA KnowsStays ==
  ASSUME Sound, AccountsMove, NEW u \in Users, Exists(u), NEW reading, NEW time \in Int, time <= now,
         Knows(reading, u, time)
  PROVE  /\ user'[u].status # "ACTIVE" => reading.status # "ACTIVE" \/ user'[u].leftAt >= time
         /\ user'[u].revokedAt = reading.revokedAt \/ user'[u].revokedAt >= time
  <1>1. now >= time
    BY AccountTimes
  <1> QED BY <1>1, AccountTimes DEF AccountsMove, Knows

LEMMA KnowsNow ==
  ASSUME NEW u, NEW time
  PROVE  Knows(Current(u), u, time)
  BY DEF Knows, Current

\* A request let through by a reading is served at most that long after the end.
LEMMA ServedSoon ==
  ASSUME Sound, NEW u \in Users, Exists(u), NEW iat \in Int, NEW reading,
         NEW time \in Int, time <= now, Knows(reading, u, time), ~ Rejected(reading, iat)
  PROVE  Behind(u, iat) <= now - time
  BY AccountTimes DEF Knows, Rejected, Behind

\* How the cache moves.
CacheMoves ==
  \A u \in Users : \/ cache'[u] \in {cache[u], NoRow}
                   \/ \E c \in Calls : /\ call[c].at = "fill" /\ call[c].user = u
                                       /\ cache'[u] = Entry(call[c].entry) /\ UNCHANGED now
LEMMA CacheMovesOn ==
  ASSUME Sound, [Next]_vars
  PROVE  CacheMoves
  <1>1. CASE UNCHANGED cache
    BY <1>1 DEF CacheMoves
  <1>2. ASSUME NEW c \in Calls, Stamp(c) PROVE CacheMoves
    BY <1>2 DEF Stamp, CacheMoves, Sound, CacheOK
  <1>3. ASSUME NEW c \in Calls, RequestFill(c) PROVE CacheMoves
    BY <1>3 DEF RequestFill, Remember, CacheMoves, Sound, CacheOK
  <1>4. CASE Restart
    BY <1>4 DEF Restart, CacheMoves
  <1>5. CASE UNCHANGED vars \/ Tick \/ \E d \in Devices : RequestHit(d) \/ GiveUp(d) \/ Relaunch(d)
    BY <1>1, <1>5 DEF vars, Tick, RequestHit, GiveUp, Relaunch
  <1>6. ASSUME NEW c \in Calls, DeviceStep(c) PROVE CacheMoves
    BY <1>1, <1>3, <1>6 DEF DeviceStep, LoginLoad, LoginRight, LoginWrong, LoginLock, RefreshLoad, Renew,
       LogoutLoad, RequestRead, RefreshRefuse, RotateInsert, RotateReplace, RevokeFamily, LogoutWrite
  <1>7. ASSUME NEW c \in Calls, StaffStep(c) PROVE CacheMoves
    BY <1>1, <1>2, <1>7 DEF StaffStep, DeactivateLoad, ResendLoad, ForgotLoad, SetRoleLoad, Invite,
       ConsumeLoad, UpdateLoad, DeactivateWrite, RevokeTokens, BurnLinks, SetRoleWrite, ResendBurn,
       CreateLink, ConsumeWrite, Walk, UpdateWrite
  <1> QED BY <1>4, <1>5, <1>6, <1>7 DEF Next

\* Time stands still while a row is being read.
LEMMA TimeMoves ==
  ASSUME Sound, [Next]_vars
  PROVE  /\ now' \in {now, now + 1}
         /\ \A c \in Calls : call[c].at = "fill" => UNCHANGED now
  <1>1. CASE UNCHANGED now
    BY <1>1
  <1>2. CASE Tick
    BY <1>2 DEF Tick
  <1>3. CASE UNCHANGED vars \/ Restart \/ \E d \in Devices : RequestHit(d) \/ GiveUp(d) \/ Relaunch(d)
    BY <1>1, <1>3 DEF vars, Restart, RequestHit, GiveUp, Relaunch
  <1>4. ASSUME NEW c \in Calls, DeviceStep(c) PROVE UNCHANGED now
    BY <1>4 DEF DeviceStep, LoginLoad, LoginRight, LoginWrong, LoginLock, RefreshLoad, Renew, LogoutLoad,
       RequestRead, RefreshRefuse, RotateInsert, RotateReplace, RevokeFamily, LogoutWrite, RequestFill,
       Begin, Continue
  <1>5. ASSUME NEW c \in Calls, StaffStep(c) PROVE UNCHANGED now
    BY <1>5 DEF StaffStep, DeactivateLoad, ResendLoad, ForgotLoad, SetRoleLoad, Invite, ConsumeLoad,
       UpdateLoad, DeactivateWrite, RevokeTokens, Stamp, BurnLinks, SetRoleWrite, ResendBurn, CreateLink,
       ConsumeWrite, Walk, UpdateWrite, Begin, Continue
  <1> QED BY <1>1, <1>2, <1>3, <1>4, <1>5 DEF Next

LEMMA CacheHolds ==
  ASSUME Sound, ReadingsHold, Sound', AccountsMove, CacheMoves, now' \in {now, now + 1},
         NEW u \in Users, cache'[u] # NoRow
  PROVE  (cache[u].readAt <= now /\ Knows(cache[u], u, cache[u].readAt))'
  <1>1. CASE cache'[u] = cache[u]
    <2>1. cache[u].readAt \in Int /\ cache[u].readAt <= now /\ Knows(cache[u], u, cache[u].readAt)
          /\ Exists(u)
      BY <1>1 DEF Sound, CacheOK, CacheEntry, ReadingsHold
    <2>2. cache[u].readAt <= now'
      BY <2>1, AccountTimes
    <2> QED BY <1>1, <2>1, <2>2, KnowsStays DEF Knows
  <1>2. CASE \E c \in Calls : /\ call[c].at = "fill" /\ call[c].user = u
                              /\ cache'[u] = Entry(call[c].entry) /\ UNCHANGED now
    <2>1. PICK c \in Calls : /\ call[c].at = "fill" /\ call[c].user = u
                             /\ cache'[u] = Entry(call[c].entry) /\ UNCHANGED now
      BY <1>2
    <2> DEFINE reading == call[c].entry
    <2>2. Exists(u) /\ Knows(reading, u, now)
      BY <2>1, FillShape DEF ReadingsHold
    <2>3. now \in Int /\ now <= now
      BY <2>2, AccountTimes
    <2>4. /\ user'[u].status # "ACTIVE" => reading.status # "ACTIVE" \/ user'[u].leftAt >= now
          /\ user'[u].revokedAt = reading.revokedAt \/ user'[u].revokedAt >= now
      BY <2>2, <2>3, KnowsStays
    <2>5. cache'[u].readAt = now /\ cache'[u].status = reading.status
          /\ cache'[u].revokedAt = reading.revokedAt
      BY <2>1 DEF Entry
    <2> QED BY <2>1, <2>3, <2>4, <2>5 DEF Knows
  <1> QED BY <1>1, <1>2 DEF CacheMoves

LEMMA ReadingsStep ==
  ASSUME Sound, ReadingsHold, [Next]_vars
  PROVE  ReadingsHold'
  <1>1. Sound' /\ AccountsMove /\ CacheMoves /\ now' \in {now, now + 1}
    BY NextSound, AccountsMoveOn, CacheMovesOn, TimeMoves
  <1>2. ASSUME NEW c \in Calls, call'[c].at = "fill"
        PROVE  Knows(call[c].entry, call[c].user, now)'
    <2>1. CASE call'[c] = call[c]
      <3>1. call[c].user \in Users /\ Exists(call[c].user) /\ Knows(call[c].entry, call[c].user, now)
        BY <1>2, <2>1, FillShape DEF ReadingsHold
      <3>2. UNCHANGED now /\ now \in Int /\ now <= now
        BY <1>2, <2>1, <3>1, TimeMoves, AccountTimes
      <3> QED BY <1>1, <2>1, <3>1, <3>2, KnowsStays DEF Knows
    <2>2. ASSUME NEW d \in Devices, RequestRead(c, d)
          PROVE  Knows(call[c].entry, call[c].user, now)'
      <3>1. /\ call'[c].user = device[d].access.user /\ call'[c].entry = Current(device[d].access.user)
            /\ UNCHANGED <<user, now>>
        BY <2>2, OnlyThis DEF RequestRead, Begin, Current, rows
      <3> QED BY <3>1 DEF Knows, Current
    <2>3. ASSUME NEW d \in Devices, Renew(c, d) PROVE FALSE
      <3>1. call'[c] = RefreshPlan(d)
        BY <2>3, OnlyThis DEF Renew, Begin
      <3>2. RefreshPlan(d).at \in {"insert", "refuse", "reuse"}
        BY DEF RefreshPlan
      <3> QED BY <1>2, <3>1, <3>2
    <2>4. CASE RotateInsert(c)
      <3>1. PICK t : call'[c] = [at |-> "replace", d |-> call[c].d, user |-> call[c].user,
                                 from |-> call[c].from, family |-> call[c].family, new |-> t]
        BY <2>4, RotateInsertSound
      <3>2. call'[c].at = "replace"
        BY <3>1
      <3> QED BY <1>2, <3>2
    <2>5. CASE Walk(c)
      <3>1. call'[c] = WalkOn(c) /\ call[c] \in CallOf(call[c].at) /\ call[c].at = "walk"
        BY <2>5, OnlyThis DEF Walk, Continue, Sound, CallsOK
      <3>2. call[c] \in [at : {"walk"}, user : Users, boss : Users, current : Users,
                         seen : SUBSET Users]
        BY <3>1, CallShapes
      <3>3. WalkOn(c).at \in {"idle", "assign", "walk"}
        BY <3>2 DEF WalkOn, Idle
      <3> QED BY <1>2, <3>1, <3>3
    <2>6. ASSUME NEW u \in Users, NEW m \in Users, UpdateLoad(c, u, m) PROVE FALSE
      BY <1>2, <2>6, OnlyThis DEF UpdateLoad, Begin
    <2>7. MovesOn(c)
      BY CallsMoveOn DEF CallsMove
    <2> QED BY <1>2, <2>1, <2>2, <2>3, <2>4, <2>5, <2>6, <2>7 DEF MovesOn, Tracked
  <1> QED BY <1>1, <1>2, CacheHolds DEF ReadingsHold

LEMMA LagMoves ==
  ASSUME Sound, ReadingsHold, ServedInTime, [Next]_vars
  PROVE  ServedInTime'
  <1>1. CASE UNCHANGED lag
    BY <1>1 DEF ServedInTime
  <1>2. ASSUME NEW d \in Devices, RequestHit(d) PROVE ServedInTime'
    <2> DEFINE a == device[d].access  u == a.user
    <2>1. a \in Access /\ u \in Users /\ Exists(u) /\ a.iat \in Int
      BY <1>2 DEF RequestHit, Usable, Sound, DevicesOK, Session, Access
    <2>2. cache[u] # NoRow /\ now - cache[u].readAt < CacheTicks /\ Guarded(d, cache[u])
      BY <1>2 DEF RequestHit, Fresh
    <2>3. cache[u].readAt \in Int /\ cache[u].readAt <= now /\ Knows(cache[u], u, cache[u].readAt)
      BY <2>1, <2>2 DEF Sound, CacheOK, CacheEntry, ReadingsHold
    <2>4. CASE Rejected(cache[u], a.iat)
      BY <1>1, <2>2, <2>4 DEF Guarded
    <2>5. CASE ~ Rejected(cache[u], a.iat)
      <3>1. Behind(u, a.iat) <= now - cache[u].readAt
        BY <2>1, <2>3, <2>5, ServedSoon
      <3>2. lag' \in {lag, Behind(u, a.iat)}
        BY <2>2, <2>5 DEF Guarded
      <3>3. Behind(u, a.iat) \in Int /\ now \in Int /\ CacheTicks \in Int
        BY <2>1, BehindInt, AccountTimes, SessionsAssumption
      <3>4. Behind(u, a.iat) < CacheTicks
        BY <2>2, <2>3, <3>1, <3>3
      <3> QED BY <3>2, <3>4 DEF ServedInTime
    <2> QED BY <2>4, <2>5
  <1>3. ASSUME NEW c \in Calls, RequestFill(c) PROVE ServedInTime'
    <2> DEFINE d == call[c].d  a == call[c].access  u == a.user  reading == call[c].entry
    <2>1. u \in Users /\ Exists(u) /\ a.iat \in Int /\ Knows(reading, u, now) /\ now \in Int
      <3>1. call[c].at = "fill"
        BY <1>3 DEF RequestFill
      <3>2. u = call[c].user /\ u \in Users /\ Exists(u) /\ a \in Access
        BY <3>1, FillShape
      <3> QED BY <3>1, <3>2, AccountTimes DEF ReadingsHold, Access
    <2>2. CASE device[d].access # a \/ Rejected(reading, a.iat)
      BY <1>1, <1>3, <2>2 DEF RequestFill, Guarded
    <2>3. CASE device[d].access = a /\ ~ Rejected(reading, a.iat)
      <3>1. Behind(u, a.iat) <= now - now
        BY <2>1, <2>3, ServedSoon
      <3>2. lag' \in {lag, Behind(u, a.iat)}
        BY <1>3, <2>3 DEF RequestFill, Guarded
      <3>3. Behind(u, a.iat) \in Int /\ CacheTicks \in Nat /\ CacheTicks > 0
        BY <2>1, BehindInt, SessionsAssumption
      <3>4. Behind(u, a.iat) < CacheTicks
        BY <2>1, <3>1, <3>3
      <3> QED BY <3>2, <3>4 DEF ServedInTime
    <2> QED BY <2>2, <2>3
  <1>4. CASE UNCHANGED vars \/ Tick \/ Restart \/ \E d \in Devices : GiveUp(d) \/ Relaunch(d)
    BY <1>1, <1>4 DEF vars, Tick, Restart, GiveUp, Relaunch
  <1>5. ASSUME NEW c \in Calls, DeviceStep(c), ~ RequestFill(c) PROVE UNCHANGED lag
    BY <1>5 DEF DeviceStep, LoginLoad, LoginRight, LoginWrong, LoginLock, RefreshLoad, Renew, LogoutLoad,
       RequestRead, RefreshRefuse, RotateInsert, RotateReplace, RevokeFamily, LogoutWrite, Begin, Continue
  <1>6. ASSUME NEW c \in Calls, StaffStep(c) PROVE UNCHANGED lag
    BY <1>6 DEF StaffStep, DeactivateLoad, ResendLoad, ForgotLoad, SetRoleLoad, Invite, ConsumeLoad,
       UpdateLoad, DeactivateWrite, RevokeTokens, Stamp, BurnLinks, SetRoleWrite, ResendBurn, CreateLink,
       ConsumeWrite, Walk, UpdateWrite, Begin, Continue
  <1> QED BY <1>1, <1>2, <1>3, <1>4, <1>5, <1>6 DEF Next

LEMMA SessionsInitially == Init => SessionsInv
  <1> SUFFICES ASSUME Init PROVE SessionsInv
    OBVIOUS
  <1>1. Idle.at = "idle"
    BY CallOfInverse
  <1>2. ReadingsHold
    BY <1>1 DEF Init, ReadingsHold
  <1>3. ServedInTime
    BY SessionsAssumption DEF Init, ServedInTime
  <1> QED BY <1>2, <1>3, SoundInitially DEF SessionsInv

LEMMA SessionsStep == SessionsInv /\ [Next]_vars => SessionsInv'
  BY NextSound, ReadingsStep, LagMoves DEF SessionsInv

-----------------------------------------------------------------------------
\* Sockets.  A client that was turned away has a way back.
Fields == {"kind", "on", "at", "who", "entry", "checked", "timer"}
IsSocket(f) == f = [x \in Fields |-> f[x]]
NotLost(f) == f.on /\ f.at = "away" => f.timer # "none"

\* Every socket is one, and none is lost.
SocketsInv ==
  /\ feed = [d \in Devices |-> feed[d]]
  /\ \A d \in Devices : IsSocket(feed[d]) /\ NotLost(feed[d])

LEMMA FreshSocket ==
  ASSUME NEW kind
  PROVE  IsSocket(Off(kind)) /\ NotLost(Off(kind))
  BY DEF Off, IsSocket, NotLost, Fields

LEMMA ConnectingSocket ==
  ASSUME NEW f, IsSocket(f)
  PROVE  IsSocket(Connecting(f)) /\ NotLost(Connecting(f))
  BY DEF Connecting, IsSocket, NotLost, Fields

LEMMA TurnedAwaySocket ==
  ASSUME NEW f, IsSocket(f)
  PROVE  IsSocket(TurnedAway(f)) /\ NotLost(TurnedAway(f))
  <1>1. IsSocket(Connecting(f)) BY ConnectingSocket
  <1>2. Rearmed(f.timer) # "none" BY DEF Rearmed, Armed
  <1> QED BY <1>1, <1>2 DEF TurnedAway, IsSocket, NotLost, Fields

-----------------------------------------------------------------------------
\* A client's side: the session ends or is renewed.

LEMMA ClosedSocket ==
  ASSUME NEW f, IsSocket(f)
  PROVE  IsSocket(Closed(f)) /\ NotLost(Closed(f))
  <1>1. IsSocket(Off(f.kind)) /\ Off(f.kind).on = FALSE
    BY DEF Off, IsSocket, Fields
  <1> QED BY <1>1 DEF Closed, IsSocket, NotLost, Fields

LEMMA RenewedSocket ==
  ASSUME NEW f, IsSocket(f), NotLost(f), NEW d
  PROVE  IsSocket(Renewed(f, d)) /\ NotLost(Renewed(f, d))
  <1> DEFINE g == [f EXCEPT !.timer = "none"]
  <1>1. IsSocket(g) /\ g.on = f.on /\ g.at = f.at
    BY DEF IsSocket, Fields
  <1>2. CASE ~ f.on
    BY <1>1, <1>2 DEF Renewed, NotLost
  <1>3. CASE f.on /\ (f.kind = "agent" \/ device'[d].losses = 0)
    BY <1>1, <1>3, ConnectingSocket DEF Renewed
  <1>4. CASE f.on /\ ~ (f.kind = "agent" \/ device'[d].losses = 0)
    <2>1. Renewed(f, d) = [f EXCEPT !.timer = "armed"]
      BY <1>4 DEF Renewed, Rearmed, Armed
    <2> QED BY <2>1 DEF IsSocket, NotLost, Fields
  <1> QED BY <1>2, <1>3, <1>4

LEMMA FollowSocket ==
  ASSUME SocketsInv, NEW d \in Devices
  PROVE  IsSocket(Follow(d)) /\ NotLost(Follow(d))
  <1> DEFINE f == Signed(feed[d], d)
  <1>1. IsSocket(feed[d]) /\ NotLost(feed[d])
    BY DEF SocketsInv
  <1>2. IsSocket(f) /\ NotLost(f)
    BY <1>1, ClosedSocket, ConnectingSocket DEF Signed
  <1>3. Follow(d) = IF f.timer = "refreshing" /\ device'[d].waits = None
                      THEN Renewed(f, d) ELSE f
    BY DEF Follow
  <1> HIDE DEF f
  <1> QED BY <1>2, <1>3, RenewedSocket

LEMMA DroppedSocket ==
  ASSUME NEW f, IsSocket(f), NotLost(f)
  PROVE  IsSocket(Dropped(f)) /\ NotLost(Dropped(f))
  BY ConnectingSocket DEF Dropped

-----------------------------------------------------------------------------
\* The gateway's side: a socket is let in, or turned away.

LEMMA VerdictSocket ==
  ASSUME NEW f, IsSocket(f), NEW entry
  PROVE  IsSocket(Verdict(f, entry)) /\ NotLost(Verdict(f, entry))
  <1>1. CASE Rejected(entry, f.who.iat)
    BY <1>1, TurnedAwaySocket DEF Verdict
  <1>2. CASE ~ Rejected(entry, f.who.iat)
    <2> DEFINE g == [f EXCEPT !.at = "open", !.entry = NoRow, !.checked = now]
    <2>1. Verdict(f, entry) = g
      BY <1>2 DEF Verdict
    <2>2. IsSocket(g) /\ g.at = "open"
      BY DEF IsSocket, Fields
    <2> QED BY <2>1, <2>2 DEF NotLost
  <1> QED BY <1>1, <1>2

\* A step that changes one socket.
LEMMA OneSocket ==
  ASSUME SocketsInv, NEW d \in Devices, NEW next, IsSocket(next), NotLost(next), Feed(d, next)
  PROVE  SocketsInv'
  BY DEF SocketsInv, Feed, IsSocket, NotLost

LEMMA HandshakeKeeps ==
  ASSUME SocketsInv, NEW d \in Devices, Handshake(d)
  PROVE  SocketsInv'
  <1> DEFINE f == [feed[d] EXCEPT !.who = device[d].access]
             reading(entry) == [f EXCEPT !.at = "checking", !.entry = entry]
  <1>1. IsSocket(f)
    BY DEF SocketsInv, IsSocket, Fields
  <1>2. \A entry : IsSocket(reading(entry)) /\ NotLost(reading(entry))
    BY <1>1 DEF IsSocket, NotLost, Fields
  <1>3. \/ Feed(d, TurnedAway(f))
        \/ \E entry : Feed(d, Verdict(f, entry))
        \/ \E entry : Feed(d, reading(entry))
    BY DEF Handshake
  <1> HIDE DEF f, reading
  <1> QED BY <1>1, <1>2, <1>3, TurnedAwaySocket, VerdictSocket, OneSocket

LEMMA SweepKeeps ==
  ASSUME SocketsInv, NEW d \in Devices, Sweep(d)
  PROVE  SocketsInv'
  <1> DEFINE f == feed[d]
             reading(entry) == [f EXCEPT !.at = "rechecking", !.entry = entry]
  <1>1. IsSocket(f)
    BY DEF SocketsInv
  <1>2. \A entry : IsSocket(reading(entry)) /\ NotLost(reading(entry))
    BY <1>1 DEF IsSocket, NotLost, Fields
  <1>3. \/ \E entry : Feed(d, Verdict(f, entry))
        \/ \E entry : Feed(d, reading(entry))
    BY DEF Sweep, SweepVerdict
  <1> HIDE DEF f, reading
  <1> QED BY <1>1, <1>2, <1>3, VerdictSocket, OneSocket

LEMMA CheckedKeeps ==
  ASSUME SocketsInv, NEW d \in Devices, Checked(d)
  PROVE  SocketsInv'
  <1>1. IsSocket(feed[d])
    BY DEF SocketsInv
  <1>2. Feed(d, Verdict(feed[d], feed[d].entry))
    BY DEF Checked, SweepVerdict
  <1> QED BY <1>1, <1>2, VerdictSocket, OneSocket

LEMMA TimerKeeps ==
  ASSUME SocketsInv, NEW d \in Devices, NEW c \in Calls, TimerFires(c, d)
  PROVE  SocketsInv'
  <1> DEFINE next == [feed[d] EXCEPT !.timer = "refreshing"]
  <1>1. IsSocket(next) /\ NotLost(next)
    BY DEF SocketsInv, IsSocket, NotLost, Fields
  <1>2. Feed(d, next)
    BY DEF TimerFires
  <1> HIDE DEF next
  <1> QED BY <1>1, <1>2, OneSocket

LEMMA DropKeeps ==
  ASSUME SocketsInv, NEW d \in Devices, Drop(d)
  PROVE  SocketsInv'
  <1>1. IsSocket(feed[d]) /\ NotLost(feed[d])
    BY DEF SocketsInv
  <1> QED BY <1>1, DroppedSocket, OneSocket DEF Drop

\* A step of the sessions, which every socket follows.
LEMMA FollowingKeeps ==
  ASSUME SocketsInv, Following
  PROVE  SocketsInv'
  <1>1. feed' = [d \in Devices |-> Follow(d)]
    BY DEF Following
  <1>2. \A d \in Devices : IsSocket(Follow(d)) /\ NotLost(Follow(d))
    BY FollowSocket
  <1> QED BY <1>1, <1>2 DEF SocketsInv, IsSocket, NotLost

LEMMA RestartKeeps ==
  ASSUME SocketsInv, feed' = [d \in Devices |-> Dropped(Follow(d))]
  PROVE  SocketsInv'
  <1>1. \A d \in Devices : IsSocket(Dropped(Follow(d))) /\ NotLost(Dropped(Follow(d)))
    BY FollowSocket, DroppedSocket
  <1> QED BY <1>1 DEF SocketsInv, IsSocket, NotLost

-----------------------------------------------------------------------------
LEMMA SocketsInitially == FeedInit => SocketsInv
  <1> SUFFICES ASSUME FeedInit PROVE SocketsInv
    OBVIOUS
  <1>1. feed \in [Devices -> {Off("agent"), Off("page")}]
    BY DEF FeedInit
  <1> QED BY <1>1, FreshSocket DEF SocketsInv

LEMMA SocketsStep == SocketsInv /\ [FeedNext]_feedVars => SocketsInv'
  <1> SUFFICES ASSUME SocketsInv, [FeedNext]_feedVars PROVE SocketsInv'
    OBVIOUS
  <1>1. CASE UNCHANGED feed
    BY <1>1 DEF SocketsInv, IsSocket, NotLost
  <1>2. CASE feed' = [d \in Devices |-> Dropped(Follow(d))]
    BY <1>2, RestartKeeps
  <1>3. CASE Following
    BY <1>3, FollowingKeeps
  <1>4. ASSUME NEW d \in Devices, Feed(d, Off(feed[d].kind)) PROVE SocketsInv'
    BY <1>4, FreshSocket, OneSocket
  <1>5. ASSUME NEW d \in Devices, Handshake(d) \/ Sweep(d) \/ Checked(d) \/ Drop(d)
        PROVE  SocketsInv'
    BY <1>5, HandshakeKeeps, SweepKeeps, CheckedKeeps, DropKeeps
  <1>6. ASSUME NEW d \in Devices, NEW c \in Calls, TimerFires(c, d) PROVE SocketsInv'
    BY <1>6, TimerKeeps
  <1>7. CASE UNCHANGED feedVars
    BY <1>1, <1>7 DEF feedVars
  <1>8. CASE FeedNext
    BY <1>1, <1>2, <1>3, <1>4, <1>5, <1>6, <1>8 DEF FeedNext
  <1> QED BY <1>7, <1>8

\* connectPresence, ChatWatcher: whatever becomes of the session, the network and the server, a
\* client that is signed in and was turned away has a timer or a renewal to bring it back.
THEOREM TurnedAwayComesBack == FeedSpec => []WayBack
  <1>1. Init /\ FeedInit => SocketsInv
    BY SocketsInitially
  <1>2. SocketsInv => WayBack
    BY DEF SocketsInv, NotLost, WayBack
  <1> QED BY <1>1, <1>2, SocketsStep, PTL DEF FeedSpec


-----------------------------------------------------------------------------
\* Sockets are cut off.  How long ago, at most, what a socket was let in with can have ended:
CutOffAfter(who, time) ==
  /\ user[who.user].status # "ACTIVE" => user[who.user].leftAt > time
  /\ user[who.user].revokedAt > who.iat => user[who.user].revokedAt > time
LetIn == {"checking", "open", "rechecking"}
SocketHolds(f) ==
  /\ f.at \in LetIn => f.who \in Access /\ Exists(f.who.user)
  /\ f.at \in {"checking", "rechecking"} => f.entry \in Reading /\ Knows(f.entry, f.who.user, now)
  /\ f.at \in {"open", "rechecking"} =>
       /\ f.checked \in Nat /\ f.checked <= now /\ now - f.checked <= SweepTicks
       /\ CutOffAfter(f.who, f.checked - CacheTicks)
SocketsHold == \A d \in Devices : SocketHolds(feed[d])
FeedInv == SessionsInv /\ SocketsInv /\ SocketsHold

LEMMA NotLetIn ==
  ASSUME NEW d, feed'[d].at \notin LetIn
  PROVE  SocketHolds(feed[d])'
  BY DEF SocketHolds, LetIn

\* The same socket, at the same time.
Same(g, f) == g.at = f.at /\ g.who = f.who /\ g.entry = f.entry /\ g.checked = f.checked

LEMMA CutOffStays ==
  ASSUME Sound, AccountsMove, NEW who \in Access, Exists(who.user), NEW time \in Int, time < now,
         CutOffAfter(who, time)
  PROVE  /\ user'[who.user].status # "ACTIVE" => user'[who.user].leftAt > time
         /\ user'[who.user].revokedAt > who.iat => user'[who.user].revokedAt > time
  <1>1. who.user \in Users
    BY DEF Access
  <1>2. now > time
    BY <1>1, AccountTimes
  <1> QED BY <1>1, <1>2, AccountTimes DEF AccountsMove, CutOffAfter

LEMMA CheckedBefore ==
  ASSUME Sound, NEW checked \in Nat, checked <= now
  PROVE  checked - CacheTicks \in Int /\ checked - CacheTicks < now
  BY SessionsAssumption DEF Sound, AccountsOK

LEMMA SocketStays ==
  ASSUME Sound, AccountsMove, Sound', NEW d \in Devices, SocketHolds(feed[d]),
         Same(feed'[d], feed[d]), UNCHANGED now
  PROVE  SocketHolds(feed[d])'
  <1> DEFINE f == feed[d]
  <1>1. f.at \in LetIn => f.who \in Access /\ Exists(f.who.user) /\ f.who.user \in Users
    BY DEF SocketHolds, Access
  <1>2. f.at \in LetIn => user'[f.who.user] # NoRow
    BY <1>1 DEF Same, AccountsMove, Sound, AccountsOK, Exists
  <1>3. ASSUME f.at \in {"checking", "rechecking"}
        PROVE  Knows(f.entry, f.who.user, now)'
    <2>1. Knows(f.entry, f.who.user, now) /\ f.who.user \in Users /\ Exists(f.who.user)
      BY <1>1, <1>3 DEF SocketHolds, LetIn
    <2>2. now \in Int /\ now <= now
      BY <2>1, AccountTimes
    <2> QED BY <2>1, <2>2, KnowsStays DEF Knows, Same
  <1>4. ASSUME f.at \in {"open", "rechecking"}
        PROVE  CutOffAfter(f.who, f.checked - CacheTicks)'
    <2>1. /\ f.checked \in Nat /\ f.checked <= now /\ f.who \in Access /\ Exists(f.who.user)
          /\ CutOffAfter(f.who, f.checked - CacheTicks)
      BY <1>4 DEF SocketHolds, LetIn
    <2> QED BY <2>1, CheckedBefore, CutOffStays DEF CutOffAfter, Same
  <1> QED BY <1>1, <1>2, <1>3, <1>4 DEF SocketHolds, Same, Exists, LetIn

LEMMA FollowSame ==
  ASSUME SocketsInv, NEW d \in Devices
  PROVE  Follow(d).at \notin LetIn \/ Same(Follow(d), feed[d])
  <1> DEFINE f == Signed(feed[d], d)
  <1>1. IsSocket(feed[d])
    BY DEF SocketsInv
  <1>2. \A g : IsSocket(g) => Connecting(g).at = "connecting" /\ IsSocket(Connecting(g))
    <2>1. \A g : IsSocket(g) => Connecting(g).at = "connecting"
      BY DEF Connecting, IsSocket, Fields
    <2> QED BY <2>1, ConnectingSocket
  <1>3. Closed(feed[d]).at = "closed" /\ IsSocket(Closed(feed[d]))
    <2>1. Off(feed[d].kind).at = "closed" /\ IsSocket(Off(feed[d].kind))
      BY DEF Off, IsSocket, Fields
    <2> QED BY <1>1, <2>1, ClosedSocket DEF Closed, IsSocket, Fields
  <1>4. IsSocket(f) /\ (f.at \notin LetIn \/ Same(f, feed[d]))
    BY <1>1, <1>2, <1>3 DEF Signed, Same, LetIn
  <1> HIDE DEF f
  <1>5. ASSUME NEW timer PROVE LET g == [f EXCEPT !.timer = timer] IN IsSocket(g) /\ Same(g, f)
    BY <1>4 DEF IsSocket, Same, Fields
  <1>6. Renewed(f, d).at = "connecting" \/ Same(Renewed(f, d), f)
    BY <1>2, <1>5 DEF Renewed
  <1>7. Follow(d) \in {f, Renewed(f, d)}
    BY DEF Follow, f
  <1> QED BY <1>4, <1>6, <1>7 DEF Same, LetIn

\* The verdict on a reading of that time.
LEMMA VerdictHolds ==
  ASSUME Sound, UNCHANGED <<now, user>>, NEW d \in Devices, NEW f, IsSocket(f), f.who \in Access,
         Exists(f.who.user), NEW reading, NEW time \in Int, time <= now, now - time < CacheTicks,
         Knows(reading, f.who.user, time), feed'[d] = Verdict(f, reading)
  PROVE  SocketHolds(feed[d])'
  <1> DEFINE opened == [f EXCEPT !.at = "open", !.entry = NoRow, !.checked = now]
             u == f.who.user
  <1>1. CASE Rejected(reading, f.who.iat)
    <2>1. feed'[d] = TurnedAway(f)
      BY <1>1 DEF Verdict
    <2>2. TurnedAway(f).at = "away"
      <3>1. IsSocket(Connecting(f))
        BY ConnectingSocket
      <3> QED BY <3>1 DEF TurnedAway, IsSocket, Fields
    <2> QED BY <2>1, <2>2, NotLetIn DEF LetIn
  <1>2. CASE ~ Rejected(reading, f.who.iat)
    <2>1. feed'[d] = opened
      BY <1>2 DEF Verdict
    <2>2. opened.at = "open" /\ opened.who = f.who /\ opened.checked = now
      BY DEF IsSocket, Fields
    <2> HIDE DEF opened
    <2>3. u \in Users /\ f.who.iat \in Int
      BY DEF Access
    <2>4. now \in Nat /\ now <= now /\ now - now <= SweepTicks /\ CacheTicks \in Nat
      BY <2>3, AccountTimes, SessionsAssumption, SocketsAssumption
    <2>5. now - CacheTicks < time
      BY <2>4
    <2>6. CutOffAfter(f.who, now - CacheTicks)
      <3>1. user[u].status # "ACTIVE" => user[u].leftAt > now - CacheTicks
        BY <1>2, <2>3, <2>4, <2>5, AccountTimes DEF Rejected, Knows
      <3>2. user[u].revokedAt > f.who.iat => user[u].revokedAt > now - CacheTicks
        BY <1>2, <2>3, <2>4, <2>5, AccountTimes DEF Rejected, Knows
      <3> QED BY <3>1, <3>2 DEF CutOffAfter
    <2> QED BY <2>1, <2>2, <2>4, <2>6 DEF SocketHolds, CutOffAfter, Exists, LetIn
  <1> QED BY <1>1, <1>2

\* A reading of a fresh entry of the cache.
LEMMA FreshReading ==
  ASSUME Sound, ReadingsHold, NEW u \in Users, Fresh(u)
  PROVE  /\ cache[u].readAt \in Int /\ cache[u].readAt <= now /\ now - cache[u].readAt < CacheTicks
         /\ Knows(cache[u], u, cache[u].readAt)
  BY DEF Fresh, Sound, CacheOK, CacheEntry, ReadingsHold

LEMMA OtherSockets ==
  ASSUME SessionsInv, SocketsInv, SocketsHold, SessionsInv', AccountsMove, UNCHANGED now,
         NEW d \in Devices, NEW next, Feed(d, next), SocketHolds(feed[d])'
  PROVE  SocketsHold'
  <1>1. \A e \in Devices : e # d => feed'[e] = feed[e]
    BY DEF Feed, SocketsInv
  <1>2. ASSUME NEW e \in Devices, e # d PROVE SocketHolds(feed[e])'
    BY <1>1, <1>2, SocketStays DEF SocketsHold, Same, SessionsInv
  <1> QED BY <1>2 DEF SocketsHold

\* Nothing of the sessions moves.
LEMMA Still ==
  ASSUME SessionsInv, UNCHANGED vars
  PROVE  SessionsInv' /\ AccountsMove /\ UNCHANGED <<now, user>>
  BY SessionsStep, AccountsMoveOn DEF SessionsInv, vars, rows

LEMMA HandshakeHolds ==
  ASSUME FeedInv, NEW d \in Devices, Handshake(d)
  PROVE  SessionsInv' /\ SocketsHold'
  <1> DEFINE f == [feed[d] EXCEPT !.who = device[d].access]
             u == f.who.user
             reading == [f EXCEPT !.at = "checking", !.entry = Current(u)]
  <1>1. SessionsInv' /\ AccountsMove /\ UNCHANGED <<now, user>>
    BY Still DEF Handshake, FeedInv
  <1>2. IsSocket(feed[d])
    BY DEF FeedInv, SocketsInv
  <1>3. IsSocket(f) /\ f.who = device[d].access
    BY <1>2 DEF IsSocket, Fields
  <1>4. feed = [e \in Devices |-> feed[e]]
    BY DEF FeedInv, SocketsInv
  <1> HIDE DEF f
  <1>5. \/ ~ Usable(d) /\ Feed(d, TurnedAway(f))
        \/ Usable(d) /\ Fresh(u) /\ Feed(d, Verdict(f, cache[u]))
        \/ Usable(d) /\ Feed(d, reading)
    BY DEF Handshake, Current, f
  <1>6. CASE ~ Usable(d) /\ Feed(d, TurnedAway(f))
    <2>1. TurnedAway(f).at = "away"
      <3>1. IsSocket(Connecting(f))
        BY <1>3, ConnectingSocket
      <3> QED BY <3>1 DEF TurnedAway, IsSocket, Fields
    <2>2. feed'[d] = TurnedAway(f)
      BY <1>4, <1>6 DEF Feed
    <2>3. SocketHolds(feed[d])'
      BY <2>1, <2>2, NotLetIn DEF LetIn
    <2> QED BY <1>1, <1>6, <2>3, OtherSockets DEF FeedInv
  <1>7. ASSUME Usable(d) PROVE f.who \in Access /\ Exists(u) /\ u \in Users
    BY <1>3, <1>7 DEF Usable, FeedInv, SessionsInv, Sound, DevicesOK, Session, Access
  <1>8. CASE Usable(d) /\ Fresh(u) /\ Feed(d, Verdict(f, cache[u]))
    <2>1. feed'[d] = Verdict(f, cache[u])
      BY <1>4, <1>8 DEF Feed
    <2>2. SocketHolds(feed[d])'
      BY <1>1, <1>3, <1>7, <1>8, <2>1, FreshReading, VerdictHolds DEF FeedInv, SessionsInv
    <2> QED BY <1>1, <1>8, <2>2, OtherSockets DEF FeedInv
  <1>9. CASE Usable(d) /\ Feed(d, reading)
    <2>1. feed'[d] = reading
      BY <1>4, <1>9 DEF Feed
    <2>2. reading.at = "checking" /\ reading.who = f.who /\ reading.entry = Current(u)
      BY <1>3 DEF IsSocket, Fields
    <2>3. Current(u) \in Reading /\ Knows(Current(u), u, now)
      BY <1>7, <1>9, ReadingRow, KnowsNow DEF FeedInv, SessionsInv
    <2>4. SocketHolds(feed[d])'
      <3> HIDE DEF reading
      <3> QED BY <1>1, <1>7, <1>9, <2>1, <2>2, <2>3 DEF SocketHolds, LetIn, Knows, Exists
    <2> QED BY <1>1, <1>9, <2>4, OtherSockets DEF FeedInv
  <1> QED BY <1>1, <1>5, <1>6, <1>8, <1>9

LEMMA SweepHolds ==
  ASSUME FeedInv, NEW d \in Devices, Sweep(d)
  PROVE  SessionsInv' /\ SocketsHold'
  <1> DEFINE f == feed[d]
             u == f.who.user
             reading == [f EXCEPT !.at = "rechecking", !.entry = Current(u)]
  <1>1. SessionsInv' /\ AccountsMove /\ UNCHANGED <<now, user>>
    BY Still DEF Sweep, FeedInv
  <1>2. IsSocket(f) /\ feed = [e \in Devices |-> feed[e]]
    BY DEF FeedInv, SocketsInv
  <1>3. f.at = "open" /\ SocketHolds(f)
    BY DEF Sweep, FeedInv, SocketsHold
  <1>4. f.who \in Access /\ Exists(u) /\ u \in Users
    BY <1>3 DEF SocketHolds, Access, LetIn
  <1>5. \/ Fresh(u) /\ Feed(d, Verdict(f, cache[u]))
        \/ Feed(d, reading)
    BY DEF Sweep, SweepVerdict, Current
  <1>6. CASE Fresh(u) /\ Feed(d, Verdict(f, cache[u]))
    <2>1. feed'[d] = Verdict(f, cache[u])
      BY <1>2, <1>6 DEF Feed
    <2>2. SocketHolds(feed[d])'
      BY <1>1, <1>2, <1>4, <1>6, <2>1, FreshReading, VerdictHolds DEF FeedInv, SessionsInv
    <2> QED BY <1>1, <1>6, <2>2, OtherSockets DEF FeedInv
  <1>7. CASE Feed(d, reading)
    <2>1. feed'[d] = reading
      BY <1>2, <1>7 DEF Feed
    <2>2. /\ reading.at = "rechecking" /\ reading.who = f.who /\ reading.entry = Current(u)
          /\ reading.checked = f.checked
      BY <1>2 DEF IsSocket, Fields
    <2>3. Current(u) \in Reading /\ Knows(Current(u), u, now)
      BY <1>4, ReadingRow, KnowsNow DEF FeedInv, SessionsInv
    <2>4. SocketHolds(feed[d])'
      <3> HIDE DEF reading
      <3> QED BY <1>1, <1>3, <1>4, <2>1, <2>2, <2>3 DEF SocketHolds, LetIn, Knows, CutOffAfter, Exists
    <2> QED BY <1>1, <1>7, <2>4, OtherSockets DEF FeedInv
  <1> QED BY <1>1, <1>5, <1>6, <1>7

\* A look of a socket at the rows ends: the cache remembers it.
LEMMA CheckedHolds ==
  ASSUME FeedInv, NEW d \in Devices, Checked(d)
  PROVE  SessionsInv' /\ SocketsHold'
  <1> DEFINE f == feed[d]  u == f.who.user  entry == Entry(f.entry)
  <1>1. UNCHANGED <<now, user, manager, token, link, device, call, lag>> /\ RowsStay
    BY NothingMoves DEF Checked, rows
  <1>2. f.at \in {"checking", "rechecking"} /\ SocketHolds(f) /\ IsSocket(f)
        /\ feed = [e \in Devices |-> feed[e]]
    BY DEF Checked, FeedInv, SocketsHold, SocketsInv
  <1>3. f.entry \in Reading /\ f.who \in Access /\ Exists(u) /\ u \in Users
        /\ Knows(f.entry, u, now)
    BY <1>2 DEF SocketHolds, Access, LetIn
  <1>4. cache' = [cache EXCEPT ![u] = entry] /\ Feed(d, Verdict(f, f.entry))
    BY DEF Checked, SweepVerdict
  <1>5. Sound'
    <2>1. CacheOK'
      BY <1>1, <1>3, <1>4, CacheFilled DEF FeedInv, SessionsInv
    <2> QED BY <1>1, <2>1, UntouchedStays DEF Sound, FeedInv, SessionsInv
  <1>6. AccountsMove
    BY <1>1 DEF AccountsMove, Exists
  <1>7. ReadingsHold'
    <2>1. entry.readAt = now /\ entry.status = f.entry.status /\ entry.revokedAt = f.entry.revokedAt
      BY DEF Entry
    <2>2. \A v \in Users : cache'[v] = IF v = u THEN entry ELSE cache[v]
      BY <1>4 DEF FeedInv, SessionsInv, Sound, CacheOK
    <2>3. now \in Int /\ now <= now
      BY <1>3, AccountTimes DEF FeedInv, SessionsInv
    <2> HIDE DEF entry
    <2>4. ASSUME NEW v \in Users, cache'[v] # NoRow
          PROVE  (cache[v].readAt <= now /\ Knows(cache[v], v, cache[v].readAt))'
      <3>1. CASE v = u
        BY <1>1, <1>3, <2>1, <2>2, <2>3, <3>1 DEF Knows
      <3>2. CASE v # u
        BY <1>1, <2>2, <2>4, <3>2 DEF Knows, FeedInv, SessionsInv, ReadingsHold
      <3> QED BY <3>1, <3>2
    <2> QED BY <1>1, <2>4 DEF ReadingsHold, Knows, FeedInv, SessionsInv
  <1>8. SessionsInv'
    BY <1>1, <1>5, <1>7 DEF FeedInv, SessionsInv, ServedInTime
  <1>9. SocketHolds(feed[d])'
    <2>1. feed'[d] = Verdict(f, f.entry)
      BY <1>2, <1>4 DEF Feed
    <2>2. now \in Int /\ now <= now /\ now - now < CacheTicks
      BY <1>3, AccountTimes, SessionsAssumption DEF FeedInv, SessionsInv
    <2> QED BY <1>1, <1>2, <1>3, <2>1, <2>2, VerdictHolds DEF FeedInv, SessionsInv
  <1> QED BY <1>1, <1>4, <1>6, <1>8, <1>9, OtherSockets DEF FeedInv

\* A step of the sessions beside sockets that stay, close or connect.
LEMMA BesideSockets ==
  ASSUME FeedInv, [Next]_vars, UNCHANGED now,
         \A d \in Devices : feed'[d].at \notin LetIn \/ Same(feed'[d], feed[d])
  PROVE  SessionsInv' /\ SocketsHold'
  <1>1. SessionsInv' /\ AccountsMove
    BY SessionsStep, AccountsMoveOn DEF FeedInv, SessionsInv
  <1>2. ASSUME NEW d \in Devices PROVE SocketHolds(feed[d])'
    BY <1>1, NotLetIn, SocketStays DEF FeedInv, SessionsInv, SocketsHold
  <1> QED BY <1>1, <1>2 DEF SocketsHold

LEMMA TickHolds ==
  ASSUME FeedInv, Tick, Timely, UNCHANGED feed
  PROVE  SessionsInv' /\ SocketsHold'
  <1>1. SessionsInv' /\ UNCHANGED user /\ now' = now + 1
    BY SessionsStep DEF FeedInv, Tick, Next, rows
  <1>2. ASSUME NEW d \in Devices PROVE SocketHolds(feed[d])'
    <2> DEFINE f == feed[d]
    <2>1. SocketHolds(f) /\ f.at \notin {"checking", "rechecking"}
      BY DEF FeedInv, SocketsHold, Timely
    <2>2. CASE f.at \notin LetIn
      BY <2>2, NotLetIn
    <2>3. CASE f.at = "open"
      <3>1. /\ f.who \in Access /\ Exists(f.who.user) /\ f.checked \in Nat /\ f.checked <= now
            /\ CutOffAfter(f.who, f.checked - CacheTicks)
        BY <2>1, <2>3 DEF SocketHolds, LetIn
      <3>2. now - f.checked < SweepTicks
        BY <2>3 DEF Timely
      <3>3. now \in Nat /\ SweepTicks \in Nat
        BY SocketsAssumption DEF FeedInv, SessionsInv, Sound, AccountsOK
      <3>4. f.checked <= now' /\ now' - f.checked <= SweepTicks
        BY <1>1, <3>1, <3>2, <3>3
      <3> QED BY <1>1, <2>3, <3>1, <3>4 DEF SocketHolds, LetIn, Exists, CutOffAfter
    <2> QED BY <2>1, <2>2, <2>3 DEF LetIn
  <1> QED BY <1>1, <1>2 DEF SocketsHold

LEMMA TimerHolds ==
  ASSUME FeedInv, NEW c \in Calls, NEW d \in Devices, TimerFires(c, d)
  PROVE  SessionsInv' /\ SocketsHold'
  <1> DEFINE next == [feed[d] EXCEPT !.timer = "refreshing"]
  <1>1. UNCHANGED vars \/ Renew(c, d)
    BY DEF TimerFires
  <1>2. UNCHANGED now /\ SessionsInv' /\ AccountsMove
    <2>1. CASE UNCHANGED vars
      BY <2>1, Still DEF FeedInv
    <2>2. CASE Renew(c, d)
      <3>1. UNCHANGED <<now, lag, user, cache>> /\ Sound'
        BY <2>2, RenewSound DEF Renew, Begin, rows, FeedInv, SessionsInv
      <3>2. AccountsMove
        BY <3>1 DEF AccountsMove, Exists
      <3>3. \A e \in Calls : call'[e].at = "fill" => call'[e] = call[e]
        <4>1. call'[c] = RefreshPlan(d) /\ \A e \in Calls : e # c => call'[e] = call[e]
          BY <2>2, OnlyThis DEF Renew, Begin, FeedInv, SessionsInv
        <4>2. RefreshPlan(d).at \in {"insert", "refuse", "reuse"}
          BY DEF RefreshPlan
        <4> QED BY <4>1, <4>2
      <3>4. ReadingsHold'
        BY <3>1, <3>3 DEF FeedInv, SessionsInv, ReadingsHold, Knows
      <3> QED BY <3>1, <3>2, <3>4 DEF FeedInv, SessionsInv, ServedInTime
    <2> QED BY <1>1, <2>1, <2>2
  <1>3. Feed(d, next) /\ feed'[d] = next /\ Same(next, feed[d])
    BY DEF TimerFires, Feed, FeedInv, SocketsInv, IsSocket, Fields, Same
  <1>4. SocketHolds(feed[d])'
    BY <1>2, <1>3, SocketStays DEF FeedInv, SessionsInv, SocketsHold
  <1> QED BY <1>2, <1>3, <1>4, OtherSockets DEF FeedInv

LEMMA OneChanges ==
  ASSUME FeedInv, [Next]_vars, UNCHANGED now, NEW d \in Devices, NEW next, Feed(d, next),
         next.at \notin LetIn \/ Same(next, feed[d])
  PROVE  SessionsInv' /\ SocketsHold'
  <1>1. \A e \in Devices : feed'[e].at \notin LetIn \/ Same(feed'[e], feed[e])
    BY DEF Feed, FeedInv, SocketsInv, Same
  <1> QED BY <1>1, BesideSockets

LEMMA DroppedSame ==
  ASSUME NEW f, IsSocket(f)
  PROVE  Dropped(f).at \notin LetIn /\ (f.at \notin LetIn => Dropped(f) = f)
  <1>1. Connecting(f).at = "connecting"
    BY DEF Connecting, IsSocket, Fields
  <1> QED BY <1>1 DEF Dropped, LetIn

LEMMA FeedHolds ==
  ASSUME FeedInv, [FeedNext]_feedVars
  PROVE  SessionsInv' /\ SocketsHold'
  <1>1. CASE UNCHANGED feedVars
    BY <1>1, BesideSockets DEF feedVars, vars, Same
  <1>2. CASE Tick /\ Timely /\ UNCHANGED feed
    BY <1>2, TickHolds
  <1>3. CASE Restart /\ feed' = [d \in Devices |-> Dropped(Follow(d))]
    <2>1. \A d \in Devices : feed'[d].at \notin LetIn
      BY <1>3, FollowSocket, DroppedSame DEF FeedInv
    <2> QED BY <1>3, <2>1, BesideSockets DEF Restart, Next
  <1>4. ASSUME Following, [Next]_vars, UNCHANGED now PROVE SessionsInv' /\ SocketsHold'
    <2>1. \A d \in Devices : feed'[d].at \notin LetIn \/ Same(feed'[d], feed[d])
      BY <1>4, FollowSame DEF Following, FeedInv
    <2> QED BY <1>4, <2>1, BesideSockets
  <1>5. ASSUME NEW d \in Devices, RequestHit(d) /\ UNCHANGED feed PROVE SessionsInv' /\ SocketsHold'
    BY <1>5, BesideSockets DEF RequestHit, Next, Same
  <1>6. ASSUME NEW d \in Devices, GiveUp(d) /\ Following PROVE SessionsInv' /\ SocketsHold'
    BY <1>4, <1>6 DEF GiveUp, Next
  <1>7. ASSUME NEW d \in Devices, Relaunch(d), Feed(d, Off(feed[d].kind))
        PROVE  SessionsInv' /\ SocketsHold'
    <2>1. Off(feed[d].kind).at = "closed"
      BY DEF Off
    <2> QED BY <1>7, <2>1, OneChanges DEF Relaunch, Next, LetIn
  <1>8. ASSUME NEW d \in Devices, Drop(d) PROVE SessionsInv' /\ SocketsHold'
    <2>1. Dropped(feed[d]).at \notin LetIn
      BY DroppedSame DEF FeedInv, SocketsInv
    <2>2. UNCHANGED vars /\ UNCHANGED now /\ Feed(d, Dropped(feed[d]))
      BY <1>8 DEF Drop, vars
    <2> QED BY <2>1, <2>2, OneChanges
  <1>9. ASSUME NEW c \in Calls, DeviceStep(c) \/ StaffStep(c), Following
        PROVE  SessionsInv' /\ SocketsHold'
    <2>1. Next
      BY <1>9 DEF Next
    <2>2. UNCHANGED now
      BY <1>9 DEF DeviceStep, StaffStep, LoginLoad, LoginRight, LoginWrong, LoginLock, RefreshLoad, Renew,
         LogoutLoad, RequestRead, RefreshRefuse, RotateInsert, RotateReplace, RevokeFamily, LogoutWrite,
         RequestFill, DeactivateLoad, ResendLoad, ForgotLoad, SetRoleLoad, Invite, ConsumeLoad, UpdateLoad,
         DeactivateWrite, RevokeTokens, Stamp, BurnLinks, SetRoleWrite, ResendBurn, CreateLink,
         ConsumeWrite, Walk, UpdateWrite, Begin, Continue
    <2> QED BY <1>4, <1>9, <2>1, <2>2
  <1> QED BY <1>1, <1>2, <1>3, <1>5, <1>6, <1>7, <1>8, <1>9, HandshakeHolds, SweepHolds, CheckedHolds,
             TimerHolds DEF FeedNext

LEMMA FeedInitially == Init /\ FeedInit => FeedInv
  <1> SUFFICES ASSUME Init, FeedInit PROVE FeedInv
    OBVIOUS
  <1>1. SessionsInv /\ SocketsInv
    BY SessionsInitially, SocketsInitially
  <1>2. \A d \in Devices : feed[d].at = "closed"
    BY DEF FeedInit, Off
  <1> QED BY <1>1, <1>2 DEF FeedInv, SocketsHold, SocketHolds, LetIn

LEMMA FeedStep == FeedInv /\ [FeedNext]_feedVars => FeedInv'
  BY SocketsStep, FeedHolds DEF FeedInv

\* presence.gateway.ts, sweepRevoked: an open socket ends less than a sweep and a cache lifetime
\* after its account left or was revoked, whatever its handshake and sweeps had read before.
THEOREM LeaversLoseTheFeed == FeedSpec => []SocketsAreCutOff
  <1>1. FeedInv => SocketsAreCutOff
    <2> SUFFICES ASSUME FeedInv, NEW d \in Devices, feed[d].at \in {"open", "rechecking"}
                 PROVE  Behind(feed[d].who.user, feed[d].who.iat) < CacheTicks + SweepTicks
      BY DEF SocketsAreCutOff
    <2> DEFINE f == feed[d]  u == f.who.user
    <2>1. /\ f.checked \in Nat /\ now - f.checked <= SweepTicks
          /\ CutOffAfter(f.who, f.checked - CacheTicks)
          /\ f.who \in Access /\ Exists(u)
      BY DEF FeedInv, SocketsHold, SocketHolds, LetIn
    <2>2. u \in Users /\ Sound
      BY <2>1 DEF Access, FeedInv, SessionsInv
    <2>3. CacheTicks \in Nat /\ CacheTicks > 0 /\ SweepTicks \in Nat
      BY SessionsAssumption, SocketsAssumption
    <2>4. CASE user[u].status # "ACTIVE"
      BY <2>1, <2>2, <2>3, <2>4, AccountTimes DEF CutOffAfter, Behind
    <2>5. CASE user[u].status = "ACTIVE" /\ user[u].revokedAt > f.who.iat
      BY <2>1, <2>2, <2>3, <2>5, AccountTimes DEF CutOffAfter, Behind
    <2>6. CASE user[u].status = "ACTIVE" /\ ~ (user[u].revokedAt > f.who.iat)
      BY <2>3, <2>6 DEF Behind
    <2> QED BY <2>4, <2>5, <2>6
  <1> QED BY <1>1, FeedInitially, FeedStep, PTL DEF FeedSpec

-----------------------------------------------------------------------------
\* Managers.  What a walk up the chain has found, and what one that ended has.
Editing(c) == call[c].at \in {"walk", "assign"}
OneEditor == \A c, e \in Calls : Editing(c) /\ Editing(e) => c = e
Walks(k) ==
  LET passed == k.seen \ {k.user}
  IN /\ k.user \in k.seen /\ k.boss # k.user /\ k.boss \in k.seen \cup {k.current}
     /\ \A x \in passed : manager[x] \in passed \cup {k.current}
Walked(k) ==
  \E chain \in SUBSET Users :
    /\ k.boss \in chain /\ k.user \notin chain
    /\ \A x \in chain : manager[x] \in chain \cup {None}
ChainsRead ==
  \A c \in Calls : /\ call[c].at = "walk" => Walks(call[c])
                   /\ call[c].at = "assign" => Walked(call[c])
ManagersInv == ManagersFormTree /\ ChainsRead

LEMMA ManagerMoves ==
  ASSUME [Next]_vars
  PROVE  UNCHANGED manager \/ \E c \in Calls : UpdateWrite(c)
  <1>1. CASE UNCHANGED vars \/ Tick \/ Restart \/ \E d \in Devices : RequestHit(d) \/ GiveUp(d) \/ Relaunch(d)
    BY <1>1 DEF vars, rows, Tick, Restart, RequestHit, GiveUp, Relaunch
  <1>2. ASSUME NEW c \in Calls, DeviceStep(c) PROVE UNCHANGED manager
    BY <1>2 DEF DeviceStep, LoginLoad, LoginRight, LoginWrong, LoginLock, RefreshLoad, Renew, LogoutLoad,
       RequestRead, RefreshRefuse, RotateInsert, RotateReplace, RevokeFamily, LogoutWrite, RequestFill, rows
  <1>3. ASSUME NEW c \in Calls, StaffStep(c), ~ UpdateWrite(c) PROVE UNCHANGED manager
    BY <1>3 DEF StaffStep, DeactivateLoad, ResendLoad, ForgotLoad, SetRoleLoad, Invite, ConsumeLoad,
       UpdateLoad, DeactivateWrite, RevokeTokens, Stamp, BurnLinks, SetRoleWrite, ResendBurn, CreateLink,
       ConsumeWrite, Walk, rows
  <1> QED BY <1>1, <1>2, <1>3 DEF Next

\* A chain that ends above the new manager, without the employee, admits the new manager.
LEMMA ChainAdmits ==
  ASSUME Sound, ManagersFormTree, NEW c \in Calls, UpdateWrite(c), Walked(call[c])
  PROVE  ManagersFormTree'
  <1> DEFINE u == call[c].user  m == call[c].boss
  <1>1. u \in Users /\ m \in Users
    BY CallShapes DEF UpdateWrite, Continue, Sound, CallsOK
  <1>2. manager' = [manager EXCEPT ![u] = m] /\ manager \in [Users -> Users \cup {None}]
    BY DEF UpdateWrite, Sound, AccountsOK
  <1>3. PICK chain \in SUBSET Users : /\ m \in chain /\ u \notin chain
                                      /\ \A x \in chain : manager[x] \in chain \cup {None}
    BY DEF Walked
  <1> SUFFICES ASSUME NEW S \in (SUBSET Users) \ {{}}, \A x \in S : manager'[x] \in S PROVE FALSE
    BY DEF ManagersFormTree
  <1>4. \A x \in Users : x # u => manager'[x] = manager[x]
    BY <1>2
  <1>5. CASE u \notin S
    <2>1. \A x \in S : manager[x] \in S
      BY <1>4, <1>5
    <2> QED BY <2>1 DEF ManagersFormTree
  <1>6. CASE u \in S
    <2>1. m \in S
      BY <1>1, <1>2, <1>6
    <2>2. S \cap chain \in (SUBSET Users) \ {{}}
      BY <1>3, <2>1
    <2>3. ASSUME NEW x \in S \cap chain PROVE manager[x] \in S \cap chain
      <3>1. manager[x] = manager'[x]
        BY <1>3, <1>4, <2>3
      <3>2. manager[x] \in S /\ manager[x] # None
        BY <3>1, SessionsAssumption
      <3> QED BY <1>3, <3>2
    <2> QED BY <2>2, <2>3 DEF ManagersFormTree
  <1> QED BY <1>5, <1>6

LEMMA WalkReads ==
  ASSUME Sound, ChainsRead, NEW c \in Calls, Walk(c)
  PROVE  /\ call'[c].at = "walk" => Walks(call[c])'
         /\ call'[c].at = "assign" => Walked(call[c])'
  <1> DEFINE k == call[c]
             passed == k.seen \ {k.user}
             done == [at |-> "assign", user |-> k.user, boss |-> k.boss]
             on == [k EXCEPT !.seen = k.seen \cup {k.current}, !.current = manager[k.current]]
  <1>1. k \in [at : {"walk"}, user : Users, boss : Users, current : Users, seen : SUBSET Users]
    BY CallShapes DEF Walk, Continue, Sound, CallsOK
  <1>2. Walks(k) /\ UNCHANGED manager /\ call'[c] = WalkOn(c)
    BY OnlyThis DEF Walk, Continue, ChainsRead, rows
  <1>3. CASE k.current \in k.seen
    BY <1>2, <1>3 DEF WalkOn, Idle
  <1>4. CASE k.current \notin k.seen /\ manager[k.current] = None
    <2> DEFINE chain == passed \cup {k.current}
    <2>1. call'[c] = done
      BY <1>2, <1>4 DEF WalkOn
    <2>2. chain \in SUBSET Users
      BY <1>1
    <2>3. k.boss \in chain /\ k.user \notin chain
      BY <1>2, <1>4 DEF Walks
    <2>4. \A x \in chain : manager[x] \in chain \cup {None}
      BY <1>2, <1>4 DEF Walks
    <2>5. call'[c].boss = k.boss /\ call'[c].user = k.user /\ call'[c].at = "assign"
      BY <2>1
    <2> HIDE DEF chain
    <2> QED BY <1>2, <2>2, <2>3, <2>4, <2>5 DEF Walked
  <1>5. CASE k.current \notin k.seen /\ manager[k.current] # None
    <2>1. call'[c] = on
      BY <1>2, <1>5 DEF WalkOn
    <2>2. on.at = "walk" /\ on.user = k.user /\ on.boss = k.boss /\ on.seen = k.seen \cup {k.current}
          /\ on.current = manager[k.current]
      BY <1>1
    <2> HIDE DEF on
    <2>3. Walks(call[c])'
      BY <1>2, <1>5, <2>1, <2>2 DEF Walks
    <2> QED BY <2>1, <2>2, <2>3
  <1> QED BY <1>3, <1>4, <1>5

LEMMA UpdateReads ==
  ASSUME Sound, NEW c \in Calls, NEW u \in Users, NEW m \in Users, UpdateLoad(c, u, m)
  PROVE  call'[c].at = "walk" /\ Walks(call[c])'
  <1>1. call'[c] = [at |-> "walk", user |-> u, boss |-> m, current |-> m, seen |-> {u}] /\ u # m
    BY OnlyThis DEF UpdateLoad, Begin
  <1> QED BY <1>1 DEF Walks

LEMMA ChainsMove ==
  ASSUME Sound, ChainsRead, OneEditor, [Next]_vars, NEW c \in Calls
  PROVE  /\ call'[c].at = "walk" => Walks(call[c])'
         /\ call'[c].at = "assign" => Walked(call[c])'
  <1>1. CASE call'[c] = call[c] /\ UNCHANGED manager
    BY <1>1 DEF ChainsRead, Walks, Walked
  <1>2. ASSUME NEW e \in Calls, UpdateWrite(e), call'[c] = call[c], Editing(c) PROVE FALSE
    <2>1. call[e].at = "assign" /\ call'[e] = Idle
      BY <1>2, OnlyThis DEF UpdateWrite, Continue
    <2> QED BY <1>2, <2>1 DEF OneEditor, Editing, Idle
  <1>3. CASE call'[c] = call[c]
    BY <1>1, <1>2, <1>3, ManagerMoves DEF Editing
  <1>4. CASE RotateInsert(c)
    <2>1. PICK t : call'[c] = [at |-> "replace", d |-> call[c].d, user |-> call[c].user,
                               from |-> call[c].from, family |-> call[c].family, new |-> t]
      BY <1>4, RotateInsertSound
    <2> QED BY <2>1
  <1>5. ASSUME NEW d \in Devices, Renew(c, d) PROVE call'[c].at \in {"insert", "refuse", "reuse"}
    BY <1>5, OnlyThis DEF Renew, Begin, RefreshPlan
  <1>6. ASSUME NEW d \in Devices, RequestRead(c, d) PROVE call'[c].at = "fill"
    BY <1>6, OnlyThis DEF RequestRead, Begin
  <1>7. MovesOn(c)
    BY CallsMoveOn DEF CallsMove
  <1> QED BY <1>3, <1>4, <1>5, <1>6, <1>7, WalkReads, UpdateReads DEF MovesOn, Tracked

LEMMA ManagersStep == Sound /\ ManagersInv /\ OneEditor /\ [Next]_vars => ManagersInv'
  <1> SUFFICES ASSUME Sound, ManagersInv, OneEditor, [Next]_vars PROVE ManagersInv'
    OBVIOUS
  <1>1. ChainsRead'
    BY ChainsMove DEF ManagersInv, ChainsRead
  <1>2. CASE UNCHANGED manager
    BY <1>1, <1>2 DEF ManagersInv, ManagersFormTree
  <1>3. ASSUME NEW c \in Calls, UpdateWrite(c) PROVE ManagersFormTree'
    <2>1. Walked(call[c])
      BY <1>3 DEF UpdateWrite, Continue, ManagersInv, ChainsRead
    <2> QED BY <1>3, <2>1, ChainAdmits DEF ManagersInv
  <1> QED BY <1>1, <1>2, <1>3, ManagerMoves DEF ManagersInv

LEMMA ManagersInitially == Init => ManagersInv
  <1> SUFFICES ASSUME Init PROVE ManagersInv
    OBVIOUS
  <1>1. ChainsRead
    BY DEF Init, ChainsRead, Idle
  <1>2. ManagersFormTree
    <2>1. ASSUME NEW S \in SUBSET Users, S # {} PROVE \E u \in S : manager[u] \notin S
      <3>1. PICK u \in S : TRUE
        BY <2>1
      <3>2. manager[u] = None
        BY DEF Init
      <3> QED BY <3>1, <3>2, SessionsAssumption
    <2> QED BY <2>1 DEF ManagersFormTree
  <1> QED BY <1>1, <1>2 DEF ManagersInv

\* assertNoManagerCycle: as long as two changes of a manager do not overlap, the walk up the chain
\* row by row keeps everybody's chain of managers free of cycles.
THEOREM ManagersStayTree == Spec /\ []OneEditor => []ManagersFormTree
  <1>1. ManagersInv => ManagersFormTree
    BY DEF ManagersInv
  <1>2. Init => Sound
    BY SoundInitially
  <1>3. Sound /\ [Next]_vars => Sound'
    BY NextSound
  <1> QED BY <1>1, <1>2, <1>3, ManagersInitially, ManagersStep, PTL DEF Spec

-----------------------------------------------------------------------------
\* A lost answer.  The tokens a device may come back with are its cookie and what replaced it; a
\* rotation of the cookie was lost once, one of what replaced it twice.
Holds(d, t) == device[d].cookie # None /\ t \in {device[d].cookie, token[device[d].cookie].next}
Lost(d, c, n) == device[d].losses >= n \/ (device[d].losses >= n - 1 /\ device[d].waits = c)
Rotating(c) == call[c].at \in {"insert", "replace"}
Successor(d) == token[device[d].cookie].next
LossesCounted ==
  \A d \in Devices : device[d].cookie # None /\ Successor(d) # None =>
    /\ device[d].losses > 0
    /\ token[Successor(d)] # NoRow /\ Successor(d) # device[d].cookie
    /\ token[Successor(d)].next # None => device[d].losses > 1
Separate ==
  \A d, e \in Devices : \A t \in Tokens : Holds(d, t) /\ Holds(e, t) => d = e
RotationCounted(c) ==
  LET d == call[c].d
      from == call[c].from
  IN /\ \A e \in Devices : Holds(e, from) => e = d
     /\ device[d].cookie # None =>
          /\ from = device[d].cookie => Lost(d, c, 1)
          /\ from = Successor(d) => Lost(d, c, 2)
Private(c) ==
  LET new == call[c].new
  IN /\ \A d \in Devices : ~ Holds(d, new)
     /\ token[new].next = None
     /\ \A e \in Calls : Rotating(e) => call[e].from # new
     /\ \A e \in Calls : e # c /\ call[e].at = "replace" => call[e].new # new
CallCounted(c) ==
  /\ Rotating(c) => RotationCounted(c)
  /\ call[c].at = "replace" => Private(c)
  /\ call[c].at = "reuse" => call[c].excused
TokensInv == LossesCounted /\ Separate /\ \A c \in Calls : CallCounted(c)

\* Tokens may be revoked, sessions may end, answers may be lost and calls may end.
CalmTokens ==
  \A t \in Tokens : token'[t].next = token[t].next /\ (token[t] # NoRow => token'[t] # NoRow)
CalmDevice(d) ==
  \/ device'[d].cookie = None
  \/ /\ device'[d].cookie = device[d].cookie /\ device'[d].losses >= device[d].losses
     /\ \A c \in Calls : \A n \in {1, 2} :
          Lost(d, c, n) => \/ device'[d].losses >= n
                           \/ device'[d].losses >= n - 1 /\ device'[d].waits = c
CalmCall(c) == call'[c].at \in {"insert", "replace", "reuse"} => call'[c] = call[c]
Calm ==
  /\ CalmTokens
  /\ \A d \in Devices : CalmDevice(d)
  /\ \A c \in Calls : CalmCall(c)

LEMMA SuccessorToken ==
  ASSUME Sound, NEW d \in Devices, device[d].cookie # None
  PROVE  /\ device[d].cookie \in Tokens /\ token[device[d].cookie] \in RefreshToken
         /\ device[d].losses \in Nat
         /\ Successor(d) \in Tokens \cup {None}
  BY DEF Sound, DevicesOK, TablesOK, Session, RefreshToken, Successor

LEMMA RotatingCall ==
  ASSUME Sound, NEW c \in Calls, Rotating(c)
  PROVE  /\ call[c].d \in Devices /\ call[c].from \in Tokens /\ token[call[c].from] # NoRow
         /\ call[c].user \in Users /\ call[c].family \in Tokens /\ Exists(call[c].user)
         /\ call[c].at = "replace" => call[c].new \in Tokens /\ token[call[c].new] # NoRow
  BY CallShapes DEF Sound, CallsOK, References, Rotating, Anonymous

LEMMA CalmKeeps ==
  ASSUME Sound, Sound', TokensInv, Calm
  PROVE  TokensInv'
  <1>1. ASSUME NEW d \in Devices, device'[d].cookie # None
        PROVE  /\ device[d].cookie # None /\ device'[d].cookie = device[d].cookie
               /\ Successor(d)' = Successor(d) /\ Successor(d) \in Tokens \cup {None}
               /\ device[d].cookie \in Tokens
               /\ device'[d].losses \in Nat /\ device[d].losses \in Nat
               /\ device'[d].losses >= device[d].losses
    <2>1. device'[d].cookie = device[d].cookie /\ device'[d].losses >= device[d].losses
      BY <1>1 DEF Calm, CalmDevice
    <2>2. device[d].cookie \in Tokens /\ Successor(d) \in Tokens \cup {None} /\ device[d].losses \in Nat
      BY <1>1, <2>1, SuccessorToken
    <2>3. device'[d].losses \in Nat
      BY DEF Sound, DevicesOK, Session
    <2>4. Successor(d)' = Successor(d)
      BY <2>1, <2>2 DEF Calm, CalmTokens, Successor
    <2> QED
      BY <1>1, <2>1, <2>2, <2>3, <2>4
  <1>2. ASSUME NEW d \in Devices, NEW t, Holds(d, t)' PROVE Holds(d, t)
    BY <1>1, <1>2 DEF Holds, Successor
  <1>3. LossesCounted'
    <2> SUFFICES ASSUME NEW d \in Devices, device'[d].cookie # None, Successor(d)' # None
                 PROVE  /\ device'[d].losses > 0
                        /\ token'[Successor(d)'] # NoRow /\ Successor(d)' # device'[d].cookie
                        /\ token'[Successor(d)'].next # None => device'[d].losses > 1
      BY DEF LossesCounted
    <2>1. Successor(d) \in Tokens /\ Successor(d)' = Successor(d)
      BY <1>1
    <2>2. /\ device[d].losses > 0
          /\ token[Successor(d)] # NoRow /\ Successor(d) # device[d].cookie
          /\ token[Successor(d)].next # None => device[d].losses > 1
      BY <1>1, <2>1 DEF TokensInv, LossesCounted
    <2>3. token'[Successor(d)].next = token[Successor(d)].next /\ token'[Successor(d)] # NoRow
      BY <2>1, <2>2 DEF Calm, CalmTokens
    <2> QED
      BY <1>1, <2>1, <2>2, <2>3
  <1>4. Separate'
    BY <1>2 DEF TokensInv, Separate
  <1>5. ASSUME NEW c \in Calls PROVE CallCounted(c)'
    <2>1. CallCounted(c) /\ CalmCall(c)
      BY DEF TokensInv, Calm
    <2>2. ASSUME Rotating(c)' PROVE RotationCounted(c)'
      <3>1. call'[c] = call[c] /\ Rotating(c)
        BY <2>1, <2>2 DEF CalmCall, Rotating
      <3> DEFINE d == call[c].d
      <3>2. d \in Devices /\ RotationCounted(c)
        BY <2>1, <3>1, RotatingCall DEF CallCounted
      <3>3. ASSUME NEW e \in Devices, NEW t, t = call[c].from, Holds(e, t)'
            PROVE  e = call[c].d
        BY <1>2, <3>2, <3>3 DEF RotationCounted
      <3>4. /\ device'[d].cookie # None /\ Lost(d, c, 1) =>
                 device'[d].losses >= 1 \/ (device'[d].losses >= 0 /\ device'[d].waits = c)
            /\ device'[d].cookie # None /\ Lost(d, c, 2) =>
                 device'[d].losses >= 2 \/ (device'[d].losses >= 1 /\ device'[d].waits = c)
        BY <3>2 DEF Calm, CalmDevice
      <3>5. ASSUME device'[d].cookie # None
            PROVE  /\ call[c].from = device'[d].cookie
                        => device'[d].losses >= 1 \/ (device'[d].losses >= 0 /\ device'[d].waits = c)
                   /\ call[c].from = token'[device'[d].cookie].next
                        => device'[d].losses >= 2 \/ (device'[d].losses >= 1 /\ device'[d].waits = c)
        <4>1. device[d].cookie # None /\ device'[d].cookie = device[d].cookie
              /\ token'[device'[d].cookie].next = Successor(d)
          BY <3>2, <3>5, <1>1 DEF Successor
        <4>2. /\ call[c].from = device[d].cookie => Lost(d, c, 1)
              /\ call[c].from = Successor(d) => Lost(d, c, 2)
          BY <3>2, <4>1 DEF RotationCounted
        <4> QED
          BY <3>4, <3>5, <4>1, <4>2
      <3> QED
        BY <3>1, <3>3, <3>5 DEF RotationCounted, Lost, Holds, Successor
    <2>3. ASSUME call'[c].at = "replace" PROVE Private(c)'
      <3>1. call'[c] = call[c] /\ Rotating(c)
        BY <2>1, <2>3 DEF CalmCall, Rotating
      <3> DEFINE new == call[c].new
      <3>2. new \in Tokens /\ Private(c)
        BY <2>1, <2>3, <3>1, RotatingCall DEF CallCounted
      <3>3. ASSUME NEW d \in Devices, NEW t, t = call[c].new PROVE ~ Holds(d, t)'
        BY <1>2, <3>2, <3>3 DEF Private
      <3>4. token'[new].next = None
        BY <3>2 DEF Private, Calm, CalmTokens
      <3>5. \A e \in Calls : Rotating(e)' => call'[e].from # new
        BY <3>2 DEF Private, Calm, CalmCall, Rotating
      <3>6. \A e \in Calls : e # c /\ call'[e].at = "replace" => call'[e].new # new
        BY <3>2 DEF Private, Calm, CalmCall
      <3> QED
        BY <3>1, <3>3, <3>4, <3>5, <3>6 DEF Private, Holds, Rotating
    <2>4. call'[c].at = "reuse" => call'[c].excused
      BY <2>1 DEF CallCounted, CalmCall
    <2> QED
      BY <2>2, <2>3, <2>4 DEF CallCounted
  <1> QED
    BY <1>3, <1>4, <1>5 DEF TokensInv

LEMMA NoTokenIsNone == None \notin Tokens /\ None \notin Calls
  BY SessionsAssumption

\* A device asks for a new token.
LEMMA RenewCounted ==
  ASSUME Sound, TokensInv, NEW c \in Calls, NEW d \in Devices, Renew(c, d)
  PROVE  TokensInv'
  <1> DEFINE t == device[d].cookie  next == RefreshPlan(d)
  <1>1. /\ t # None /\ device[d].waits = None /\ UNCHANGED token
        /\ call'[c] = next /\ \A e \in Calls : e # c => call'[e] = call[e]
    BY OnlyThis DEF Renew, Begin, rows
  <1>2. ASSUME NEW e \in Devices
        PROVE  /\ device'[e].cookie = device[e].cookie /\ device'[e].losses = device[e].losses
               /\ device'[e].waits = IF e = d THEN c ELSE device[e].waits
    BY DEF Renew, Send, Sound, DevicesOK, Session
  <1>3. t \in Tokens /\ token[t] \in RefreshToken /\ device[d].losses \in Nat
        /\ Successor(d) \in Tokens \cup {None} /\ Successor(d) = token[t].next
    BY <1>1, SuccessorToken DEF Successor
  <1>4. \A e \in Devices : \A x : Holds(e, x)' <=> Holds(e, x)
    BY <1>1, <1>2 DEF Holds
  <1>5. LossesCounted'
    BY <1>1, <1>2 DEF TokensInv, LossesCounted, Successor
  <1>6. Separate'
    BY <1>4 DEF TokensInv, Separate
  <1>7. next.at \in {"insert", "refuse", "reuse"}
        /\ (next.at = "insert" => next.d = d /\ next.from \in {t, token[t].next} /\ next.from \in Tokens
                                  /\ (next.from # t => token[t].next # None))
    <2>1. InGrace(t) => token[t].next # None
      BY DEF InGrace
    <2> QED
      BY <1>3, <2>1, NoTokenIsNone DEF RefreshPlan
  <1>8. next.at = "reuse" => next.excused
    <2> DEFINE late == now - token[t].revokedAt >= GraceTicks
               excuse == device[d].losses > 1 \/ late \/ Ended(t)
    <2> SUFFICES ASSUME next.at = "reuse", ~ excuse PROVE FALSE
      <3>1. next.at = "reuse" => next.excused = excuse
        BY DEF RefreshPlan
      <3> HIDE DEF excuse, next
      <3> QED
        BY <3>1
    <2>1. ~ Live(t) /\ ~ InGrace(t)
      BY DEF RefreshPlan
    <2>2. now - token[t].revokedAt < GraceTicks
      BY <1>3, SessionsAssumption DEF RefreshToken, Sound, AccountsOK
    <2>3. CASE token[t].next = None
      BY <2>3 DEF Ended
    <2>4. CASE token[t].next # None
      <3>1. ~ Live(token[t].next)
        BY <2>1, <2>2, <2>4 DEF InGrace
      <3>2. token[token[t].next].next # None => device[d].losses > 1
        BY <1>1, <1>3, <2>4 DEF TokensInv, LossesCounted
      <3> QED
        BY <1>3, <3>1, <3>2 DEF Ended
    <2> QED
      BY <2>3, <2>4
  <1> HIDE DEF next
  <1>9. ASSUME NEW e \in Calls, e # c PROVE CallCounted(e)'
    <2>1. call'[e] = call[e] /\ CallCounted(e)
      BY <1>1, <1>9 DEF TokensInv
    <2>2. ASSUME Rotating(e) PROVE RotationCounted(e)'
      <3>1. call[e].d \in Devices /\ RotationCounted(e)
        BY <2>1, <2>2, RotatingCall DEF CallCounted
      <3>2. device[call[e].d].waits = e => device'[call[e].d].waits = e
        BY <1>1, <1>2, <3>1, NoTokenIsNone
      <3>3. ASSUME NEW g \in Devices, Holds(g, call[e].from)' PROVE g = call[e].d
        BY <1>1, <1>2, <2>1, <3>1, <3>3 DEF RotationCounted, Holds
      <3> QED
        BY <1>1, <1>2, <2>1, <3>1, <3>2, <3>3 DEF RotationCounted, Lost, Successor
    <2>3. ASSUME call[e].at = "replace" PROVE Private(e)'
      <3>1. Private(e) /\ call[e].new \in Tokens
        BY <2>1, <2>3, RotatingCall DEF CallCounted, Rotating
      <3>2. next.at = "insert" => next.from # call[e].new
        BY <1>1, <1>7, <3>1 DEF Private, Holds
      <3>3. \A g \in Devices : ~ Holds(g, call[e].new)'
        BY <1>1, <1>2, <2>1, <3>1 DEF Private, Holds
      <3>4. \A f \in Calls : Rotating(f)' => call'[f].from # call[e].new
        BY <1>1, <1>7, <3>1, <3>2 DEF Private, Rotating
      <3>5. \A f \in Calls : f # e /\ call'[f].at = "replace" => call'[f].new # call[e].new
        BY <1>1, <1>7, <3>1 DEF Private
      <3> QED
        BY <1>1, <2>1, <3>1, <3>3, <3>4, <3>5 DEF Private
    <2> QED
      BY <2>1, <2>2, <2>3 DEF CallCounted, Rotating
  <1>10. CallCounted(c)'
    <2>1. ASSUME next.at = "insert" PROVE RotationCounted(c)'
      <3>1. Holds(d, next.from) /\ next.from \in Tokens
        BY <1>1, <1>7, <2>1 DEF Holds
      <3>2. ASSUME NEW g \in Devices, NEW x, x = next.from, Holds(g, x)' PROVE g = d
        BY <1>4, <3>1, <3>2 DEF TokensInv, Separate
      <3>3. next.from = Successor(d) => device[d].losses >= 1
        BY <1>1, <1>3, <3>1, NoTokenIsNone DEF TokensInv, LossesCounted
      <3>4. device[d].losses >= 0
        BY <1>3
      <3> QED
        <4>1. call'[c].d = d /\ call'[c].from = next.from
          BY <1>1, <1>7, <2>1
        <4>2. \A g \in Devices : Holds(g, call[c].from)' => g = d
          BY <3>2, <4>1 DEF Holds
        <4>3. device'[d].waits = c /\ device'[d].losses >= 0 /\ device'[d].losses = device[d].losses
              /\ token'[device'[d].cookie].next = Successor(d)
          BY <1>1, <1>2, <3>4 DEF Successor
        <4> QED
          BY <3>3, <4>1, <4>2, <4>3 DEF RotationCounted, Lost, Successor
    <2> QED
      BY <1>1, <1>7, <1>8, <2>1 DEF CallCounted, Rotating
  <1> QED
    BY <1>5, <1>6, <1>9, <1>10 DEF TokensInv

\* A new row is no one's yet.
LEMMA FreshToken ==
  ASSUME Sound, TokensInv, NEW t \in Tokens, token[t] = NoRow
  PROVE  /\ \A d \in Devices : ~ Holds(d, t)
         /\ \A e \in Calls : Rotating(e) => call[e].from # t
         /\ \A e \in Calls : call[e].at = "replace" => call[e].new # t
  <1>1. ASSUME NEW d \in Devices, Holds(d, t) PROVE FALSE
    <2>1. device[d].cookie # None /\ token[device[d].cookie] # NoRow
      BY <1>1 DEF Holds, Sound, DevicesOK
    <2>2. Successor(d) # None => token[Successor(d)] # NoRow
      BY <1>1, <2>1 DEF TokensInv, LossesCounted
    <2> QED
      BY <1>1, <2>1, <2>2, NoTokenIsNone DEF Holds, Successor
  <1> QED
    BY <1>1, RotatingCall DEF Rotating

Appears(t) ==
  /\ t \in Tokens /\ token[t] = NoRow /\ token'[t] # NoRow /\ token'[t].next = None
  /\ \A s \in Tokens : s # t => token'[s] = token[s]
  /\ \A d \in Devices : device'[d] = device[d] \/ device'[d].cookie = t
  /\ \A d, e \in Devices : device'[d].cookie = t /\ device'[e].cookie = t => d = e

\* It is added, and perhaps given to a device: what others hold and rotate stays.
LEMMA TokenAppears ==
  ASSUME Sound, TokensInv, NEW t, Appears(t)
  PROVE  /\ LossesCounted' /\ Separate'
         /\ \A d \in Devices : \A x : Holds(d, x)' => Holds(d, x) \/ x \in {t, None}
         /\ \A c \in Calls : Rotating(c) /\ call'[c] = call[c] => RotationCounted(c)'
         /\ \A c \in Calls : Private(c) /\ call[c].at = "replace" =>
              token'[call[c].new].next = None /\ \A d \in Devices : \A x : x = call[c].new => ~ Holds(d, x)'
  <1>1. t \in Tokens /\ token[t] = NoRow /\ t # None
    BY NoTokenIsNone DEF Appears
  <1>2. ASSUME NEW d \in Devices, device'[d] = device[d], device[d].cookie # None
        PROVE  /\ device[d].cookie \in Tokens \ {t} /\ Successor(d)' = Successor(d)
               /\ Successor(d) \in (Tokens \ {t}) \cup {None}
               /\ Successor(d) # None => token'[Successor(d)] = token[Successor(d)]
    <2>1. device[d].cookie \in Tokens /\ Successor(d) \in Tokens \cup {None}
      BY <1>2, SuccessorToken
    <2>2. device[d].cookie # t /\ Successor(d) # t
      BY <1>1, <1>2, FreshToken DEF Holds, Successor
    <2>3. token'[device[d].cookie] = token[device[d].cookie]
      BY <2>1, <2>2 DEF Appears
    <2> QED
      BY <1>2, <2>1, <2>2, <2>3 DEF Appears, Successor
  <1>3. ASSUME NEW d \in Devices, device'[d].cookie = t
        PROVE  Successor(d)' = None /\ \A x : Holds(d, x)' => x \in {t, None}
    BY <1>3 DEF Appears, Holds, Successor
  <1>4. \A d \in Devices : device'[d] = device[d] \/ device'[d].cookie = t
    BY DEF Appears
  <1>5. ASSUME NEW d \in Devices, NEW x, Holds(d, x)'
        PROVE  (Holds(d, x) /\ device'[d] = device[d]) \/ (x \in {t, None} /\ device'[d].cookie = t)
    <2>1. CASE device'[d] = device[d]
      BY <1>2, <1>5, <2>1 DEF Holds, Successor
    <2>2. CASE device'[d].cookie = t
      BY <1>3, <1>5, <2>2
    <2> QED
      BY <1>4, <2>1, <2>2
  <1>6. LossesCounted'
    <2> SUFFICES ASSUME NEW d \in Devices, device'[d].cookie # None, Successor(d)' # None
                 PROVE  /\ device'[d].losses > 0
                        /\ token'[Successor(d)'] # NoRow /\ Successor(d)' # device'[d].cookie
                        /\ token'[Successor(d)'].next # None => device'[d].losses > 1
      BY DEF LossesCounted
    <2>1. device'[d] = device[d]
      BY <1>3, <1>4
    <2>2. Successor(d)' = Successor(d) /\ Successor(d) # None
          /\ token'[Successor(d)] = token[Successor(d)]
      BY <1>2, <2>1
    <2> QED
      BY <2>1, <2>2 DEF TokensInv, LossesCounted
  <1>7. Separate'
    <2> SUFFICES ASSUME NEW d \in Devices, NEW e \in Devices, NEW x \in Tokens,
                        Holds(d, x)', Holds(e, x)'
                 PROVE  d = e
      BY DEF Separate
    <2>1. x # None
      BY NoTokenIsNone
    <2>2. x = t => device'[d].cookie = t /\ device'[e].cookie = t
      BY <1>1, <1>5, FreshToken
    <2>3. x # t => Holds(d, x) /\ Holds(e, x)
      BY <1>5, <2>1
    <2> QED
      BY <2>2, <2>3 DEF TokensInv, Separate, Appears
  <1>8. ASSUME NEW c \in Calls, Rotating(c), call'[c] = call[c] PROVE RotationCounted(c)'
    <2> DEFINE d == call[c].d  from == call[c].from
    <2>1. d \in Devices /\ from \in Tokens /\ from \notin {t, None} /\ RotationCounted(c)
      BY <1>1, <1>8, RotatingCall, FreshToken, NoTokenIsNone DEF TokensInv, CallCounted
    <2>2. ASSUME NEW e \in Devices, NEW x, x = from, Holds(e, x)' PROVE e = d
      BY <1>5, <2>1, <2>2 DEF RotationCounted
    <2>3. device'[d].cookie = t => from # device'[d].cookie /\ from # token'[device'[d].cookie].next
      BY <1>3, <2>1 DEF Successor
    <2>4. device'[d] = device[d] /\ device[d].cookie # None =>
            /\ device[d].cookie # None
            /\ from = device'[d].cookie => Lost(d, c, 1)
            /\ from = token'[device'[d].cookie].next => Lost(d, c, 2)
      BY <1>2, <2>1 DEF RotationCounted, Successor
    <2>5. call'[c].d = d /\ call'[c].from = from
      BY <1>8
    <2>6. \A e \in Devices : Holds(e, call[c].from)' => e = d
      BY <2>2, <2>5 DEF Holds
    <2>7. device'[d] = device[d] \/ device'[d].cookie = t
      BY <1>4, <2>1
    <2> HIDE DEF d, from
    <2> QED
      BY <2>3, <2>4, <2>5, <2>6, <2>7 DEF RotationCounted, Lost, Successor, from
  <1>9. ASSUME NEW c \in Calls, Private(c), call[c].at = "replace"
        PROVE  token'[call[c].new].next = None /\ \A d \in Devices : \A x : x = call[c].new => ~ Holds(d, x)'
    <2>1. call[c].new \in Tokens /\ call[c].new \notin {t, None}
      BY <1>1, <1>9, RotatingCall, FreshToken, NoTokenIsNone DEF Rotating
    <2> QED
      BY <1>5, <1>9, <2>1 DEF Private, Appears
  <1> QED
    BY <1>5, <1>6, <1>7, <1>8, <1>9

\* A session begins with a new token.
LEMMA LoginRightCounted ==
  ASSUME Sound, TokensInv, NEW c \in Calls, LoginRight(c)
  PROVE  TokensInv'
  <1> DEFINE u == call[c].user  d == call[c].d
  <1>1. u \in Users /\ d \in Devices /\ call[c].at = "verify"
    BY CallShapes DEF LoginRight, Sound, CallsOK
  <1>2. PICK t \in Free(token) : /\ token' = [token EXCEPT ![t] = NewToken(u, t)]
                                 /\ Answer(d, c, Held(u, t))
    BY DEF LoginRight
  <1>3. t \in Tokens /\ token[t] = NoRow
    BY DEF Free, Sound, TablesOK
  <1>4. Appears(t)
    <2>1. token'[t] = NewToken(u, t) /\ \A s \in Tokens : s # t => token'[s] = token[s]
      BY <1>2, <1>3 DEF Sound, TablesOK
    <2>2. NewToken(u, t) # NoRow /\ NewToken(u, t).next = None
      BY <1>1, <1>3, NewTokenRow, RowsDiffer
    <2>3. \A e \in Devices : device'[e] = device[e] \/ (e = d /\ device'[e] = Held(u, t))
      BY <1>1, <1>2 DEF Answer, Sound, DevicesOK
    <2>4. Held(u, t).cookie = t
      BY <1>1, <1>3, HeldSession
    <2>5. \A e \in Devices : device[e].cookie # t
      BY <1>3, NoTokenIsNone DEF Sound, DevicesOK
    <2> QED
      BY <1>3, <2>1, <2>2, <2>3, <2>4, <2>5 DEF Appears
  <1>5. call'[c] = Idle /\ Idle.at = "idle" /\ \A e \in Calls : e # c => call'[e] = call[e]
    BY OnlyThis, CallOfInverse DEF LoginRight, Continue
  <1>6. ASSUME NEW e \in Calls, e # c PROVE CallCounted(e)'
    <2>1. call'[e] = call[e] /\ CallCounted(e)
      BY <1>5, <1>6 DEF TokensInv
    <2>2. Rotating(e) => RotationCounted(e)'
      BY <1>4, <2>1, TokenAppears
    <2>3. ASSUME call[e].at = "replace" PROVE Private(e)'
      <3>1. Private(e) /\ token'[call[e].new].next = None
            /\ \A g \in Devices : \A x : x = call[e].new => ~ Holds(g, x)'
        BY <1>4, <2>1, <2>3, TokenAppears DEF CallCounted
      <3>2. \A g \in Devices : ~ Holds(g, call[e].new)'
        BY <2>1, <3>1 DEF Holds
      <3> QED
        BY <1>5, <2>1, <3>1, <3>2 DEF Private, Rotating
    <2> QED
      BY <2>1, <2>2, <2>3 DEF CallCounted, Rotating
  <1>7. CallCounted(c)'
    BY <1>5 DEF CallCounted, Rotating
  <1> QED
    BY <1>4, <1>6, <1>7, TokenAppears DEF TokensInv

\* A rotation adds its new token.
LEMMA RotateInsertCounted ==
  ASSUME Sound, TokensInv, NEW c \in Calls, RotateInsert(c)
  PROVE  TokensInv'
  <1> DEFINE k == call[c]
             next(t) == [at |-> "replace", d |-> k.d, user |-> k.user, from |-> k.from,
                         family |-> k.family, new |-> t]
  <1>1. k.user \in Users /\ k.d \in Devices /\ k.family \in Tokens /\ k.from \in Tokens
        /\ k.at = "insert" /\ Rotating(c)
    BY RotatingCall DEF RotateInsert, Rotating
  <1>2. PICK t \in Free(token) : /\ token' = [token EXCEPT ![t] = NewToken(k.user, k.family)]
                                 /\ Continue(c, "insert", next(t))
    BY DEF RotateInsert
  <1>3. t \in Tokens /\ token[t] = NoRow /\ UNCHANGED device
    BY DEF Free, Sound, TablesOK, RotateInsert
  <1>4. Appears(t)
    <2>1. token'[t] = NewToken(k.user, k.family) /\ \A s \in Tokens : s # t => token'[s] = token[s]
      BY <1>2, <1>3 DEF Sound, TablesOK
    <2>2. NewToken(k.user, k.family) # NoRow /\ NewToken(k.user, k.family).next = None
      BY <1>1, NewTokenRow, RowsDiffer
    <2>3. \A e \in Devices : device[e].cookie # t
      BY <1>3, NoTokenIsNone DEF Sound, DevicesOK
    <2> QED
      BY <1>3, <2>1, <2>2, <2>3 DEF Appears
  <1>5. call'[c] = next(t) /\ \A e \in Calls : e # c => call'[e] = call[e]
    BY <1>2, OnlyThis DEF Continue
  <1>6. call'[c].at = "replace" /\ call'[c].d = k.d /\ call'[c].from = k.from /\ call'[c].new = t
    BY <1>5
  <1> HIDE DEF next
  <1>7. /\ \A d \in Devices : ~ Holds(d, t)
        /\ \A e \in Calls : Rotating(e) => call[e].from # t
        /\ \A e \in Calls : call[e].at = "replace" => call[e].new # t
    BY <1>3, FreshToken
  <1>8. ASSUME NEW d \in Devices, NEW x PROVE Holds(d, x)' <=> Holds(d, x)
    <2>1. device[d].cookie # None => device[d].cookie \in Tokens \ {t}
      BY <1>3 DEF Sound, DevicesOK, Session
    <2> QED
      BY <1>3, <1>4, <2>1 DEF Appears, Holds
  <1>9. ASSUME NEW e \in Calls, e # c PROVE CallCounted(e)'
    <2>1. call'[e] = call[e] /\ CallCounted(e)
      BY <1>5, <1>9 DEF TokensInv
    <2>2. Rotating(e) => RotationCounted(e)'
      BY <1>4, <2>1, TokenAppears
    <2>3. ASSUME call[e].at = "replace" PROVE Private(e)'
      <3>1. Private(e) /\ token'[call[e].new].next = None
            /\ \A g \in Devices : \A x : x = call[e].new => ~ Holds(g, x)'
        BY <1>4, <2>1, <2>3, TokenAppears DEF CallCounted
      <3>2. \A g \in Devices : ~ Holds(g, call[e].new)'
        BY <2>1, <3>1 DEF Holds
      <3>3. \A f \in Calls : Rotating(f)' => call'[f].from # call[e].new
        BY <1>1, <1>5, <1>6, <3>1 DEF Private, Rotating
      <3>4. \A f \in Calls : f # e /\ call'[f].at = "replace" => call'[f].new # call[e].new
        BY <1>5, <1>6, <1>7, <2>3, <3>1 DEF Private
      <3> QED
        BY <2>1, <3>1, <3>2, <3>3, <3>4 DEF Private
    <2> QED
      BY <2>1, <2>2, <2>3 DEF CallCounted, Rotating
  <1>10. CallCounted(c)'
    <2>1. RotationCounted(c)
      BY <1>1 DEF TokensInv, CallCounted
    <2>2. RotationCounted(c)'
      <3>1. ASSUME NEW e \in Devices, NEW x, x = k.from, Holds(e, x)' PROVE e = k.d
        BY <1>8, <2>1, <3>1 DEF RotationCounted
      <3>2. \A e \in Devices : Holds(e, call[c].from)' => e = k.d
        BY <1>6, <3>1 DEF Holds
      <3>3. device[k.d].cookie # None =>
              token'[device'[k.d].cookie].next = token[device[k.d].cookie].next
        <4>1. device[k.d].cookie # None => device[k.d].cookie \in Tokens \ {t}
          BY <1>1, <1>3 DEF Sound, DevicesOK, Session
        <4> QED
          BY <1>3, <1>4, <4>1 DEF Appears
      <3> QED
        BY <1>3, <1>6, <2>1, <3>2, <3>3 DEF RotationCounted, Lost, Successor
    <2>3. Private(c)'
      <3>1. ASSUME NEW d \in Devices, NEW x, x = t PROVE ~ Holds(d, x)'
        BY <1>7, <1>8, <3>1
      <3>2. \A d \in Devices : ~ Holds(d, call[c].new)'
        BY <1>6, <3>1 DEF Holds
      <3>3. token'[t].next = None
        BY <1>4 DEF Appears
      <3>4. \A e \in Calls : Rotating(e)' => call'[e].from # t
        BY <1>1, <1>5, <1>6, <1>7 DEF Rotating
      <3>5. \A e \in Calls : e # c /\ call'[e].at = "replace" => call'[e].new # t
        BY <1>5, <1>7
      <3> QED
        BY <1>6, <3>2, <3>3, <3>4, <3>5 DEF Private
    <2> QED
      BY <1>6, <2>2, <2>3 DEF CallCounted
  <1> QED
    BY <1>4, <1>9, <1>10, TokenAppears DEF TokensInv

\* A rotation puts its new token in place of the old one, and the device that waited gets it.
LEMMA RotateReplaceCounted ==
  ASSUME Sound, TokensInv, NEW c \in Calls, RotateReplace(c)
  PROVE  TokensInv'
  <1> DEFINE k == call[c]
  <1>1. /\ k.d \in Devices /\ k.user \in Users /\ k.from \in Tokens /\ k.new \in Tokens
        /\ k.at = "replace" /\ Rotating(c) /\ token[k.from] \in RefreshToken /\ token[k.new] # NoRow
    BY RotatingCall DEF RotateReplace, Continue, Rotating, Sound, TablesOK
  <1>2. call'[c] = Idle /\ Idle.at = "idle" /\ \A e \in Calls : e # c => call'[e] = call[e]
    BY OnlyThis, CallOfInverse DEF RotateReplace, Continue
  <1>3. Private(c) /\ RotationCounted(c)
    BY <1>1 DEF TokensInv, CallCounted
  <1>4. k.from # k.new
    BY <1>1, <1>3 DEF Private
  <1>5. /\ token'[k.from].next = k.new /\ token'[k.from] # NoRow
        /\ \A t \in Tokens : t # k.from => token'[t] = token[t]
    <2> DEFINE revoked == [token[k.from] EXCEPT !.revokedAt = now]
               row == [revoked EXCEPT !.next = k.new]
    <2>1. token' = [token EXCEPT ![k.from] = row]
      BY <1>1 DEF RotateReplace, Replace, Sound, TablesOK
    <2>2. revoked \in RefreshToken
      BY <1>1 DEF RefreshToken, Sound, AccountsOK
    <2> HIDE DEF revoked
    <2>3. row \in RefreshToken /\ row.next = k.new
      BY <1>1, <2>2 DEF RefreshToken
    <2> HIDE DEF row
    <2> QED
      BY <1>1, <2>1, <2>3, RowsDiffer DEF Sound, TablesOK
  <1>6. \A e \in Devices :
          \/ device'[e] = device[e] /\ ~ (e = k.d /\ device[e].waits = c)
          \/ e = k.d /\ device[e].waits = c /\ device'[e].cookie = k.new
    <2>1. Held(k.user, k.new).cookie = k.new
      BY <1>1, HeldSession
    <2> QED
      BY <1>1, <2>1 DEF RotateReplace, Answer, Sound, DevicesOK
  <1>7. k.new # None /\ k.from # None
    BY <1>1, NoTokenIsNone
  <1>8. ASSUME NEW e \in Devices, device'[e] # device[e]
        PROVE  e = k.d /\ device'[e].cookie = k.new /\ token'[k.new].next = None
    BY <1>1, <1>3, <1>4, <1>5, <1>6, <1>8 DEF Private
  <1>9. ASSUME NEW e \in Devices, device'[e] = device[e], device[e].cookie # None
        PROVE  /\ device[e].cookie \in Tokens \ {k.new} /\ Successor(e) \in (Tokens \ {k.new}) \cup {None}
               /\ token'[device[e].cookie].next =
                    IF device[e].cookie = k.from THEN k.new ELSE Successor(e)
               /\ k.from \in {device[e].cookie, Successor(e)} => e = k.d
    <2>1. device[e].cookie \in Tokens /\ Successor(e) \in Tokens \cup {None}
      BY <1>9, SuccessorToken
    <2>2. device[e].cookie # k.new /\ Successor(e) # k.new
      BY <1>3, <1>9 DEF Private, Holds, Successor
    <2>3. k.from \in {device[e].cookie, Successor(e)} => e = k.d
      BY <1>3, <1>9 DEF RotationCounted, Holds, Successor
    <2>4. token'[device[e].cookie].next = IF device[e].cookie = k.from THEN k.new ELSE Successor(e)
      BY <1>5, <2>1 DEF Successor
    <2> QED
      BY <2>1, <2>2, <2>3, <2>4
  <1>10. ASSUME NEW e \in Devices, NEW x, Holds(e, x)'
         PROVE  Holds(e, x) \/ (x \in {k.new, None} /\ e = k.d)
    <2>1. CASE device'[e] = device[e]
      <3>1. device[e].cookie # None /\ x \in {device[e].cookie, token'[device[e].cookie].next}
        BY <1>10, <2>1 DEF Holds
      <3> QED
        BY <1>9, <2>1, <3>1 DEF Holds, Successor
    <2>2. CASE device'[e] # device[e]
      BY <1>8, <1>10, <2>2 DEF Holds
    <2> QED
      BY <2>1, <2>2
  <1>11. LossesCounted'
    <2> SUFFICES ASSUME NEW e \in Devices, device'[e].cookie # None, Successor(e)' # None
                 PROVE  /\ device'[e].losses > 0
                        /\ token'[Successor(e)'] # NoRow /\ Successor(e)' # device'[e].cookie
                        /\ token'[Successor(e)'].next # None => device'[e].losses > 1
      BY DEF LossesCounted
    <2>1. device'[e] = device[e] /\ device[e].cookie # None
      BY <1>8 DEF Successor
    <2>2. device[e].losses \in Nat
      BY <2>1, SuccessorToken
    <2>3. CASE device[e].cookie = k.from
      <3>1. e = k.d /\ Successor(e)' = k.new /\ k.new # device[e].cookie
        BY <1>9, <2>1, <2>3 DEF Successor
      <3>2. device[e].waits # c
        BY <1>6, <1>9, <2>1, <3>1
      <3>3. device[e].losses >= 1
        BY <1>3, <2>1, <2>2, <2>3, <3>1, <3>2 DEF RotationCounted, Lost
      <3>4. token'[k.new] # NoRow /\ token'[k.new].next = None
        BY <1>1, <1>3, <1>4, <1>5 DEF Private
      <3> QED
        BY <2>1, <2>2, <3>1, <3>3, <3>4
    <2>4. CASE device[e].cookie # k.from
      <3>1. Successor(e)' = Successor(e) /\ Successor(e) # None /\ Successor(e) \in Tokens
        BY <1>9, <2>1, <2>4 DEF Successor
      <3>2. /\ device[e].losses > 0
            /\ token[Successor(e)] # NoRow /\ Successor(e) # device[e].cookie
            /\ token[Successor(e)].next # None => device[e].losses > 1
        BY <2>1, <3>1 DEF TokensInv, LossesCounted
      <3>3. CASE Successor(e) # k.from
        <4>1. token'[Successor(e)] = token[Successor(e)]
          BY <1>5, <3>1, <3>3
        <4> QED
          BY <2>1, <3>1, <3>2, <4>1
      <3>4. CASE Successor(e) = k.from
        <4>1. e = k.d
          BY <1>9, <2>1, <3>4
        <4>2. device[e].waits # c
          BY <1>6, <1>9, <2>1, <4>1
        <4>3. device[e].losses >= 2
          BY <1>3, <2>1, <2>2, <3>4, <4>1, <4>2 DEF RotationCounted, Lost
        <4> QED
          BY <1>5, <2>1, <2>2, <3>1, <3>2, <3>4, <4>3
      <3> QED
        BY <3>3, <3>4
    <2> QED
      BY <2>3, <2>4
  <1>12. Separate'
    <2> SUFFICES ASSUME NEW d \in Devices, NEW e \in Devices, NEW x \in Tokens,
                        Holds(d, x)', Holds(e, x)'
                 PROVE  d = e
      BY DEF Separate
    <2>1. x # None
      BY NoTokenIsNone
    <2>2. x = k.new => d = k.d /\ e = k.d
      BY <1>3, <1>10 DEF Private
    <2>3. x # k.new => Holds(d, x) /\ Holds(e, x)
      BY <1>10, <2>1
    <2> QED
      BY <2>2, <2>3 DEF TokensInv, Separate
  <1>13. ASSUME NEW e \in Calls, e # c PROVE CallCounted(e)'
    <2>1. call'[e] = call[e] /\ CallCounted(e)
      BY <1>2, <1>13 DEF TokensInv
    <2>2. ASSUME Rotating(e) PROVE RotationCounted(e)'
      <3> DEFINE g == call[e].d  from == call[e].from
      <3>1. g \in Devices /\ from \in Tokens /\ from # k.new /\ from # None /\ RotationCounted(e)
        BY <1>3, <2>1, <2>2, RotatingCall, NoTokenIsNone DEF CallCounted, Private
      <3>2. ASSUME NEW d \in Devices, NEW x, x = from, Holds(d, x)' PROVE d = g
        BY <1>10, <3>1, <3>2 DEF RotationCounted
      <3>3. \A d \in Devices : Holds(d, call[e].from)' => d = g
        BY <2>1, <3>2 DEF Holds
      <3>4. device'[g] # device[g] => from # device'[g].cookie /\ from # token'[device'[g].cookie].next
        BY <1>8, <3>1
      <3>5. device'[g] = device[g] /\ device[g].cookie # None =>
              /\ from = device'[g].cookie => Lost(g, e, 1)
              /\ from = token'[device'[g].cookie].next => Lost(g, e, 2)
        BY <1>9, <3>1 DEF RotationCounted
      <3>6. call'[e].d = g /\ call'[e].from = from
        BY <2>1
      <3> HIDE DEF g, from
      <3> QED
        BY <3>3, <3>4, <3>5, <3>6 DEF RotationCounted, Lost, Successor, from
    <2>3. ASSUME call[e].at = "replace" PROVE Private(e)'
      <3> DEFINE new == call[e].new
      <3>1. Private(e) /\ new \in Tokens /\ new # k.new /\ new # None /\ new # k.from
        BY <1>1, <1>3, <1>13, <2>1, <2>3, RotatingCall, NoTokenIsNone DEF CallCounted, Private, Rotating
      <3>2. ASSUME NEW d \in Devices, NEW x, x = new PROVE ~ Holds(d, x)'
        BY <1>10, <3>1, <3>2 DEF Private
      <3>3. \A d \in Devices : ~ Holds(d, call[e].new)'
        BY <2>1, <3>2 DEF Holds
      <3>4. token'[new].next = None
        BY <1>5, <3>1 DEF Private
      <3>5. call'[e].new = new
        BY <2>1
      <3> HIDE DEF new
      <3>6. \A f \in Calls : Rotating(f)' => call'[f].from # new
        BY <1>2, <3>1 DEF Private, Rotating, new
      <3>7. \A f \in Calls : f # e /\ call'[f].at = "replace" => call'[f].new # new
        BY <1>2, <3>1 DEF Private, new
      <3> QED
        BY <3>3, <3>4, <3>5, <3>6, <3>7 DEF Private
    <2> QED
      BY <2>1, <2>2, <2>3 DEF CallCounted, Rotating
  <1>14. CallCounted(c)'
    BY <1>2 DEF CallCounted, Rotating
  <1> QED
    BY <1>11, <1>12, <1>13, <1>14 DEF TokensInv

\* Every other step is calm.
LEMMA LossesKept ==
  ASSUME Sound, NEW d \in Devices,
         \/ device'[d] = device[d] \/ device'[d].cookie = None
         \/ device'[d] = [device[d] EXCEPT !.access = NoRow]
         \/ device'[d] = Lose(d)
  PROVE  CalmDevice(d)
  <1>1. device[d] \in Session /\ device[d].losses \in Nat
    BY DEF Sound, DevicesOK, Session
  <1>2. CASE device'[d] = [device[d] EXCEPT !.access = NoRow]
    <2>1. device'[d].cookie = device[d].cookie /\ device'[d].losses = device[d].losses
          /\ device'[d].waits = device[d].waits
      BY <1>1, <1>2 DEF Session
    <2> QED
      BY <1>1, <2>1 DEF CalmDevice, Lost
  <1>3. CASE device'[d] = Lose(d) /\ device[d].waits # None
    <2> DEFINE parted == [device[d] EXCEPT !.waits = None]
               losses == IF device[d].losses < MaxLosses THEN device[d].losses + 1
                         ELSE device[d].losses
    <2>1. device'[d] = [parted EXCEPT !.losses = losses]
      BY <1>1, <1>3 DEF Lose, Session
    <2>2. parted \in Session /\ parted.cookie = device[d].cookie
      BY <1>1 DEF Session
    <2>3. losses \in Nat /\ losses >= device[d].losses /\ (losses > device[d].losses \/ losses >= 2)
      BY <1>1, SessionsAssumption
    <2> HIDE DEF parted, losses
    <2>4. device'[d].cookie = device[d].cookie /\ device'[d].losses = losses
      BY <2>1, <2>2 DEF Session
    <2> QED
      BY <1>1, <2>3, <2>4 DEF CalmDevice, Lost
  <1>4. CASE device'[d] = Lose(d) /\ device[d].waits = None
    BY <1>1, <1>4 DEF Lose, CalmDevice, Lost
  <1> QED
    BY <1>1, <1>2, <1>3, <1>4 DEF CalmDevice, Lost

LEMMA NextKept ==
  ASSUME Sound, token' = [t \in Tokens |-> token'[t]],
         \A t \in Tokens : token'[t] # token[t] =>
           token[t] # NoRow /\ token'[t] = [token[t] EXCEPT !.revokedAt = now]
  PROVE  CalmTokens
  <1> SUFFICES ASSUME NEW t \in Tokens, token'[t] # token[t]
               PROVE  token'[t].next = token[t].next /\ token'[t] # NoRow
    BY DEF CalmTokens
  <1>1. token[t] \in RefreshToken /\ token'[t] = [token[t] EXCEPT !.revokedAt = now]
    BY DEF Sound, TablesOK
  <1> QED
    BY <1>1, RowsDiffer DEF RefreshToken, Sound, AccountsOK

Rotates == \E c \in Calls : \/ LoginRight(c) \/ RotateInsert(c) \/ RotateReplace(c)
                            \/ \E d \in Devices : Renew(c, d)

LEMMA DeviceStepsCalm ==
  ASSUME Sound, NEW c \in Calls, DeviceStep(c), ~ Rotates
  PROVE  CalmTokens /\ \A d \in Devices : CalmDevice(d)
  <1>1. ASSUME NEW d \in Devices, NEW u \in Users, NEW right \in BOOLEAN, LoginLoad(c, d, u, right)
        PROVE  UNCHANGED token /\ \A e \in Devices : CalmDevice(e)
    <2>1. \A e \in Devices : device'[e] = device[e] \/ device'[e].cookie = None
      BY <1>1 DEF LoginLoad, Send, Sound, DevicesOK, Session
    <2> QED
      BY <1>1, <2>1, LossesKept DEF LoginLoad, rows
  <1>2. ASSUME LoginWrong(c) \/ RefreshRefuse(c) \/ RevokeFamily(c)
        PROVE  CalmTokens /\ \A d \in Devices : CalmDevice(d)
    <2>1. Refuse(call[c].d, c) /\ call[c].d \in Devices
      BY <1>2, CallShapes DEF LoginWrong, RefreshRefuse, RevokeFamily, Continue, Sound, CallsOK
    <2>2. \A e \in Devices : device'[e] = device[e] \/ device'[e].cookie = None
      BY <2>1, SignedOutSession DEF Refuse, Answer, Sound, DevicesOK
    <2>3. /\ token' = [t \in Tokens |-> token'[t]]
          /\ \A t \in Tokens : token'[t] # token[t] =>
               token[t] # NoRow /\ token'[t] = [token[t] EXCEPT !.revokedAt = now]
      BY <1>2 DEF LoginWrong, RefreshRefuse, RevokeFamily, RevokeRows, Live, rows, Sound, TablesOK
    <2> QED
      BY <2>2, <2>3, LossesKept, NextKept
  <1>3. ASSUME NEW d \in Devices, LogoutLoad(c, d)
        PROVE  UNCHANGED token /\ \A e \in Devices : CalmDevice(e)
    <2>1. \A e \in Devices : device'[e] = device[e] \/ device'[e].cookie = None
      BY <1>3, SignedOutSession DEF LogoutLoad, Sound, DevicesOK
    <2> QED
      BY <1>3, <2>1, LossesKept DEF LogoutLoad, rows
  <1>4. ASSUME LogoutWrite(c) PROVE CalmTokens /\ UNCHANGED device
    <2>1. call[c].t \in Tokens /\ token[call[c].t] # NoRow
      BY <1>4, CallShapes DEF LogoutWrite, Continue, Sound, CallsOK, References
    <2>2. /\ token' = [t \in Tokens |-> token'[t]]
          /\ \A t \in Tokens : token'[t] # token[t] =>
               token[t] # NoRow /\ token'[t] = [token[t] EXCEPT !.revokedAt = now]
      BY <1>4, <2>1 DEF LogoutWrite, Sound, TablesOK
    <2> QED
      BY <1>4, <2>2, NextKept DEF LogoutWrite
  <1>5. ASSUME RequestFill(c) PROVE UNCHANGED token /\ \A d \in Devices : CalmDevice(d)
    <2>1. call[c].d \in Devices
      BY <1>5, CallShapes DEF RequestFill, Sound, CallsOK
    <2>2. \A e \in Devices : device'[e] = device[e] \/ device'[e] = [device[e] EXCEPT !.access = NoRow]
      BY <1>5, <2>1 DEF RequestFill, Guarded, Sound, DevicesOK
    <2> QED
      BY <1>5, <2>2, LossesKept DEF RequestFill, rows
  <1>6. ASSUME LoginLock(c) \/ \E d \in Devices : RequestRead(c, d)
        PROVE  UNCHANGED <<token, device>>
    BY <1>6 DEF LoginLock, RequestRead, rows
  <1>7. UNCHANGED token => CalmTokens
    BY DEF CalmTokens
  <1>8. UNCHANGED device => \A d \in Devices : CalmDevice(d)
    BY LossesKept
  <1>9. /\ ~ LoginRight(c) /\ ~ RotateInsert(c) /\ ~ RotateReplace(c)
        /\ ~ \E d \in Devices : RefreshLoad(c, d)
    BY DEF Rotates, RefreshLoad
  <1> QED
    BY <1>1, <1>2, <1>3, <1>4, <1>5, <1>6, <1>7, <1>8, <1>9 DEF DeviceStep

LEMMA StaffStepsCalm ==
  ASSUME Sound, NEW c \in Calls, StaffStep(c)
  PROVE  CalmTokens /\ \A d \in Devices : CalmDevice(d)
  <1>1. UNCHANGED device
    BY DEF StaffStep, DeactivateLoad, ResendLoad, ForgotLoad, SetRoleLoad, Invite, ConsumeLoad,
       UpdateLoad, DeactivateWrite, RevokeTokens, Stamp, BurnLinks, SetRoleWrite, ResendBurn, CreateLink,
       ConsumeWrite, Walk, UpdateWrite
  <1>2. CASE RevokeTokens(c)
    <2>1. /\ token' = [t \in Tokens |-> token'[t]]
          /\ \A t \in Tokens : token'[t] # token[t] =>
               token[t] # NoRow /\ token'[t] = [token[t] EXCEPT !.revokedAt = now]
      BY <1>2 DEF RevokeTokens, RevokeRows, Live
    <2> QED
      BY <1>1, <2>1, NextKept, LossesKept
  <1>3. CASE ~ RevokeTokens(c)
    <2>1. UNCHANGED token
      BY <1>3 DEF StaffStep, DeactivateLoad, ResendLoad, ForgotLoad, SetRoleLoad, Invite, ConsumeLoad,
         UpdateLoad, DeactivateWrite, Stamp, BurnLinks, SetRoleWrite, ResendBurn, CreateLink,
         ConsumeWrite, Walk, UpdateWrite, rows
    <2> QED
      BY <1>1, <2>1, LossesKept DEF CalmTokens
  <1> QED
    BY <1>2, <1>3

LEMMA OthersCalm ==
  ASSUME Sound, [Next]_vars, ~ Rotates
  PROVE  Calm
  <1>1. ASSUME NEW c \in Calls PROVE CalmCall(c)
    <2>1. CASE call'[c] = call[c] \/ call'[c].at \notin Tracked
      BY <2>1 DEF CalmCall, Tracked
    <2>2. CASE \/ \E d \in Devices : RequestRead(c, d)
               \/ \E u, m \in Users : UpdateLoad(c, u, m)
      <3>1. CASE \E d \in Devices : RequestRead(c, d)
        <4>1. PICK d \in Devices : RequestRead(c, d)
          BY <3>1
        <4>2. call'[c].at = "fill"
          BY <4>1, OnlyThis DEF RequestRead, Begin
        <4> QED
          BY <4>2 DEF CalmCall
      <3>2. CASE \E u, m \in Users : UpdateLoad(c, u, m)
        <4>1. PICK u \in Users, m \in Users : UpdateLoad(c, u, m)
          BY <3>2
        <4>2. call'[c].at = "walk"
          BY <4>1, OnlyThis DEF UpdateLoad, Begin
        <4> QED
          BY <4>2 DEF CalmCall
      <3> QED
        BY <2>2, <3>1, <3>2
    <2>3. CASE Walk(c)
      <3>1. call[c] \in [at : {"walk"}, user : Users, boss : Users, current : Users, seen : SUBSET Users]
        BY <2>3, CallShapes DEF Walk, Continue, Sound, CallsOK
      <3>2. WalkOn(c).at \in {"idle", "assign", "walk"}
        BY <3>1 DEF WalkOn, Idle
      <3>3. call'[c] = WalkOn(c)
        BY <2>3, OnlyThis DEF Walk, Continue
      <3> QED
        BY <3>2, <3>3 DEF CalmCall
    <2> QED
      BY <2>1, <2>2, <2>3, CallsMoveOn DEF CallsMove, MovesOn, Rotates
  <1>2. ASSUME NEW d \in Devices, RequestHit(d) \/ GiveUp(d) \/ Relaunch(d)
        PROVE  UNCHANGED token /\ \A e \in Devices : CalmDevice(e)
    <2>1. \A e \in Devices : \/ device'[e] = device[e] \/ device'[e] = [device[e] EXCEPT !.access = NoRow]
                             \/ device'[e] = Lose(e)
      BY <1>2 DEF RequestHit, Guarded, GiveUp, Relaunch, Sound, DevicesOK
    <2> QED
      BY <1>2, <2>1, LossesKept DEF RequestHit, GiveUp, Relaunch, rows
  <1>3. ASSUME Restart PROVE UNCHANGED token /\ \A e \in Devices : CalmDevice(e)
    BY <1>3, LossesKept DEF Restart, rows
  <1>4. ASSUME Tick \/ UNCHANGED vars PROVE UNCHANGED <<token, device>>
    BY <1>4 DEF Tick, vars, rows
  <1>5. UNCHANGED token => CalmTokens
    BY DEF CalmTokens
  <1>6. UNCHANGED device => \A d \in Devices : CalmDevice(d)
    BY LossesKept
  <1>7. CalmTokens /\ \A d \in Devices : CalmDevice(d)
    BY <1>2, <1>3, <1>4, <1>5, <1>6, DeviceStepsCalm, StaffStepsCalm DEF Next
  <1> QED
    BY <1>1, <1>7 DEF Calm

SurvivalInv == Sound /\ TokensInv

LEMMA SurvivalInitially == Init => SurvivalInv
  <1> SUFFICES ASSUME Init PROVE TokensInv
    BY SoundInitially DEF SurvivalInv
  <1>1. Idle.at = "idle"
    BY CallOfInverse
  <1>2. \A d \in Devices : device[d].cookie = None
    BY DEF Init, SignedOut
  <1> QED
    BY <1>1, <1>2 DEF Init, TokensInv, LossesCounted, Separate, Holds, CallCounted, Rotating

LEMMA SurvivalStep == SurvivalInv /\ [Next]_vars => SurvivalInv'
  <1> SUFFICES ASSUME Sound, TokensInv, [Next]_vars PROVE TokensInv'
    BY NextSound DEF SurvivalInv
  <1>1. CASE Rotates
    BY <1>1, RenewCounted, LoginRightCounted, RotateInsertCounted, RotateReplaceCounted DEF Rotates
  <1>2. CASE ~ Rotates
    BY <1>2, OthersCalm, CalmKeeps, NextSound
  <1> QED
    BY <1>1, <1>2

\* auth.service.ts, refresh: a device that retries within the grace period after one lost answer is
\* never taken for a reuse, whatever the answers lost, the calls that run on and the revocations.
THEOREM OneLossIsSurvived == Spec => []SessionSurvivesLoss
  <1>1. SurvivalInv => SessionSurvivesLoss
    BY DEF SurvivalInv, TokensInv, CallCounted, SessionSurvivesLoss
  <1> QED BY <1>1, SurvivalInitially, SurvivalStep, PTL DEF Spec

\* The same of a client that renews for its socket as well.
THEOREM OneLossIsSurvivedBesideSockets == FeedSpec => []SessionSurvivesLoss
  <1>1. FeedInv /\ TokensInv => SessionSurvivesLoss
    BY DEF TokensInv, CallCounted, SessionSurvivesLoss
  <1>2. FeedInv => Sound
    BY DEF FeedInv, SessionsInv
  <1>3. Init /\ FeedInit => FeedInv /\ TokensInv
    BY FeedInitially, SurvivalInitially DEF SurvivalInv
  <1>4. FeedInv /\ TokensInv /\ [FeedNext]_feedVars => TokensInv'
    <2> SUFFICES ASSUME FeedInv, TokensInv, [FeedNext]_feedVars PROVE TokensInv'
      OBVIOUS
    <2>1. CASE [Next]_vars
      BY <1>2, <2>1, SurvivalStep DEF SurvivalInv
    <2>2. CASE \E c \in Calls, d \in Devices : TimerFires(c, d)
      BY <1>2, <2>1, <2>2, RenewCounted DEF TimerFires
    <2>3. CASE \E d \in Devices : Checked(d)
      <3>1. UNCHANGED <<token, device, call>>
        BY <2>3 DEF Checked, rows
      <3> QED
        BY <3>1 DEF TokensInv, LossesCounted, Separate, CallCounted, RotationCounted, Private, Holds,
           Successor, Lost, Rotating
    <2>4. [Next]_vars \/ (\E c \in Calls, d \in Devices : TimerFires(c, d)) \/ \E d \in Devices : Checked(d)
      BY DEF FeedNext, feedVars, Next, Handshake, Sweep, Drop
    <2> QED
      BY <2>1, <2>2, <2>3, <2>4
  <1> QED BY <1>1, <1>3, <1>4, FeedStep, PTL DEF FeedSpec

-----------------------------------------------------------------------------
\* Families.  A rotation stays in its family, so what is over has nothing left to rotate from.
FamiliesInv ==
  /\ \A t \in Tokens : token[t] # NoRow /\ token[t].next # None =>
       token[token[t].next] # NoRow /\ token[token[t].next].family = token[t].family
  /\ \A c \in Calls : Rotating(c) =>
       /\ token[call[c].from].family = call[c].family
       /\ call[c].at = "replace" => token[call[c].new].family = call[c].family

\* Rows keep their family; those that were there keep their successor and come no more to life.
RowsAge ==
  \A t \in Tokens : token[t] # NoRow =>
    /\ token'[t] # NoRow /\ token'[t].family = token[t].family
    /\ token'[t].revokedAt = Never => token[t].revokedAt = Never
NothingNew == \A t \in Tokens : token[t] = NoRow => token'[t] = NoRow

LEMMA RowsRevoked ==
  ASSUME Sound, token' = [t \in Tokens |-> token'[t]],
         \A t \in Tokens : token'[t] # token[t] =>
           token[t] # NoRow /\ token'[t] = [token[t] EXCEPT !.revokedAt = now]
  PROVE  RowsAge /\ NothingNew
  <1>1. now \in Nat /\ Never = -1
    BY DEF Sound, AccountsOK, Never
  <1>2. ASSUME NEW t \in Tokens, token[t] # NoRow, token'[t] # token[t]
        PROVE  /\ token'[t] # NoRow /\ token'[t].family = token[t].family
               /\ token'[t].revokedAt # Never
    <2>1. token[t] \in RefreshToken /\ token'[t] = [token[t] EXCEPT !.revokedAt = now]
      BY <1>2 DEF Sound, TablesOK
    <2>2. token'[t] \in RefreshToken
      BY <1>1, <2>1 DEF RefreshToken
    <2> QED
      BY <1>1, <2>1, <2>2, RowsDiffer DEF RefreshToken
  <1> QED
    BY <1>2 DEF RowsAge, NothingNew

LEMMA RowAdded ==
  ASSUME Sound, NEW t \in Free(token), NEW u \in Users, NEW f \in Tokens,
         token' = [token EXCEPT ![t] = NewToken(u, f)]
  PROVE  /\ t \in Tokens /\ token[t] = NoRow /\ token'[t] # NoRow
         /\ token'[t].family = f /\ token'[t].next = None
         /\ \A s \in Tokens : s # t => token'[s] = token[s]
         /\ RowsAge
  <1>1. t \in Tokens /\ token[t] = NoRow
    BY DEF Free, Sound, TablesOK
  <1>2. token'[t] = NewToken(u, f) /\ \A s \in Tokens : s # t => token'[s] = token[s]
    BY <1>1 DEF Sound, TablesOK
  <1>3. NewToken(u, f).family = f
    BY DEF NewToken
  <1> QED
    BY <1>1, <1>2, <1>3, NewTokenRow, RowsDiffer DEF RowsAge

\* Who gets an access token: a sign-in and a rotation that ends.
LEMMA OthersGainNothing ==
  ASSUME Sound, [Next]_vars, ~ Rotates
  PROVE  RowsAge /\ NothingNew /\ \A d \in Devices : GainsNothing(d)
  <1>1. UNCHANGED token => RowsAge /\ NothingNew
    BY DEF RowsAge, NothingNew
  <1>2. UNCHANGED device => \A d \in Devices : GainsNothing(d)
    BY DEF GainsNothing
  <1>3. ASSUME NEW d \in Devices,
               \/ device'[d] = device[d] \/ device'[d] = SignedOut \/ device'[d] = Lose(d)
               \/ device'[d] = [device[d] EXCEPT !.access = NoRow]
               \/ \E c \in Calls : device'[d] = [device[d] EXCEPT !.waits = c]
        PROVE  GainsNothing(d)
    <2>1. device[d] \in Session
      BY DEF Sound, DevicesOK
    <2>2. Lose(d).access = device[d].access
      BY <2>1 DEF Lose, Session
    <2>3. [device[d] EXCEPT !.access = NoRow].access = NoRow
      BY <2>1 DEF Session
    <2>4. \A c \in Calls : [device[d] EXCEPT !.waits = c].access = device[d].access
      BY <2>1 DEF Session
    <2> QED
      BY <1>3, <2>2, <2>3, <2>4, SignedOutSession DEF GainsNothing
  <1>4. ASSUME NEW c \in Calls, DeviceStep(c)
        PROVE  RowsAge /\ NothingNew /\ \A d \in Devices : GainsNothing(d)
    <2>1. ASSUME NEW d \in Devices, NEW u \in Users, NEW right \in BOOLEAN, LoginLoad(c, d, u, right)
          PROVE  UNCHANGED token /\ \A e \in Devices : GainsNothing(e)
      <3>1. \A e \in Devices : device'[e] = device[e] \/ device'[e] = [device[e] EXCEPT !.waits = c]
        BY <2>1 DEF LoginLoad, Send, Sound, DevicesOK
      <3> QED
        BY <1>3, <2>1, <3>1 DEF LoginLoad, rows
    <2>2. ASSUME LoginWrong(c) \/ RefreshRefuse(c) \/ RevokeFamily(c)
          PROVE  RowsAge /\ NothingNew /\ \A d \in Devices : GainsNothing(d)
      <3>1. Refuse(call[c].d, c) /\ call[c].d \in Devices
        BY <2>2, CallShapes DEF LoginWrong, RefreshRefuse, RevokeFamily, Continue, Sound, CallsOK
      <3>2. \A e \in Devices : device'[e] = device[e] \/ device'[e] = SignedOut
        BY <3>1 DEF Refuse, Answer, Sound, DevicesOK
      <3>3. /\ token' = [t \in Tokens |-> token'[t]]
            /\ \A t \in Tokens : token'[t] # token[t] =>
                 token[t] # NoRow /\ token'[t] = [token[t] EXCEPT !.revokedAt = now]
        BY <2>2 DEF LoginWrong, RefreshRefuse, RevokeFamily, RevokeRows, Live, rows, Sound, TablesOK
      <3> QED
        BY <1>3, <3>2, <3>3, RowsRevoked
    <2>3. ASSUME NEW d \in Devices, LogoutLoad(c, d)
          PROVE  UNCHANGED token /\ \A e \in Devices : GainsNothing(e)
      <3>1. \A e \in Devices : device'[e] = device[e] \/ device'[e] = SignedOut
        BY <2>3 DEF LogoutLoad, Sound, DevicesOK
      <3> QED
        BY <1>3, <2>3, <3>1 DEF LogoutLoad, rows
    <2>4. ASSUME LogoutWrite(c) PROVE RowsAge /\ NothingNew /\ UNCHANGED device
      <3>1. call[c].t \in Tokens /\ token[call[c].t] # NoRow
        BY <2>4, CallShapes DEF LogoutWrite, Continue, Sound, CallsOK, References
      <3>2. /\ token' = [t \in Tokens |-> token'[t]]
            /\ \A t \in Tokens : token'[t] # token[t] =>
                 token[t] # NoRow /\ token'[t] = [token[t] EXCEPT !.revokedAt = now]
        BY <2>4, <3>1 DEF LogoutWrite, Sound, TablesOK
      <3> QED
        BY <2>4, <3>2, RowsRevoked DEF LogoutWrite
    <2>5. ASSUME RequestFill(c) PROVE UNCHANGED token /\ \A d \in Devices : GainsNothing(d)
      <3>1. call[c].d \in Devices
        BY <2>5, CallShapes DEF RequestFill, Sound, CallsOK
      <3>2. \A e \in Devices : device'[e] = device[e] \/ device'[e] = [device[e] EXCEPT !.access = NoRow]
        BY <2>5, <3>1 DEF RequestFill, Guarded, Sound, DevicesOK
      <3> QED
        BY <1>3, <2>5, <3>2 DEF RequestFill, rows
    <2>6. ASSUME LoginLock(c) \/ \E d \in Devices : RequestRead(c, d)
          PROVE  UNCHANGED <<token, device>>
      BY <2>6 DEF LoginLock, RequestRead, rows
    <2>7. /\ ~ LoginRight(c) /\ ~ RotateInsert(c) /\ ~ RotateReplace(c)
          /\ ~ \E d \in Devices : RefreshLoad(c, d)
      BY DEF Rotates, RefreshLoad
    <2> QED
      BY <1>1, <1>2, <1>4, <2>1, <2>2, <2>3, <2>4, <2>5, <2>6, <2>7 DEF DeviceStep
  <1>5. ASSUME NEW c \in Calls, StaffStep(c)
        PROVE  RowsAge /\ NothingNew /\ UNCHANGED device
    <2>1. UNCHANGED device
      BY <1>5 DEF StaffStep, DeactivateLoad, ResendLoad, ForgotLoad, SetRoleLoad, Invite, ConsumeLoad,
         UpdateLoad, DeactivateWrite, RevokeTokens, Stamp, BurnLinks, SetRoleWrite, ResendBurn, CreateLink,
         ConsumeWrite, Walk, UpdateWrite
    <2>2. CASE RevokeTokens(c)
      <3>1. /\ token' = [t \in Tokens |-> token'[t]]
            /\ \A t \in Tokens : token'[t] # token[t] =>
                 token[t] # NoRow /\ token'[t] = [token[t] EXCEPT !.revokedAt = now]
        BY <2>2 DEF RevokeTokens, RevokeRows, Live
      <3> QED
        BY <2>1, <3>1, RowsRevoked
    <2>3. CASE ~ RevokeTokens(c)
      <3>1. UNCHANGED token
        BY <1>5, <2>3 DEF StaffStep, DeactivateLoad, ResendLoad, ForgotLoad, SetRoleLoad, Invite, ConsumeLoad,
           UpdateLoad, DeactivateWrite, Stamp, BurnLinks, SetRoleWrite, ResendBurn, CreateLink,
           ConsumeWrite, Walk, UpdateWrite, rows
      <3> QED
        BY <1>1, <2>1, <3>1
    <2> QED
      BY <2>2, <2>3
  <1>6. ASSUME NEW d \in Devices, RequestHit(d) \/ GiveUp(d) \/ Relaunch(d)
        PROVE  UNCHANGED token /\ \A e \in Devices : GainsNothing(e)
    <2>1. \A e \in Devices : \/ device'[e] = device[e] \/ device'[e] = [device[e] EXCEPT !.access = NoRow]
                             \/ device'[e] = Lose(e)
      BY <1>6 DEF RequestHit, Guarded, GiveUp, Relaunch, Sound, DevicesOK
    <2> QED
      BY <1>3, <1>6, <2>1 DEF RequestHit, GiveUp, Relaunch, rows
  <1>7. ASSUME Restart PROVE UNCHANGED token /\ \A e \in Devices : GainsNothing(e)
    BY <1>3, <1>7 DEF Restart, rows
  <1>8. ASSUME Tick \/ UNCHANGED vars PROVE UNCHANGED <<token, device>>
    BY <1>8 DEF Tick, vars, rows
  <1> QED
    BY <1>1, <1>2, <1>4, <1>5, <1>6, <1>7, <1>8 DEF Next

\* What the rows and the calls of a family allow, from what they were.
LEMMA FamiliesKept ==
  ASSUME Sound, FamiliesInv, RowsAge, NothingNew, CalmTokens, \A c \in Calls : CalmCall(c)
  PROVE  FamiliesInv' /\ \A f \in Tokens : Over(f) => Over(f)'
  <1>1. ASSUME NEW t \in Tokens, token'[t] # NoRow
        PROVE  token[t] # NoRow /\ token'[t].next = token[t].next /\ token'[t].family = token[t].family
    BY <1>1 DEF RowsAge, NothingNew, CalmTokens
  <1>2. ASSUME NEW t \in Tokens, token'[t] # NoRow, token'[t].next # None
        PROVE  token'[token'[t].next] # NoRow /\ token'[token'[t].next].family = token'[t].family
    <2>1. token[t] \in RefreshToken /\ token[t].next \in Tokens
      BY <1>1, <1>2 DEF Sound, TablesOK, RefreshToken
    <2> QED
      BY <1>1, <1>2, <2>1 DEF FamiliesInv, RowsAge
  <1>3. ASSUME NEW c \in Calls, Rotating(c)'
        PROVE  /\ Rotating(c) /\ call'[c] = call[c]
               /\ token'[call[c].from].family = call[c].family
               /\ call[c].at = "replace" => token'[call[c].new].family = call[c].family
    <2>1. call'[c] = call[c] /\ Rotating(c)
      BY <1>3 DEF CalmCall, Rotating
    <2> QED
      BY <2>1, RotatingCall DEF FamiliesInv, RowsAge
  <1>4. FamiliesInv'
    BY <1>2, <1>3 DEF FamiliesInv, Rotating
  <1>5. ASSUME NEW f \in Tokens, Over(f) PROVE Over(f)'
    BY <1>3, <1>5 DEF Over, RowsAge, NothingNew, Live, Rotating
  <1> QED
    BY <1>4, <1>5

LEMMA RenewStaysOver ==
  ASSUME Sound, FamiliesInv, NEW c \in Calls, NEW d \in Devices, Renew(c, d)
  PROVE  FamiliesInv' /\ \A f \in Tokens : StaysOver(f)
  <1> DEFINE t == device[d].cookie  next == RefreshPlan(d)
  <1>1. /\ t # None /\ UNCHANGED token
        /\ call'[c] = next /\ \A e \in Calls : e # c => call'[e] = call[e]
    BY OnlyThis DEF Renew, Begin, rows
  <1>2. t \in Tokens /\ token[t] \in RefreshToken /\ token[t] # NoRow
    BY <1>1, SuccessorToken, RowsDiffer
  <1>3. /\ next.at \in {"insert", "refuse", "reuse"}
        /\ next.at = "insert" =>
             /\ next.family = token[t].family
             /\ \/ next.from = t /\ Live(t)
                \/ next.from = token[t].next /\ token[t].next # None /\ Live(token[t].next)
    BY DEF RefreshPlan, InGrace
  <1> HIDE DEF next
  <1>4. next.at = "insert" => /\ next.from \in Tokens /\ Live(next.from)
                              /\ token[next.from].family = next.family
    <2>1. token[t].next # None => token[t].next \in Tokens
      BY <1>2 DEF RefreshToken
    <2> QED
      BY <1>2, <1>3, <2>1 DEF FamiliesInv
  <1>5. FamiliesInv'
    BY <1>1, <1>3, <1>4 DEF FamiliesInv, Rotating
  <1>6. ASSUME NEW f \in Tokens, Over(f) PROVE Over(f)'
    BY <1>1, <1>3, <1>4, <1>6 DEF Over, Live
  <1>7. \A e \in Devices : GainsNothing(e)
    BY DEF Renew, Send, Sound, DevicesOK, Session, GainsNothing
  <1> QED
    BY <1>5, <1>6, <1>7 DEF StaysOver

LEMMA LoginStaysOver ==
  ASSUME Sound, FamiliesInv, NEW c \in Calls, LoginRight(c)
  PROVE  FamiliesInv' /\ \A f \in Tokens : StaysOver(f)
  <1> DEFINE u == call[c].user  d == call[c].d
  <1>1. u \in Users /\ d \in Devices
    BY CallShapes DEF LoginRight, Sound, CallsOK
  <1>2. PICK t \in Free(token) : /\ token' = [token EXCEPT ![t] = NewToken(u, t)]
                                 /\ Answer(d, c, Held(u, t))
    BY DEF LoginRight
  <1>3. t \in Tokens
    BY <1>2 DEF Free, Sound, TablesOK
  <1>4. /\ token[t] = NoRow /\ token'[t] # NoRow /\ token'[t].family = t /\ token'[t].next = None
        /\ \A s \in Tokens : s # t => token'[s] = token[s]
        /\ RowsAge
    BY <1>1, <1>2, <1>3, RowAdded
  <1>5. \A e \in Calls : call'[e] = IF e = c THEN Idle ELSE call[e]
    BY OnlyThis DEF LoginRight, Continue
  <1>6. Idle.at = "idle"
    BY CallOfInverse
  <1>7. ASSUME NEW s \in Tokens, token'[s] # NoRow, token'[s].next # None
        PROVE  token'[token'[s].next] # NoRow /\ token'[token'[s].next].family = token'[s].family
    <2>1. s # t /\ token'[s] = token[s]
      BY <1>4, <1>7
    <2>2. token[s].next \in Tokens
      BY <1>7, <2>1 DEF Sound, TablesOK, RefreshToken
    <2> QED
      BY <1>4, <1>7, <2>1, <2>2 DEF FamiliesInv, RowsAge
  <1>8. FamiliesInv'
    <2>1. ASSUME NEW e \in Calls, Rotating(e)'
          PROVE  /\ token'[call'[e].from].family = call'[e].family
                 /\ call'[e].at = "replace" => token'[call'[e].new].family = call'[e].family
      BY <1>4, <1>5, <1>6, <2>1, RotatingCall DEF FamiliesInv, Rotating, RowsAge
    <2> QED
      BY <1>7, <2>1 DEF FamiliesInv
  <1>9. ASSUME NEW f \in Tokens, Over(f) PROVE f # t /\ Over(f)'
    BY <1>4, <1>5, <1>6, <1>9 DEF Over, Live, RowsAge
  <1>10. ASSUME NEW e \in Devices PROVE GainsNothing(e) \/ device'[e].cookie = t
    BY <1>1, <1>2, <1>3, HeldSession DEF Answer, Sound, DevicesOK, GainsNothing
  <1> QED
    BY <1>3, <1>4, <1>8, <1>9, <1>10 DEF StaysOver, IsOf

LEMMA InsertStaysOver ==
  ASSUME Sound, FamiliesInv, NEW c \in Calls, RotateInsert(c)
  PROVE  FamiliesInv' /\ \A f \in Tokens : StaysOver(f)
  <1> DEFINE u == call[c].user  family == call[c].family
  <1>1. /\ Rotating(c) /\ u \in Users /\ family \in Tokens
        /\ call[c].from \in Tokens /\ token[call[c].from] # NoRow
    BY RotatingCall DEF RotateInsert, Rotating
  <1>2. PICK t \in Free(token) :
          /\ token' = [token EXCEPT ![t] = NewToken(u, family)]
          /\ Continue(c, "insert", [at |-> "replace", d |-> call[c].d, user |-> u,
                                    from |-> call[c].from, family |-> family, new |-> t])
    BY DEF RotateInsert
  <1>3. /\ t \in Tokens /\ token[t] = NoRow /\ token'[t] # NoRow
        /\ token'[t].family = family /\ token'[t].next = None
        /\ \A s \in Tokens : s # t => token'[s] = token[s]
        /\ RowsAge
    BY <1>1, <1>2, RowAdded
  <1>4. /\ call'[c].at = "replace" /\ call'[c].from = call[c].from /\ call'[c].family = family
        /\ call'[c].new = t /\ \A e \in Calls : e # c => call'[e] = call[e]
    BY <1>2, OnlyThis DEF Continue
  <1>5. ASSUME NEW s \in Tokens, token'[s] # NoRow, token'[s].next # None
        PROVE  token'[token'[s].next] # NoRow /\ token'[token'[s].next].family = token'[s].family
    <2>1. s # t /\ token'[s] = token[s]
      BY <1>3, <1>5
    <2>2. token[s].next \in Tokens
      BY <1>5, <2>1 DEF Sound, TablesOK, RefreshToken
    <2> QED
      BY <1>3, <1>5, <2>1, <2>2 DEF FamiliesInv, RowsAge
  <1>6. FamiliesInv'
    <2>1. ASSUME NEW e \in Calls, e # c, Rotating(e)'
          PROVE  /\ token'[call'[e].from].family = call'[e].family
                 /\ call'[e].at = "replace" => token'[call'[e].new].family = call'[e].family
      BY <1>3, <1>4, <2>1, RotatingCall DEF FamiliesInv, Rotating, RowsAge
    <2>2. token'[call'[c].from].family = call'[c].family
      BY <1>1, <1>3, <1>4 DEF FamiliesInv, RowsAge
    <2> QED
      BY <1>3, <1>4, <1>5, <2>1, <2>2 DEF FamiliesInv
  <1>7. ASSUME NEW f \in Tokens, Over(f) PROVE Over(f)'
    <2>1. f # family
      BY <1>1, <1>7 DEF Over, Rotating
    <2> QED
      BY <1>3, <1>4, <1>7, <2>1 DEF Over, Live, RowsAge
  <1>8. \A d \in Devices : GainsNothing(d)
    BY DEF RotateInsert, GainsNothing
  <1> QED
    BY <1>6, <1>7, <1>8 DEF StaysOver

LEMMA ReplaceStaysOver ==
  ASSUME Sound, FamiliesInv, NEW c \in Calls, RotateReplace(c)
  PROVE  FamiliesInv' /\ \A f \in Tokens : StaysOver(f)
  <1> DEFINE d == call[c].d  u == call[c].user  from == call[c].from  new == call[c].new
             family == call[c].family
  <1>1. /\ Rotating(c) /\ call[c].at = "replace" /\ u \in Users /\ family \in Tokens
        /\ d \in Devices /\ from \in Tokens /\ token[from] # NoRow
        /\ new \in Tokens /\ token[new] # NoRow
        /\ token[from].family = family /\ token[new].family = family
    BY RotatingCall DEF RotateReplace, Continue, Rotating, FamiliesInv
  <1>2. now \in Nat /\ now # Never
    BY DEF Sound, AccountsOK, Never
  <1>3. /\ token[from] \in RefreshToken /\ token'[from] = [token[from] EXCEPT !.revokedAt = now, !.next = new]
        /\ \A s \in Tokens : s # from => token'[s] = token[s]
    BY <1>1 DEF RotateReplace, Replace, Sound, TablesOK
  <1>4. /\ token'[from] \in RefreshToken /\ token'[from].family = family /\ token'[from].next = new
        /\ token'[from].revokedAt = now
    <2> DEFINE revoked == [token[from] EXCEPT !.revokedAt = now]
    <2>1. revoked \in RefreshToken /\ revoked.family = family /\ revoked.revokedAt = now
      BY <1>1, <1>2, <1>3 DEF RefreshToken
    <2>2. token'[from] = [revoked EXCEPT !.next = new]
      BY <1>3
    <2> HIDE DEF revoked
    <2> QED
      BY <1>1, <2>1, <2>2 DEF RefreshToken
  <1>5. RowsAge /\ NothingNew
    BY <1>1, <1>2, <1>3, <1>4, RowsDiffer DEF RowsAge, NothingNew
  <1>6. \A e \in Calls : call'[e] = IF e = c THEN Idle ELSE call[e]
    BY OnlyThis DEF RotateReplace, Continue
  <1>7. Idle.at = "idle"
    BY CallOfInverse
  <1>8. ASSUME NEW s \in Tokens, token'[s] # NoRow, token'[s].next # None
        PROVE  token'[token'[s].next] # NoRow /\ token'[token'[s].next].family = token'[s].family
    <2>1. CASE s = from
      BY <1>1, <1>4, <1>5, <2>1 DEF RowsAge
    <2>2. CASE s # from
      <3>1. token'[s] = token[s] /\ token[s].next \in Tokens
        BY <1>3, <1>8, <2>2 DEF Sound, TablesOK, RefreshToken
      <3> QED
        BY <1>5, <1>8, <3>1 DEF FamiliesInv, RowsAge
    <2> QED
      BY <2>1, <2>2
  <1>9. FamiliesInv'
    <2>1. ASSUME NEW e \in Calls, Rotating(e)'
          PROVE  /\ token'[call'[e].from].family = call'[e].family
                 /\ call'[e].at = "replace" => token'[call'[e].new].family = call'[e].family
      BY <1>5, <1>6, <1>7, <2>1, RotatingCall DEF FamiliesInv, Rotating, RowsAge
    <2> QED
      BY <1>8, <2>1 DEF FamiliesInv
  <1>10. ASSUME NEW f \in Tokens, Over(f) PROVE f # family /\ Over(f)'
    BY <1>1, <1>5, <1>6, <1>7, <1>10 DEF Over, Live, RowsAge, NothingNew, Rotating
  <1>11. ASSUME NEW e \in Devices PROVE GainsNothing(e) \/ device'[e].cookie = new
    BY <1>1, HeldSession DEF RotateReplace, Answer, Sound, DevicesOK, GainsNothing
  <1> QED
    BY <1>1, <1>5, <1>9, <1>10, <1>11 DEF StaysOver, IsOf, RowsAge

LEMMA FamiliesInitially == Init => FamiliesInv
  <1> SUFFICES ASSUME Init PROVE FamiliesInv
    OBVIOUS
  <1>1. Idle.at = "idle"
    BY CallOfInverse
  <1> QED BY <1>1 DEF Init, FamiliesInv, Rotating

LEMMA FamiliesStep ==
  ASSUME Sound, FamiliesInv, [Next]_vars
  PROVE  FamiliesInv' /\ \A f \in Tokens : StaysOver(f)
  <1>1. CASE Rotates
    BY <1>1, RenewStaysOver, LoginStaysOver, InsertStaysOver, ReplaceStaysOver DEF Rotates
  <1>2. CASE ~ Rotates
    BY <1>2, OthersCalm, OthersGainNothing, FamiliesKept DEF Calm, StaysOver
  <1> QED BY <1>1, <1>2

\* session-state.service.ts, jwt-auth.guard.ts, auth.service.ts: a request is served less than
\* TTL_MS after its account left or, on an access token issued before, was revoked; and a session
\* of which every token is revoked, and none is being rotated, never gets another token.
THEOREM RevocationIsBounded == Spec => RevocationTakesHold
  <1>1. SessionsInv => ServedInTime /\ Sound
    BY DEF SessionsInv
  <1>2. Sound /\ FamiliesInv /\ [Next]_vars => FamiliesInv' /\ [\A f \in Tokens : StaysOver(f)]_vars
    BY FamiliesStep
  <1> QED BY <1>1, <1>2, SessionsInitially, SessionsStep, FamiliesInitially,
             PTL DEF Spec, RevocationTakesHold

\* The same beside the sockets, whose looks fill the same cache and whose timers renew.
THEOREM RevocationIsBoundedBesideSockets == FeedSpec => RevocationTakesHold
  <1>1. FeedInv => ServedInTime /\ Sound
    BY DEF FeedInv, SessionsInv
  <1>2. Sound /\ FamiliesInv /\ [FeedNext]_feedVars =>
          FamiliesInv' /\ [\A f \in Tokens : StaysOver(f)]_vars
    <2> SUFFICES ASSUME Sound, FamiliesInv, [FeedNext]_feedVars
                 PROVE  FamiliesInv' /\ \A f \in Tokens : StaysOver(f)
      OBVIOUS
    <2>1. CASE [Next]_vars
      BY <2>1, FamiliesStep
    <2>2. CASE \E c \in Calls, d \in Devices : TimerFires(c, d)
      <3>1. CASE UNCHANGED vars
        BY <3>1, FamiliesStep
      <3>2. CASE \E c \in Calls, d \in Devices : Renew(c, d)
        BY <3>2, RenewStaysOver
      <3> QED BY <2>2, <3>1, <3>2 DEF TimerFires
    <2>3. CASE \E d \in Devices : Checked(d)
      <3>1. UNCHANGED <<token, device, call>>
        BY <2>3 DEF Checked, rows
      <3> QED
        BY <3>1 DEF FamiliesInv, Rotating, StaysOver, Over, Live, GainsNothing
    <2>4. [Next]_vars \/ (\E c \in Calls, d \in Devices : TimerFires(c, d)) \/ \E d \in Devices : Checked(d)
      BY DEF FeedNext, feedVars, Next, Handshake, Sweep, Drop
    <2> QED BY <2>1, <2>2, <2>3, <2>4
  <1> QED BY <1>1, <1>2, FeedInitially, FeedStep, FamiliesInitially,
             PTL DEF FeedSpec, RevocationTakesHold

\* Every row, entry, session and call has its type, and what refers to a row finds it.
THEOREM SessionsAreSound == Spec => []Sound
  BY SoundInitially, NextSound, PTL DEF Spec
=============================================================================
