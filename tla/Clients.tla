------------------------------- MODULE Clients -------------------------------
(***************************************************************************)
(* Client organizations, their users and what projects those may see: the  *)
(* Super Admin's handlers of ClientAdminService and the reservation of a    *)
(* client ID by ProjectsService.  Each handler is a call whose queries are  *)
(* steps; calls interleave, and any of them may die between two queries.    *)
(***************************************************************************)
EXTENDS Naturals, FiniteSets

CONSTANTS
  Orgs, Projects, People, Names,    \* rows; People are users with the role CLIENT
  AdminCalls,
  NoOrg, NoName, NoPerson,
  MaxDeaths                         \* bound: calls that die half-way

ASSUME ClientsAssumption ==
  NoOrg \notin Orgs /\ NoName \notin Names /\ NoPerson \notin People /\ MaxDeaths \in Nat

VARIABLES
  org,        \* ClientOrg: a reservation has no name
  project,    \* Project with its clientOrgId
  client,     \* User with its clientOrgId
  access,     \* ClientProjectAccess rows
  signedIn,   \* people with a live session
  call, deaths,
  raced       \* history: projects that two calls were going to bind at once
clientVars == <<org, project, client, access, signedIn, call, deaths, raced>>
rows == <<project, client, access, signedIn>>

NoRow == [made |-> FALSE, name |-> NoName, ended |-> FALSE]
Idle == [at |-> "idle", org |-> NoOrg, name |-> NoName, person |-> NoPerson, then |-> "idle",
         projects |-> {}, people |-> {}, bind |-> FALSE]

Free(c) == call[c] = Idle
NameTaken(o, n) == \E other \in Orgs \ {o} : org[other].name = n
Reserved(o) == org[o].made /\ org[o].name = NoName /\ ~ org[o].ended

ClientsInit ==
  /\ org = [o \in Orgs |-> NoRow]
  /\ project = [p \in Projects |-> [made |-> FALSE, org |-> NoOrg]]
  /\ client = [u \in People |-> [made |-> FALSE, org |-> NoOrg]]
  /\ access = {} /\ signedIn = {}
  /\ call = [c \in AdminCalls |-> Idle] /\ deaths = 0 /\ raced = {}

\* The call has read that p is nobody's and is going to bind it.
Binds(k) == k.at \in {"reserve", "overwrite"} \/ (k.at = "upsert" /\ k.bind)
Binding(c, p) == Binds(call[c]) /\ p \in call[c].projects
Contested == {p \in Projects : \E c, e \in AdminCalls : c # e /\ Binding(c, p) /\ Binding(e, p)}

Goes(c, next) ==
  /\ call' = [call EXCEPT ![c] = next]
  /\ raced' = raced \cup Contested'
Answer(c) == Goes(c, Idle)
Make(o, name) == org' = [org EXCEPT ![o] = [NoRow EXCEPT !.made = TRUE, !.name = name]]

----------------------------------------------------------------------------
(* Organizations: named at once, or reserved for a project.                 *)

CreateOrg(o, n) ==
  /\ ~ org[o].made /\ ~ NameTaken(o, n)
  /\ Make(o, n)
  /\ UNCHANGED <<rows, call, deaths, raced>>

\* create: client work reserves an org first, internal work does not.
ReserveForNew(c, o) ==
  /\ Free(c) /\ ~ org[o].made
  /\ Make(o, NoName)
  /\ Goes(c, [Idle EXCEPT !.at = "create", !.org = o])
  /\ UNCHANGED <<rows, deaths>>

CreateProject(c, p) ==
  /\ ~ project[p].made
  /\ call[c].at = "create" \/ Free(c)
  /\ project' = [project EXCEPT ![p] = [made |-> TRUE, org |-> call[c].org]]
  /\ Answer(c)
  /\ UNCHANGED <<org, client, access, signedIn, deaths>>

\* Mutant: a project is given a new client ID whether or not it has one.
ReservesAgain(p) == TRUE
\* "A project that already has one keeps it."
NeedsClient(p) == project[p].org = NoOrg

\* update
UpdateRead(c, p) ==
  /\ Free(c) /\ project[p].made /\ NeedsClient(p)
  /\ Goes(c, [Idle EXCEPT !.at = "reserve", !.projects = {p}])
  /\ UNCHANGED <<org, rows, deaths>>

ReserveForOld(c, o) ==
  /\ call[c].at = "reserve" /\ ~ org[o].made
  /\ Make(o, NoName)
  /\ Goes(c, [call[c] EXCEPT !.at = "overwrite", !.org = o])
  /\ UNCHANGED <<rows, deaths>>

Overwrite(c) ==
  /\ call[c].at = "overwrite"
  /\ project' = [p \in Projects |->
       IF p \in call[c].projects THEN [project[p] EXCEPT !.org = call[c].org] ELSE project[p]]
  /\ Answer(c)
  /\ UNCHANGED <<org, client, access, signedIn, deaths>>

----------------------------------------------------------------------------
(* Accounts: into an org that exists, or onto a reservation.                *)

UserCheck(c, o, u) ==
  /\ Free(c) /\ org[o].made
  /\ Goes(c, [Idle EXCEPT !.at = "invite", !.org = o, !.person = u, !.then = "attach"])
  /\ UNCHANGED <<org, rows, deaths>>

\* "The two codes must describe the same thing."
Paired(o, P) == P # {} /\ \A p \in P : project[p].org = o

OnboardCheck(c, o, u, n, P) ==
  /\ Free(c) /\ Reserved(o)
  /\ (\A p \in P : project[p].made) /\ Paired(o, P)
  /\ Goes(c, [Idle EXCEPT !.at = "invite", !.org = o, !.person = u, !.then = "onboard",
                         !.name = n, !.projects = P])
  /\ UNCHANGED <<org, rows, deaths>>

\* auth.invite, a transaction of its own: an email that is taken is refused.
Invite(c) ==
  /\ call[c].at = "invite"
  /\ LET u == call[c].person
     IN IF client[u].made THEN UNCHANGED client /\ Answer(c)
        ELSE /\ client' = [client EXCEPT ![u].made = TRUE]
             /\ Goes(c, [call[c] EXCEPT !.at = call[c].then])
  /\ UNCHANGED <<org, project, access, signedIn, deaths>>

Attach(c) ==
  /\ call[c].at = "attach"
  /\ client' = [client EXCEPT ![call[c].person].org = call[c].org]
  /\ Answer(c)
  /\ UNCHANGED <<org, project, access, signedIn, deaths>>

\* The transaction of onboardClient.  A name that is taken rolls it back; the invited
\* user stays.
Onboard(c) ==
  /\ call[c].at = "onboard"
  /\ LET o == call[c].org  u == call[c].person
     IN IF NameTaken(o, call[c].name) THEN UNCHANGED <<org, client, access>>
        ELSE /\ org' = [org EXCEPT ![o].name = call[c].name]
             /\ client' = [client EXCEPT ![u].org = o]
             /\ access' = access \cup {<<p, u>> : p \in call[c].projects}
  /\ Answer(c)
  /\ UNCHANGED <<project, signedIn, deaths>>

----------------------------------------------------------------------------
(* grantAccess: check, write the row, bind the project on the first grant.  *)

\* Mutant: the tenant boundary is not checked.
AnyTenant(p, u) == TRUE
SameTenant(p, u) == project[p].org \in {NoOrg, client[u].org}

GrantCheck(c, p, u) ==
  /\ Free(c) /\ project[p].made
  /\ client[u].org # NoOrg /\ SameTenant(p, u)
  /\ Goes(c, [Idle EXCEPT !.at = "upsert", !.projects = {p}, !.person = u, !.org = client[u].org,
                         !.bind = (project[p].org = NoOrg)])
  /\ UNCHANGED <<org, rows, deaths>>

Upsert(c) ==
  /\ call[c].at = "upsert"
  /\ access' = access \cup {<<p, call[c].person>> : p \in call[c].projects}
  /\ IF call[c].bind THEN Goes(c, [call[c] EXCEPT !.at = "overwrite"]) ELSE Answer(c)
  /\ UNCHANGED <<org, project, client, signedIn, deaths>>

----------------------------------------------------------------------------
(* deactivateOrg: the users read at the start lose their sessions.          *)

EndCheck(c, o) ==
  /\ Free(c) /\ org[o].made /\ ~ org[o].ended
  /\ Goes(c, [Idle EXCEPT !.at = "end", !.org = o, !.people = {u \in People : client[u].org = o}])
  /\ UNCHANGED <<org, rows, deaths>>

End(c) ==
  /\ call[c].at = "end"
  /\ org' = [org EXCEPT ![call[c].org].ended = TRUE]
  /\ Goes(c, [call[c] EXCEPT !.at = "revoke"])
  /\ UNCHANGED <<rows, deaths>>

Revoke(c, u) ==
  /\ call[c].at = "revoke" /\ u \in call[c].people
  /\ signedIn' = signedIn \ {u}
  /\ Goes(c, [call[c] EXCEPT !.people = @ \ {u}])
  /\ UNCHANGED <<org, project, client, access, deaths>>

Ended(c) ==
  /\ call[c].at = "revoke" /\ call[c].people = {}
  /\ Answer(c)
  /\ UNCHANGED <<org, rows, deaths>>

----------------------------------------------------------------------------
\* Somebody follows the invitation, or signs in again.
SignIn(u) ==
  /\ client[u].made /\ u \notin signedIn
  /\ signedIn' = signedIn \cup {u}
  /\ UNCHANGED <<org, project, client, access, call, deaths, raced>>

\* A query fails or the API restarts: what the call wrote before stays.
Die(c) ==
  /\ ~ Free(c) /\ deaths < MaxDeaths
  /\ deaths' = deaths + 1
  /\ Answer(c)
  /\ UNCHANGED <<org, rows>>

AdminStep(c) ==
  \/ Overwrite(c) \/ Invite(c) \/ Attach(c) \/ Onboard(c) \/ Upsert(c)
  \/ End(c) \/ Ended(c) \/ Die(c)
  \/ \E u \in People : Revoke(c, u)
  \/ \E o \in Orgs : ReserveForNew(c, o) \/ ReserveForOld(c, o) \/ EndCheck(c, o)
  \/ \E p \in Projects : CreateProject(c, p) \/ UpdateRead(c, p)
  \/ \E p \in Projects, u \in People : GrantCheck(c, p, u)
  \/ \E o \in Orgs, u \in People : UserCheck(c, o, u)
  \/ \E o \in Orgs, u \in People, n \in Names, P \in SUBSET Projects : OnboardCheck(c, o, u, n, P)

ClientsNext ==
  \/ \E c \in AdminCalls : AdminStep(c)
  \/ \E o \in Orgs, n \in Names : CreateOrg(o, n)
  \/ \E u \in People : SignIn(u)
=============================================================================
