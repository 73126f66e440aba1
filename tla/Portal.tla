------------------------------- MODULE Portal -------------------------------
(***************************************************************************)
(* The clients' portal over Clients and Files: a client's request checks    *)
(* that the organization is still active, reads which projects were granted *)
(* and answers from them; PortalService goes through FilesService for files.*)
(***************************************************************************)
EXTENDS Clients, Files

CONSTANTS Home    \* the project of each version's task

ASSUME PortalAssumption == Home \in [Versions -> Projects] /\ Projects \cap Versions = {}

VARIABLES
  ask,        \* one request per download call of Files
  seen        \* <<project, person>>: the project was shown to the person
portalVars == <<ask, seen>>

NoAsk == [at |-> "idle", person |-> NoPerson, item |-> NoVersion]
ProjectOf(item) == IF item \in Versions THEN Home[item] ELSE item

PortalInit ==
  /\ ClientsInit /\ FilesInit
  /\ ask = [d \in Downloads |-> NoAsk] /\ seen = {}

Asks(d, next) == ask' = [ask EXCEPT ![d] = next]
Refused(d) == Asks(d, NoAsk)

Ask(d, u, item) ==
  /\ ask[d] = NoAsk /\ download[d] = NoDownload /\ u \in signedIn
  /\ Asks(d, [at |-> "active", person |-> u, item |-> item])
  /\ UNCHANGED <<clientVars, fileVars, seen>>

\* assertActiveClient
ActiveClient(u) == client[u].org # NoOrg /\ ~ org[client[u].org].ended

AssertActive(d) ==
  /\ ask[d].at = "active"
  /\ IF ActiveClient(ask[d].person) THEN Asks(d, [ask[d] EXCEPT !.at = "scope"]) ELSE Refused(d)
  /\ UNCHANGED <<clientVars, fileVars, seen>>

Scope(d) ==
  /\ ask[d].at = "scope"
  /\ IF <<ProjectOf(ask[d].item), ask[d].person>> \in access
     THEN Asks(d, [ask[d] EXCEPT !.at = "fetch"]) ELSE Refused(d)
  /\ UNCHANGED <<clientVars, fileVars, seen>>

ShowProject(d) ==
  /\ ask[d].at = "fetch" /\ ask[d].item \in Projects
  /\ seen' = seen \cup {<<ask[d].item, ask[d].person>>}
  /\ Refused(d)
  /\ UNCHANGED <<clientVars, fileVars>>

\* FilesService.download for a client; assertTaskAccess finds the row that Scope found.
FetchFile(d) ==
  /\ ask[d].at = "fetch" /\ ask[d].item \in Versions
  /\ IF Readable(ask[d].item, TRUE) THEN DownloadRead(d, ask[d].item, TRUE)
     ELSE UNCHANGED fileVars
  /\ Refused(d)
  /\ UNCHANGED <<clientVars, seen>>

\* The API restarts: requests and handlers are gone.
PortalRestart ==
  /\ Restart
  /\ ask' = [d \in Downloads |-> NoAsk] /\ call' = [c \in AdminCalls |-> Idle]
  /\ deaths' = IF \E c \in AdminCalls : ~ Free(c) THEN deaths + 1 ELSE deaths
  /\ UNCHANGED <<org, rows, raced, seen>>

PortalNext ==
  \/ ClientsNext /\ UNCHANGED <<fileVars, portalVars>>
  \/ FilesStep /\ UNCHANGED <<clientVars, portalVars>>
  \/ PortalRestart
  \/ \E d \in Downloads :
       \/ AssertActive(d) \/ Scope(d) \/ ShowProject(d) \/ FetchFile(d)
       \/ \E u \in People, item \in Projects \cup Versions : Ask(d, u, item)

PortalSpec == PortalInit /\ [][PortalNext]_<<clientVars, fileVars, portalVars>>
=============================================================================
