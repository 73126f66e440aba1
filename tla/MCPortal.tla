------------------------------ MODULE MCPortal ------------------------------
(***************************************************************************)
(* Two families of behaviours: in "tenants" the Super Admin works on        *)
(* clients and projects and clients look at projects, in "files" one client  *)
(* is set up and its project's files are uploaded, scanned and downloaded.   *)
(***************************************************************************)
EXTENDS PortalProperties, TLC

CONSTANT site    \* the project of "files"
VARIABLE mode

MCHome == [v \in Versions |-> site]
MCSymmetry ==
  Permutations(Orgs) \cup Permutations(People) \cup Permutations(AdminCalls)
    \cup Permutations(Uploads) \cup Permutations(Workers)

\* Some client and one person of it.
SetUp ==
  /\ FilesInit /\ ask = [d \in Downloads |-> NoAsk] /\ seen = {}
  /\ \E acme \in Orgs, ann \in People :
       /\ org = [o \in Orgs |-> IF o = acme THEN [NoRow EXCEPT !.made = TRUE, !.name = CHOOSE n \in Names : TRUE]
                                ELSE NoRow]
       /\ project = [p \in Projects |-> [made |-> p = site, org |-> IF p = site THEN acme ELSE NoOrg]]
       /\ client = [u \in People |-> [made |-> u = ann, org |-> IF u = ann THEN acme ELSE NoOrg]]
       /\ access = {<<site, ann>>} /\ signedIn = {ann}
  /\ call = [c \in AdminCalls |-> Idle] /\ deaths = 0 /\ raced = {}

MCInit == \/ mode = "tenants" /\ PortalInit
          \/ mode = "files" /\ SetUp

\* After a death calls come one at a time; clients look while nothing died and no project is raced.
InTenants ==
  /\ UNCHANGED fileVars
  /\ \A d \in Downloads : ask'[d].item \notin Versions
  /\ deaths' > 0 => Cardinality({c \in AdminCalls : call'[c] # Idle}) <= 1
  /\ deaths' > 0 \/ raced' # {} => \A d \in Downloads : ask'[d] = NoAsk

\* Two objects per upload and two scans of it at a time.  Sharing, deleting and the client's
\* requests look at what a scan has left, so they happen between scans, the requests while nothing
\* has failed; downloads of the staff happen at any time.
Scans == BagCardinality(queue) + Cardinality({w \in Workers : worker[w] # AtRest})
           + Cardinality({f \in Uploads : upload[f] # NoUpload})
InFiles ==
  /\ UNCHANGED clientVars
  /\ Scans' <= 2
  /\ \A v \in Versions : Cardinality(past'[v] \ {NoContent}) <= 1
  /\ \A d \in Downloads : ask'[d].item \notin Projects
  /\ failures' > 0 => \A d \in Downloads : ask'[d] = NoAsk
  /\ (\E w \in Workers : worker'[w] # AtRest) =>
       /\ link' \in {link, Versions} /\ \A d \in Downloads : ask'[d] = NoAsk
       /\ \A v \in Versions : /\ version'[v].shared = version[v].shared
                              /\ version'[v].deleted => version[v].deleted \/ cleaning[v] = "row"

MCNext ==
  /\ PortalNext
  /\ UNCHANGED mode
  /\ (mode = "tenants" => InTenants) /\ (mode = "files" => InFiles)
MCSpec == MCInit /\ [][MCNext]_<<clientVars, fileVars, portalVars, mode>>
=============================================================================
