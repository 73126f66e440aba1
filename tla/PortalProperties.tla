-------------------------- MODULE PortalProperties --------------------------
(***************************************************************************)
(* What the tenant boundary, the scan pipeline and the portal promise.      *)
(***************************************************************************)
EXTENDS Portal

\* Every id stands for a row of its kind and every call for one of its steps.
TypeOK ==
  /\ org \in [Orgs -> [made : BOOLEAN, name : Names \cup {NoName}, ended : BOOLEAN]]
  /\ project \in [Projects -> [made : BOOLEAN, org : Orgs \cup {NoOrg}]]
  /\ client \in [People -> [made : BOOLEAN, org : Orgs \cup {NoOrg}]]
  /\ access \subseteq Projects \X People
  /\ signedIn \subseteq People
  /\ served \subseteq Contents \X BOOLEAN

\* Unless a call died half-way, a project was granted or shown to nobody but people of the client
\* it is bound to, or is just being bound to (client-admin.service.ts: "closed to every other
\* org, permanently"); the exception is a project that two calls were going to bind at once.
TenantBoundary ==
  deaths = 0 => \A g \in access \cup seen : g[1] \notin raced =>
    LET o == client[g[2]].org
    IN /\ o # NoOrg
       /\ \/ project[g[1]].org = o
          \/ \E c \in AdminCalls :
               call[c].at = "overwrite" /\ call[c].org = o /\ g[1] \in call[c].projects

\* Once a project is bound to an organization it stays bound to it, and no call is going to bind it
\* again, whichever calls interleave or die: of two that had both read it unbound the later one
\* takes it, and once neither is under way any more it is final.
Settled(p) == project[p].org # NoOrg /\ (p \in raced => \A c \in AdminCalls : ~ Binding(c, p))
BindingIsFinal ==
  [][\A p \in Projects : Settled(p) => project'[p].org = project[p].org /\ Settled(p)']_clientVars

\* A call that ended without dying left no half-made client: every account belongs to an
\* organization (onboardClient: "any failure aborts before anything is written").
OnboardingIsWhole ==
  deaths = 0 /\ (\A c \in AdminCalls : Free(c)) =>
    \A u \in People : client[u].made => client[u].org # NoOrg

\* A download serves what ClamAV flags only if it was put in place of the clean bytes the link
\* was handed out for, with an upload link that still worked then: through every later link
\* the bytes are clean, whatever was uploaded, scanned, cleaned up or restarted around it.
OnlyCleanIsServed == \A s \in served : s[1] \in Infected => s[2]

\* A version that says SCANNING is being scanned or about to be: a failing scan is tried
\* again or says ERROR.  Only a finalize cut off before it queued the scan, and a last attempt
\* that threw outside the guarded part of the scan, strand one.
ScanIsUnderway ==
  \A v \in Versions \ lost : version[v].status = "SCANNING" =>
    \/ \E f \in Uploads : upload[f] = [at |-> "enqueue", version |-> v]
    \/ \E j \in DOMAIN queue : j.version = v
    \/ \E w \in Workers : worker[w].version = v
=============================================================================
