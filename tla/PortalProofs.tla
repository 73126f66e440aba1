---------------------------- MODULE PortalProofs ----------------------------
(***************************************************************************)
(* Proofs about the portal.  The scanner reads the object's ETag, then its   *)
(* bytes, then the ETag again, while uploads replace it: what it vouches for *)
(* is clean because contents that were replaced do not return, and once the   *)
(* upload link has expired nothing replaces it under a download link.  A     *)
(* version that says SCANNING has a job, a worker or a finalize of its own.  *)
(* Grants stay within their tenant, and a project stays with the client it   *)
(* is bound to, but for projects that two calls were going to bind at once.  *)
(***************************************************************************)
EXTENDS PortalProperties, TLAPS

IsRow(r) == r = [x \in {"status", "shared", "deleted", "etag"} |-> r[x]]
IsScan(s) == s = [x \in {"at", "version", "tries", "etag"} |-> s[x]]
IsDownload(d) == d = [x \in {"at", "version", "etag", "open"} |-> d[x]]

VersionsInv ==
  /\ version = [v \in Versions |-> version[v]]
  /\ \A v \in Versions : IsRow(version[v]) /\ version[v].etag \notin Infected

\* What is stored now was never replaced.
StoreInv ==
  /\ object = [v \in Versions |-> object[v]]
  /\ past = [v \in Versions |-> past[v]]
  /\ \A v \in Versions : object[v] # NoContent => object[v] \notin past[v]

\* The ETag of a scan under way was stored at some time.  Once the bytes were found clean it is
\* the ETag of clean bytes or of a content that was replaced, and the second look tells them apart.
Fits(s, x, replaced) ==
  /\ s.at \in {"read", "again"} => s.etag \in {x} \cup replaced
  /\ s.at = "again" => s.etag \notin Infected \/ s.etag \in replaced
  /\ s.at = "vouch" => s.etag \notin Infected
ScansInv ==
  /\ worker = [w \in Workers |-> worker[w]]
  /\ \A w \in Workers : IsScan(worker[w])
  /\ \A w \in Workers, v \in Versions :
       worker[w].version = v => Fits(worker[w], object[v], past[v])

\* What a download was decided on is clean; what a link was handed out for after the upload link
\* had expired stays there or is removed.
Checked(k) ==
  k.version \in Versions /\ version[k.version].status # "none" /\ k.etag \notin Infected
Sealed(k) == k.version \notin link /\ object[k.version] \in {k.etag, NoContent}
DownloadsInv ==
  /\ download = [d \in Downloads |-> download[d]]
  /\ \A d \in Downloads :
       /\ IsDownload(download[d])
       /\ download[d].at \in {"check", "link"} => Checked(download[d])
       /\ download[d].at = "link" => download[d].open \/ Sealed(download[d])

\* The inductive invariant.
CleanInv == VersionsInv /\ StoreInv /\ ScansInv /\ DownloadsInv /\ OnlyCleanIsServed

-----------------------------------------------------------------------------
\* How the store moves: contents replaced are remembered.

StoreMoves ==
  \A v \in Versions :
    past[v] \subseteq past'[v] /\ object[v] \in {object'[v]} \cup past'[v]

LEMMA StoreStays ==
  ASSUME StoreInv, UNCHANGED store
  PROVE  StoreInv' /\ StoreMoves
  BY DEF StoreInv, StoreMoves, store

LEMMA RemovingMoves ==
  ASSUME StoreInv, NEW v, RemoveObject(v)
  PROVE  StoreInv' /\ StoreMoves
  <1>1. CASE UNCHANGED <<object, past>>
    BY <1>1, StoreStays DEF StoreInv, StoreMoves
  <1>2. CASE /\ object' = [object EXCEPT ![v] = NoContent]
             /\ past' = [past EXCEPT ![v] = @ \cup {object[v]}]
    BY <1>2 DEF StoreInv, StoreMoves
  <1> QED BY <1>1, <1>2 DEF RemoveObject

LEMMA PuttingMoves ==
  ASSUME StoreInv, NEW v \in Versions, NEW x \in Contents, Put(v, x)
  PROVE  StoreInv' /\ StoreMoves
  BY FilesAssumption DEF Put, StoreInv, StoreMoves

LEMMA ScansStay ==
  ASSUME ScansInv, StoreMoves, UNCHANGED worker
  PROVE  ScansInv'
  BY DEF ScansInv, StoreMoves, IsScan, Fits

-----------------------------------------------------------------------------
\* A step of a scan, in a store that stays or loses an object.

LEMMA OneScan ==
  ASSUME ScansInv, StoreMoves, NEW w \in Workers, NEW next, IsScan(next),
         \A v \in Versions : next.version = v => Fits(next, object[v], past[v]),
         worker' = [worker EXCEPT ![w] = next]
  PROVE  ScansInv'
  <1>1. \A u \in Workers :
          /\ IsScan(worker'[u])
          /\ \A v \in Versions : worker'[u].version = v => Fits(worker'[u], object[v], past[v])
    BY DEF ScansInv
  <1>2. \A s : \A v \in Versions :
          Fits(s, object[v], past[v]) => Fits(s, object'[v], past'[v])
    BY DEF StoreMoves, Fits
  <1>3. worker' = [u \in Workers |-> worker'[u]]
    BY DEF ScansInv
  <1>4. \A u \in Workers, v \in Versions :
          worker'[u].version = v => Fits(worker'[u], object'[v], past'[v])
    BY <1>1, <1>2
  <1>5. \A u \in Workers : IsScan(worker'[u])
    BY <1>1
  <1> QED BY <1>3, <1>4, <1>5 DEF ScansInv

LEMMA ScanStepKeeps ==
  ASSUME ScansInv, StoreInv, VersionsInv, NEW w \in Workers
  PROVE  /\ \A j : Take(w, j) => ScansInv'
         /\ Start(w) \/ Stat(w) \/ Read(w) \/ StatAgain(w) \/ Vouch(w) \/ ScanThrows(w)
            \/ Flag(w) \/ Pull(w) \/ Tell(w) \/ ScanFails(w) \/ ScanBreaks(w) => ScansInv'
  <1> DEFINE s == worker[w]
  <1>1. IsScan(s) /\ \A v \in Versions : s.version = v => Fits(s, object[v], past[v])
    BY DEF ScansInv
  <1>2. UNCHANGED store => StoreMoves
    BY StoreStays
  <1>3. /\ IsScan(AtRest)
        /\ \A v \in Versions : AtRest.version = v => Fits(AtRest, object[v], past[v])
    BY DEF AtRest, IsScan, Fits
  <1>4. worker' = [worker EXCEPT ![w] = AtRest] /\ UNCHANGED store => ScansInv'
    BY <1>2, <1>3, OneScan
  <1>5. ASSUME NEW at \in {"stat", "error", "flag", "pull", "tell"},
               worker' = [worker EXCEPT ![w].at = at], StoreMoves
        PROVE  ScansInv'
    <2> DEFINE next == [s EXCEPT !.at = at]
    <2>1. IsScan(next) /\ next.at = at /\ next.version = s.version
      BY <1>1 DEF IsScan
    <2>2. \A v \in Versions : next.version = v => Fits(next, object[v], past[v])
      BY <2>1 DEF Fits
    <2>3. worker' = [worker EXCEPT ![w] = next]
      BY <1>5
    <2> HIDE DEF next
    <2> QED BY <1>5, <2>1, <2>2, <2>3, OneScan
  <1>6. ASSUME NEW j, Take(w, j) PROVE ScansInv'
    <2> DEFINE next == [AtRest EXCEPT !.at = "start", !.version = j.version, !.tries = j.tries - 1]
    <2>1. IsScan(next) /\ next.at = "start"
      BY DEF AtRest, IsScan
    <2>2. \A v \in Versions : next.version = v => Fits(next, object[v], past[v])
      BY <2>1 DEF Fits
    <2>3. worker' = [worker EXCEPT ![w] = next] /\ UNCHANGED store
      BY <1>6 DEF Take
    <2> HIDE DEF next
    <2> QED BY <1>2, <2>1, <2>2, <2>3, OneScan
  <1>7. CASE Start(w)
    BY <1>2, <1>5, <1>7 DEF Start
  <1>8. CASE Stat(w)
    <2> DEFINE next == [s EXCEPT !.at = "read", !.etag = object[s.version]]
    <2>1. /\ IsScan(next) /\ next.at = "read" /\ next.version = s.version
          /\ next.etag = object[s.version]
      BY <1>1 DEF IsScan
    <2>2. \A v \in Versions : next.version = v => Fits(next, object[v], past[v])
      BY <2>1 DEF Fits
    <2>3. worker' = [worker EXCEPT ![w] = next] /\ UNCHANGED store
      BY <1>8 DEF Stat
    <2> HIDE DEF next
    <2> QED BY <1>2, <2>1, <2>2, <2>3, OneScan
  <1>9. CASE Read(w)
    <2> DEFINE next == [s EXCEPT !.at = "again"]
    <2>1. UNCHANGED store
      BY <1>9 DEF Read
    <2>2. CASE worker' = [worker EXCEPT ![w].at = "error"] \/ worker' = [worker EXCEPT ![w].at = "flag"]
      BY <1>2, <1>5, <2>1, <2>2
    <2>3. CASE worker' = [worker EXCEPT ![w] = next] /\ object[s.version] \notin Infected
      <3>1. /\ IsScan(next) /\ next.at = "again" /\ next.version = s.version
            /\ next.etag = s.etag
        BY <1>1 DEF IsScan
      <3>2. \A v \in Versions : next.version = v => Fits(next, object[v], past[v])
        BY <1>1, <1>9, <2>3, <3>1 DEF Fits, Read
      <3> HIDE DEF next
      <3> QED BY <1>2, <2>1, <2>3, <3>1, <3>2, OneScan
    <2>4. LET x == object[s.version]
              at == CASE x = NoContent -> "error" [] x \in Infected -> "flag" [] OTHER -> "again"
          IN worker' = [worker EXCEPT ![w].at = at]
      BY <1>9 DEF Read
    <2>5. CASE object[s.version] = NoContent
      BY <2>2, <2>4, <2>5, FilesAssumption
    <2>6. CASE object[s.version] # NoContent /\ object[s.version] \in Infected
      BY <2>2, <2>4, <2>6
    <2>7. CASE object[s.version] # NoContent /\ object[s.version] \notin Infected
      BY <2>3, <2>4, <2>7
    <2> QED BY <2>5, <2>6, <2>7
  <1>10. CASE StatAgain(w)
    <2> DEFINE next == [s EXCEPT !.at = "vouch"]
    <2>1. UNCHANGED store
      BY <1>10 DEF StatAgain
    <2>2. CASE worker' = [worker EXCEPT ![w].at = "error"]
      BY <1>2, <1>5, <2>1, <2>2
    <2>3. CASE worker' = [worker EXCEPT ![w] = next] /\ Unchanged(w)
      <3>1. /\ IsScan(next) /\ next.at = "vouch" /\ next.version = s.version
            /\ next.etag = s.etag
        BY <1>1 DEF IsScan
      <3>2. \A v \in Versions : next.version = v => Fits(next, object[v], past[v])
        BY <1>1, <1>10, <2>3, <3>1 DEF Fits, StatAgain, Unchanged, StoreInv
      <3> HIDE DEF next
      <3> QED BY <1>2, <2>1, <2>3, <3>1, <3>2, OneScan
    <2> QED BY <1>10, <2>2, <2>3 DEF StatAgain
  <1>11. CASE Vouch(w) \/ ScanThrows(w) \/ Tell(w) \/ ScanBreaks(w)
    BY <1>4, <1>11 DEF Vouch, ScanThrows, Tell, ScanBreaks, store
  <1>12. CASE Flag(w)
    BY <1>2, <1>5, <1>12 DEF Flag
  <1>13. CASE Pull(w)
    BY <1>5, <1>13, RemovingMoves DEF Pull
  <1>14. CASE ScanFails(w)
    BY <1>2, <1>5, <1>14 DEF ScanFails
  <1> QED
    BY <1>6, <1>7, <1>8, <1>9, <1>10, <1>11, <1>12, <1>13, <1>14

-----------------------------------------------------------------------------
\* The rows: only a scan that vouches writes an ETag.

LEMMA RowsStay ==
  ASSUME VersionsInv, UNCHANGED version
  PROVE  VersionsInv'
  BY DEF VersionsInv, IsRow

LEMMA StatusKeeps ==
  ASSUME VersionsInv, NEW v, NEW status, SetStatus(v, status)
  PROVE  VersionsInv'
  <1> DEFINE next == [version[v] EXCEPT !.status = status]
  <1>1. v \in Versions => IsRow(next) /\ next.etag \notin Infected
    BY DEF VersionsInv, IsRow
  <1>2. version' = [version EXCEPT ![v] = next]
    BY DEF SetStatus
  <1> HIDE DEF next
  <1> QED BY <1>1, <1>2 DEF VersionsInv, IsRow

LEMMA RowStepKeeps ==
  ASSUME VersionsInv, ScansInv
  PROVE  /\ \A w \in Workers : Vouch(w) => VersionsInv'
         /\ \A v \in Versions : CleanRow(v) \/ DeleteVersion(v) => VersionsInv'
         /\ \A v \in Versions, b \in BOOLEAN : SetVisibility(v, b) => VersionsInv'
  <1>1. ASSUME NEW v \in Versions, NEW next, IsRow(next), next.etag \notin Infected,
               version' = [version EXCEPT ![v] = next]
        PROVE  VersionsInv'
    BY <1>1 DEF VersionsInv, IsRow
  <1>2. ASSUME NEW w \in Workers, Vouch(w) PROVE VersionsInv'
    <2> DEFINE v == worker[w].version
               next == [version[v] EXCEPT !.status = "AVAILABLE", !.etag = worker[w].etag]
    <2>1. version' = [version EXCEPT ![v] = next]
      BY <1>2 DEF Vouch
    <2>2. CASE v \in Versions
      <3>1. worker[w].etag \notin Infected
        BY <1>2, <2>2 DEF Vouch, ScansInv, Fits
      <3>2. IsRow(next) /\ next.etag \notin Infected
        BY <2>2, <3>1 DEF VersionsInv, IsRow
      <3> HIDE DEF next
      <3> QED BY <1>1, <2>1, <2>2, <3>2
    <2>3. CASE v \notin Versions
      BY <2>1, <2>3, RowsStay DEF VersionsInv
    <2> QED BY <2>2, <2>3
  <1>3. ASSUME NEW v \in Versions, NEW next,
               next \in {[version[v] EXCEPT !.status = "ERROR", !.deleted = TRUE],
                         [version[v] EXCEPT !.deleted = TRUE],
                         [version[v] EXCEPT !.shared = TRUE],
                         [version[v] EXCEPT !.shared = FALSE]}
        PROVE  IsRow(next) /\ next.etag \notin Infected
    BY <1>3 DEF VersionsInv, IsRow
  <1>4. ASSUME NEW v \in Versions, CleanRow(v) PROVE VersionsInv'
    BY <1>1, <1>3, <1>4 DEF CleanRow
  <1>5. ASSUME NEW v \in Versions, DeleteVersion(v) PROVE VersionsInv'
    BY <1>1, <1>3, <1>5 DEF DeleteVersion
  <1>6. ASSUME NEW v \in Versions, NEW b \in BOOLEAN, SetVisibility(v, b) PROVE VersionsInv'
    BY <1>1, <1>3, <1>6 DEF SetVisibility
  <1> QED BY <1>2, <1>4, <1>5, <1>6

-----------------------------------------------------------------------------
\* A version that was made stays made; once its upload link has expired its object is only removed.
Made(v) == version[v].status # "none"
LinksEnd ==
  \A v \in Versions : Made(v) =>
    /\ Made(v)'
    /\ v \notin link => v \notin link' /\ object'[v] \in {object[v], NoContent}

LEMMA StatusSet ==
  ASSUME VersionsInv, NEW v \in Versions, NEW u, NEW status, SetStatus(u, status)
  PROVE  version'[v].status = IF v = u THEN status ELSE version[v].status
  BY DEF SetStatus, VersionsInv, IsRow

LEMMA MadeStays ==
  ASSUME VersionsInv, NEW u, NEW status, status # "none", SetStatus(u, status), NEW v \in Versions, Made(v)
  PROVE  Made(v)'
  BY StatusSet DEF Made

LEMMA RowMade ==
  ASSUME VersionsInv, NEW u, NEW next, u \in Versions /\ Made(u) => next.status # "none",
         version' = [version EXCEPT ![u] = next], NEW v \in Versions, Made(v)
  PROVE  Made(v)'
  BY DEF VersionsInv, Made

LEMMA RemovingEnds ==
  ASSUME StoreInv, NEW u, RemoveObject(u)
  PROVE  UNCHANGED link /\ \A v \in Versions : object'[v] \in {object[v], NoContent}
  BY DEF RemoveObject, StoreInv

LEMMA LinksStay ==
  ASSUME UNCHANGED <<version, store>>
  PROVE  LinksEnd
  BY DEF LinksEnd, Made, store

LEMMA WorkerLinks ==
  ASSUME VersionsInv, StoreInv, NEW w \in Workers, WorkerStep(w)
  PROVE  LinksEnd
  <1>1. UNCHANGED link /\ \A v \in Versions : object'[v] \in {object[v], NoContent}
    <2>1. UNCHANGED store \/ Pull(w)
      BY DEF WorkerStep, Start, Stat, Read, StatAgain, Vouch, ScanThrows, Flag, Tell,
             ScanFails, ScanBreaks, Take
    <2> QED BY <2>1, RemovingEnds DEF Pull, store
  <1>2. ASSUME NEW v \in Versions, Made(v) PROVE Made(v)'
    <2>1. \/ UNCHANGED version \/ Vouch(w)
          \/ \E s \in {"SCANNING", "ERROR", "INFECTED"} : SetStatus(worker[w].version, s)
      BY DEF WorkerStep, Start, Stat, Read, StatAgain, ScanThrows, Flag, Pull, Tell,
             ScanFails, ScanBreaks, Take, MarkFailed
    <2>2. CASE Vouch(w)
      <3> DEFINE u == worker[w].version
                 first == [version[u] EXCEPT !.status = "AVAILABLE"]
                 next == [first EXCEPT !.etag = worker[w].etag]
      <3>1. u \in Versions => IsRow(first) /\ first.status = "AVAILABLE"
        BY DEF VersionsInv, IsRow
      <3>2. version' = [version EXCEPT ![u] = next]
        BY <2>2 DEF Vouch
      <3> HIDE DEF first
      <3>3. u \in Versions => next.status = "AVAILABLE"
        BY <3>1 DEF IsRow
      <3> HIDE DEF next
      <3> QED BY <1>2, <3>2, <3>3, RowMade
    <2> QED BY <1>2, <2>1, <2>2, MadeStays DEF Made
  <1> QED BY <1>1, <1>2 DEF LinksEnd

LEMMA UploadLinks ==
  ASSUME VersionsInv, StoreInv, NEW f \in Uploads,
         Reject(f) \/ Refuse(f) \/ Mark(f) \/ Enqueue(f) \/ CallFails(f)
  PROVE  LinksEnd
  <1>1. UNCHANGED link /\ \A v \in Versions : object'[v] \in {object[v], NoContent}
    BY RemovingEnds DEF Reject, Refuse, Mark, Enqueue, CallFails, store
  <1>2. ASSUME NEW v \in Versions, Made(v) PROVE Made(v)'
    <2>1. \/ UNCHANGED version
          \/ \E s \in {"SCANNING", "ERROR"} : SetStatus(upload[f].version, s)
      BY DEF Reject, Refuse, Mark, Enqueue, CallFails
    <2> QED BY <1>2, <2>1, MadeStays DEF Made
  <1> QED BY <1>1, <1>2 DEF LinksEnd

LEMMA VersionLinks ==
  ASSUME VersionsInv, StoreInv, NEW v \in Versions, VersionStep(v)
  PROVE  LinksEnd
  <1>1. ASSUME NEW u \in Versions, Made(u), u \notin link
        PROVE  u \notin link' /\ object'[u] \in {object[u], NoContent}
    <2>1. CASE UNCHANGED <<object, link>> \/ LinkExpires(v)
      BY <1>1, <2>1 DEF LinkExpires
    <2>2. CASE InitUpload(v)
      BY <1>1, <2>2 DEF InitUpload, Made
    <2>3. CASE \E x \in Contents : Put(v, x)
      BY <1>1, <2>3 DEF Put, StoreInv
    <2>4. CASE CleanObject(v)
      BY <1>1, <2>4, RemovingEnds DEF CleanObject
    <2> QED BY <2>1, <2>2, <2>3, <2>4
            DEF VersionStep, CleanRow, DeleteVersion, SetVisibility, Finalize, DownloadRead, store
  <1>2. ASSUME NEW u \in Versions, Made(u) PROVE Made(u)'
    <2>1. CASE UNCHANGED version
      BY <1>2, <2>1 DEF Made
    <2>2. CASE SetStatus(v, "PENDING")
      BY <1>2, <2>2, MadeStays
    <2>3. CASE CleanRow(v)
      <3> DEFINE first == [version[v] EXCEPT !.status = "ERROR"]  next == [first EXCEPT !.deleted = TRUE]
      <3>1. IsRow(first) /\ first.status = "ERROR"
        BY DEF VersionsInv, IsRow
      <3>2. version' = [version EXCEPT ![v] = next]
        BY <2>3 DEF CleanRow
      <3> HIDE DEF first
      <3>3. next.status = "ERROR"
        BY <3>1 DEF IsRow
      <3> HIDE DEF next
      <3> QED BY <1>2, <3>2, <3>3, RowMade
    <2>4. CASE DeleteVersion(v) \/ \E b \in BOOLEAN : SetVisibility(v, b)
      <3>1. \E next : version' = [version EXCEPT ![v] = next] /\ next.status = version[v].status
        BY <2>4 DEF DeleteVersion, SetVisibility, VersionsInv, IsRow
      <3> QED BY <1>2, <3>1, RowMade DEF Made
    <2>5. \/ UNCHANGED version \/ CleanRow(v) \/ DeleteVersion(v)
          \/ \E b \in BOOLEAN : SetVisibility(v, b)
          \/ SetStatus(v, "PENDING")
      BY DEF VersionStep, InitUpload, LinkExpires, CleanObject, Put, Finalize, DownloadRead
    <2> QED BY <2>1, <2>2, <2>3, <2>4, <2>5
  <1> QED BY <1>1, <1>2 DEF LinksEnd

\* A download carries the ETag of the row it read, and a link that of the object it was made for.

LEMMA ChecksStay ==
  ASSUME LinksEnd, NEW k
  PROVE  (Checked(k) => Checked(k)') /\ (Checked(k) /\ Sealed(k) => Sealed(k)')
  BY DEF LinksEnd, Made, Checked, Sealed

LEMMA DownloadsStay ==
  ASSUME DownloadsInv, OnlyCleanIsServed, LinksEnd, UNCHANGED <<download, served>>
  PROVE  DownloadsInv' /\ OnlyCleanIsServed'
  <1>1. \A d \in Downloads : download[d].at \in {"check", "link"} => Checked(download[d])'
    BY ChecksStay DEF DownloadsInv, Checked
  <1>2. \A d \in Downloads : download[d].at = "link" => download[d].open \/ Sealed(download[d])'
    BY ChecksStay DEF DownloadsInv, Sealed
  <1> QED BY <1>1, <1>2 DEF DownloadsInv, OnlyCleanIsServed, IsDownload, Checked, Sealed

LEMMA NoDownloadFits == IsDownload(NoDownload) /\ NoDownload.at = "idle"
  BY DEF NoDownload, IsDownload

LEMMA DownloadGoes ==
  ASSUME DownloadsInv, UNCHANGED <<version, store>>, NEW d \in Downloads, NEW next, IsDownload(next),
         next.at \in {"check", "link"} => Checked(next),
         next.at = "link" => next.open \/ Sealed(next),
         download' = [download EXCEPT ![d] = next]
  PROVE  DownloadsInv'
  BY DEF DownloadsInv, IsDownload, Checked, Sealed, store

LEMMA DownloadReadKeeps ==
  ASSUME VersionsInv, DownloadsInv, OnlyCleanIsServed, NEW d \in Downloads,
         NEW v \in Versions, NEW isClient, DownloadRead(d, v, isClient)
  PROVE  DownloadsInv' /\ OnlyCleanIsServed'
  <1> DEFINE next == [at |-> "check", version |-> v, etag |-> version[v].etag, open |-> FALSE]
  <1>1. IsDownload(next) /\ next.at = "check" /\ Checked(next)
    BY DEF VersionsInv, IsDownload, Checked, DownloadRead, Readable
  <1>2. download' = [download EXCEPT ![d] = next] /\ UNCHANGED <<version, store, served>>
    BY DEF DownloadRead
  <1> HIDE DEF next
  <1> QED BY <1>1, <1>2, DownloadGoes DEF OnlyCleanIsServed

LEMMA DownloadCheckKeeps ==
  ASSUME DownloadsInv, OnlyCleanIsServed, NEW d \in Downloads, DownloadCheck(d)
  PROVE  DownloadsInv' /\ OnlyCleanIsServed'
  <1> DEFINE k == download[d]
             open == k.version \in link
             next == [at |-> "link", version |-> k.version, etag |-> object[k.version], open |-> open]
  <1>1. UNCHANGED <<version, store, served>> /\ Checked(k)
    BY DEF DownloadCheck, DownloadsInv
  <1>2. CASE UnchangedSinceScan(d)
    <2>1. IsDownload(next) /\ next.at = "link" /\ next.version = k.version
          /\ next.etag = object[k.version] /\ (next.open \/ k.version \notin link)
      BY DEF IsDownload
    <2>2. download' = [download EXCEPT ![d] = next]
      BY <1>2 DEF DownloadCheck
    <2> HIDE DEF next
    <2>3. Checked(next)
      BY <1>1, <1>2, <2>1 DEF Checked, UnchangedSinceScan
    <2>4. next.open \/ Sealed(next)
      BY <2>1 DEF Sealed
    <2> QED BY <1>1, <2>1, <2>2, <2>3, <2>4, DownloadGoes DEF OnlyCleanIsServed
  <1>3. CASE ~ UnchangedSinceScan(d)
    <2>1. download' = [download EXCEPT ![d] = NoDownload]
      BY <1>3 DEF DownloadCheck
    <2> QED BY <1>1, <2>1, NoDownloadFits, DownloadGoes DEF OnlyCleanIsServed
  <1> QED BY <1>2, <1>3

LEMMA ServeKeeps ==
  ASSUME DownloadsInv, OnlyCleanIsServed, NEW d \in Downloads, Serve(d)
  PROVE  DownloadsInv' /\ OnlyCleanIsServed'
  <1> DEFINE k == download[d]
             x == object[k.version]
             swapped == k.open /\ x # k.etag
  <1>1. UNCHANGED <<version, store, download>> /\ x # NoContent /\ served' = served \cup {<<x, swapped>>}
    BY DEF Serve
  <1>2. Checked(k) /\ (k.open \/ Sealed(k))
    BY DEF Serve, DownloadsInv
  <1>3. x \in Infected => swapped
    BY <1>1, <1>2 DEF Checked, Sealed
  <1>4. OnlyCleanIsServed'
    <2> HIDE DEF swapped, x
    <2> QED BY <1>1, <1>3 DEF OnlyCleanIsServed
  <1> QED BY <1>1, <1>4, LinksStay, DownloadsStay DEF DownloadsInv, IsDownload, Checked, Sealed, store

LEMMA DownloadEndsKeeps ==
  ASSUME DownloadsInv, OnlyCleanIsServed, NEW d \in Downloads, DownloadEnds(d)
  PROVE  DownloadsInv' /\ OnlyCleanIsServed'
  <1>1. download' = [download EXCEPT ![d] = NoDownload] /\ UNCHANGED <<version, store, served>>
    BY DEF DownloadEnds
  <1> QED BY <1>1, NoDownloadFits, DownloadGoes DEF OnlyCleanIsServed

-----------------------------------------------------------------------------
LEMMA CleanInitially == PortalInit => CleanInv
  <1> SUFFICES ASSUME FilesInit PROVE CleanInv
    BY DEF PortalInit
  <1>1. VersionsInv
    BY FilesAssumption DEF FilesInit, VersionsInv, IsRow, NoFile
  <1>2. StoreInv
    BY DEF FilesInit, StoreInv
  <1>3. /\ worker = [w \in Workers |-> AtRest] /\ IsScan(AtRest)
        /\ \A v \in Versions : Fits(AtRest, object[v], past[v])
    BY DEF FilesInit, AtRest, IsScan, Fits
  <1>4. ScansInv
    BY <1>3 DEF ScansInv
  <1>5. download = [d \in Downloads |-> NoDownload] /\ served = {}
    BY DEF FilesInit
  <1>6. DownloadsInv /\ OnlyCleanIsServed
    BY <1>5, NoDownloadFits DEF DownloadsInv, OnlyCleanIsServed
  <1> QED BY <1>1, <1>2, <1>4, <1>6 DEF CleanInv

LEMMA QuietKeeps ==
  ASSUME CleanInv, UNCHANGED <<version, store, worker, download, served>>
  PROVE  CleanInv'
  BY RowsStay, StoreStays, ScansStay, LinksStay, DownloadsStay DEF CleanInv

LEMMA WorkerKeeps ==
  ASSUME CleanInv, NEW w \in Workers, WorkerStep(w)
  PROVE  CleanInv'
  <1> USE DEF CleanInv
  <1>1. ScansInv'
    BY ScanStepKeeps DEF WorkerStep
  <1>2. UNCHANGED <<download, served>>
    BY DEF WorkerStep, Start, Stat, Read, StatAgain, Vouch, ScanThrows, Flag, Pull, Tell,
           ScanFails, ScanBreaks, Take
  <1>3. StoreInv'
    <2>1. UNCHANGED store \/ Pull(w)
      BY DEF WorkerStep, Start, Stat, Read, StatAgain, Vouch, ScanThrows, Flag, Tell,
             ScanFails, ScanBreaks, Take
    <2> QED BY <2>1, StoreStays, RemovingMoves DEF Pull
  <1>4. VersionsInv'
    <2>1. \/ UNCHANGED version \/ Vouch(w)
          \/ \E s : SetStatus(worker[w].version, s)
      BY DEF WorkerStep, Start, Stat, Read, StatAgain, ScanThrows, Flag, Pull, Tell,
             ScanFails, ScanBreaks, Take, MarkFailed
    <2> QED BY <2>1, RowsStay, RowStepKeeps, StatusKeeps
  <1> QED BY <1>1, <1>2, <1>3, <1>4, WorkerLinks, DownloadsStay

LEMMA VersionKeeps ==
  ASSUME CleanInv, NEW v \in Versions, VersionStep(v)
  PROVE  CleanInv'
  <1> USE DEF CleanInv
  <1>1. UNCHANGED worker
    BY DEF VersionStep, InitUpload, LinkExpires, CleanObject, CleanRow, DeleteVersion, Put,
           SetVisibility, Finalize, DownloadRead
  <1>2. StoreInv' /\ StoreMoves
    <2>1. \/ UNCHANGED <<object, past>> \/ CleanObject(v)
          \/ \E x \in Contents : Put(v, x)
      BY DEF VersionStep, InitUpload, LinkExpires, CleanRow, DeleteVersion, SetVisibility,
             Finalize, DownloadRead, store
    <2>2. UNCHANGED <<object, past>> => StoreInv' /\ StoreMoves
      BY DEF StoreInv, StoreMoves
    <2> QED BY <2>1, <2>2, RemovingMoves, PuttingMoves DEF CleanObject
  <1>3. VersionsInv'
    <2>1. \/ UNCHANGED version \/ CleanRow(v) \/ DeleteVersion(v)
          \/ \E b \in BOOLEAN : SetVisibility(v, b)
          \/ SetStatus(v, "PENDING")
      BY DEF VersionStep, InitUpload, LinkExpires, CleanObject, Put, Finalize, DownloadRead
    <2> QED BY <2>1, RowsStay, RowStepKeeps, StatusKeeps
  <1>4. DownloadsInv' /\ OnlyCleanIsServed'
    <2>1. UNCHANGED <<download, served>> \/ \E d \in Downloads : DownloadRead(d, v, FALSE)
      BY DEF VersionStep, InitUpload, LinkExpires, CleanObject, CleanRow, DeleteVersion, Put,
             SetVisibility, Finalize
    <2> QED BY <2>1, VersionLinks, DownloadsStay, DownloadReadKeeps
  <1> QED BY <1>1, <1>2, <1>3, <1>4, ScansStay

LEMMA UploadKeeps ==
  ASSUME CleanInv, NEW f \in Uploads, Reject(f) \/ Refuse(f) \/ Mark(f) \/ Enqueue(f) \/ CallFails(f)
  PROVE  CleanInv'
  <1> USE DEF CleanInv
  <1>1. UNCHANGED <<worker, download, served>>
    BY DEF Reject, Refuse, Mark, Enqueue, CallFails
  <1>2. StoreInv' /\ StoreMoves
    BY StoreStays, RemovingMoves DEF Reject, Refuse, Mark, Enqueue, CallFails
  <1>3. VersionsInv'
    BY RowsStay, StatusKeeps DEF Reject, Refuse, Mark, Enqueue, CallFails
  <1> QED BY <1>1, <1>2, <1>3, UploadLinks, ScansStay, DownloadsStay

LEMMA RestartKeeps ==
  ASSUME CleanInv, Restart
  PROVE  CleanInv'
  <1> USE DEF CleanInv
  <1>1. /\ download' = [d \in Downloads |-> IF download[d].at = "link" THEN download[d] ELSE NoDownload]
        /\ worker' = [w \in Workers |-> AtRest] /\ UNCHANGED <<version, store, served>>
    BY DEF Restart
  <1>2. \A v \in Versions : Fits(AtRest, object'[v], past'[v]) /\ IsScan(AtRest)
    BY DEF Fits, AtRest, IsScan
  <1>3. IsScan(AtRest)
    BY DEF AtRest, IsScan
  <1>4. ScansInv'
    BY <1>1, <1>2, <1>3 DEF ScansInv
  <1>5. DownloadsInv' /\ OnlyCleanIsServed'
    BY <1>1, NoDownloadFits DEF DownloadsInv, OnlyCleanIsServed, IsDownload, Checked, Sealed, store
  <1> QED BY <1>1, <1>4, <1>5, RowsStay, StoreStays

LEMMA FilesStepKeeps ==
  ASSUME CleanInv, FilesStep
  PROVE  CleanInv'
  <1>1. ASSUME NEW V, CleanupRead(V) PROVE CleanInv'
    BY <1>1, QuietKeeps DEF CleanupRead
  <1>2. ASSUME NEW d \in Downloads, DownloadCheck(d) \/ Serve(d) \/ DownloadEnds(d) PROVE CleanInv'
    <2>1. UNCHANGED <<version, store, worker>>
      BY <1>2 DEF DownloadCheck, Serve, DownloadEnds
    <2> QED BY <1>2, <2>1, RowsStay, StoreStays, ScansStay, DownloadCheckKeeps, ServeKeeps,
               DownloadEndsKeeps DEF CleanInv
  <1> QED BY <1>1, <1>2, WorkerKeeps, VersionKeeps, UploadKeeps DEF FilesStep

LEMMA CleanStep == CleanInv /\ [PortalNext]_<<clientVars, fileVars, portalVars>> => CleanInv'
  <1> SUFFICES ASSUME CleanInv, [PortalNext]_<<clientVars, fileVars, portalVars>> PROVE CleanInv'
    OBVIOUS
  <1>1. CASE UNCHANGED fileVars
    BY <1>1, QuietKeeps DEF fileVars, store
  <1>2. CASE FilesStep
    BY <1>2, FilesStepKeeps
  <1>3. CASE Restart
    BY <1>3, RestartKeeps
  <1>4. ASSUME NEW d \in Downloads, NEW v \in Versions, DownloadRead(d, v, TRUE)
        PROVE  CleanInv'
    <2>1. UNCHANGED <<version, store, worker>>
      BY <1>4 DEF DownloadRead
    <2> QED BY <1>4, <2>1, RowsStay, StoreStays, ScansStay, DownloadReadKeeps DEF CleanInv
  <1>5. ASSUME NEW d \in Downloads, FetchFile(d) PROVE CleanInv'
    BY <1>1, <1>4, <1>5 DEF FetchFile
  <1>6. CASE UNCHANGED <<clientVars, fileVars, portalVars>>
    BY <1>1, <1>6
  <1>7. CASE PortalNext
    BY <1>1, <1>2, <1>3, <1>5, <1>7
       DEF PortalNext, PortalRestart, AssertActive, Scope, ShowProject, Ask
  <1> QED BY <1>6, <1>7

\* ScanService.scan, FilesService.download: whatever is uploaded, scanned, cleaned up, retried or
\* cut off around it, bytes ClamAV flags are downloaded only if they were put in place of clean
\* ones with an upload link that still worked when the download link was handed out.
THEOREM ServedIsClean == PortalSpec => []OnlyCleanIsServed
  <1>1. CleanInv => OnlyCleanIsServed
    BY DEF CleanInv
  <1> QED BY <1>1, CleanInitially, CleanStep, PTL DEF PortalSpec

-----------------------------------------------------------------------------
\* Scans under way.  Who will decide a version: a finalize that is about to queue it, its job, or
\* a worker that has not written its verdict yet (one that has may still hold its job).
IsUpload(k) == k = [x \in {"at", "version"} |-> k[x]]
Finalizing(v) == \E f \in Uploads : upload[f].at = "enqueue" /\ upload[f].version = v
Queued(v) == \E j \in DOMAIN queue : j.version = v
ScannedBy(w, v) == worker[w].version = v /\ worker[w].at \notin {"pull", "tell"}
Underway(v) == Finalizing(v) \/ Queued(v) \/ \E w \in Workers : ScannedBy(w, v)
UploadsInv ==
  /\ upload = [f \in Uploads |-> upload[f]]
  /\ \A f \in Uploads : IsUpload(upload[f])
ScanningInv == \A v \in Versions \ lost : version[v].status = "SCANNING" => Underway(v)
TriesInv ==
  /\ \A j \in DOMAIN queue : j.tries \in Nat \ {0}
  /\ \A w \in Workers : worker[w].tries \in Nat
UnderwayInv == CleanInv /\ UploadsInv /\ ScanningInv /\ TriesInv

LEMMA QueueGrows ==
  ASSUME NEW v, NEW n, queue' = BagAdd(queue, Job(v, n))
  PROVE  Queued(v)' /\ DOMAIN queue \subseteq DOMAIN queue'
  <1>1. Job(v, n).version = v
    BY DEF Job
  <1>2. DOMAIN queue' = DOMAIN queue \cup {Job(v, n)}
    BY DEF BagAdd
  <1> QED BY <1>1, <1>2 DEF Queued

LEMMA QueueShrinks ==
  ASSUME NEW j, queue' = BagRemove(queue, j)
  PROVE  DOMAIN queue \ {j} \subseteq DOMAIN queue'
  BY DEF BagRemove

\* What a step may do to the rows, the queue and the workers.
StatusKept(v) == version'[v].status = "SCANNING" => version[v].status = "SCANNING"

\* A step of an upload.
LEMMA UploadUnderway ==
  ASSUME UnderwayInv, NEW f \in Uploads,
         Reject(f) \/ Refuse(f) \/ Mark(f) \/ Enqueue(f) \/ CallFails(f)
  PROVE  UploadsInv' /\ ScanningInv'
  <1> DEFINE k == upload[f]
  <1>1. IsUpload(k) /\ VersionsInv /\ UNCHANGED worker /\ (UNCHANGED lost \/ CallFails(f))
    BY DEF UnderwayInv, UploadsInv, CleanInv, Reject, Refuse, Mark, Enqueue, CallFails
  <1>2. \A g \in Uploads : g # f => upload'[g] = upload[g]
    BY DEF UnderwayInv, UploadsInv, Reject, Refuse, Mark, Enqueue, CallFails
  <1>3. ASSUME NEW at, upload' = [upload EXCEPT ![f].at = at]
        PROVE  UploadsInv' /\ upload'[f].at = at /\ upload'[f].version = k.version
    <2> DEFINE next == [k EXCEPT !.at = at]
    <2>1. IsUpload(next) /\ next.at = at /\ next.version = k.version
      BY <1>1 DEF IsUpload
    <2>2. upload' = [upload EXCEPT ![f] = next]
      BY <1>3
    <2> HIDE DEF next
    <2> QED BY <2>1, <2>2 DEF UnderwayInv, UploadsInv
  <1>4. ASSUME upload' = [upload EXCEPT ![f] = NoUpload]
        PROVE  UploadsInv'
    BY <1>4 DEF UnderwayInv, UploadsInv, NoUpload, IsUpload
  <1>5. CASE Reject(f)
    <2>1. k.at = "reject" /\ UNCHANGED <<version, queue, lost>> /\ upload' = [upload EXCEPT ![f].at = "refuse"]
      BY <1>5 DEF Reject
    <2>2. \A v : Finalizing(v) => Finalizing(v)'
      BY <1>2, <2>1 DEF Finalizing
    <2> QED BY <1>1, <1>3, <2>1, <2>2 DEF UnderwayInv, ScanningInv, Underway, Queued, ScannedBy
  <1>6. CASE Refuse(f)
    <2>1. k.at = "refuse" /\ UNCHANGED <<queue, lost>> /\ SetStatus(k.version, "ERROR")
          /\ upload' = [upload EXCEPT ![f] = NoUpload]
      BY <1>6 DEF Refuse
    <2>2. \A v : Finalizing(v) => Finalizing(v)'
      BY <1>2, <2>1 DEF Finalizing
    <2>3. \A v \in Versions : StatusKept(v)
      BY <1>1, <2>1, StatusSet DEF StatusKept
    <2> QED BY <1>1, <1>4, <2>1, <2>2, <2>3
            DEF UnderwayInv, ScanningInv, Underway, Queued, ScannedBy, StatusKept
  <1>7. CASE Mark(f)
    <2>1. k.at = "mark" /\ UNCHANGED <<queue, lost>> /\ SetStatus(k.version, "SCANNING")
          /\ upload' = [upload EXCEPT ![f].at = "enqueue"]
      BY <1>7 DEF Mark
    <2>2. \A v : Finalizing(v) => Finalizing(v)'
      BY <1>2, <2>1 DEF Finalizing
    <2>3. \A v : v = k.version => Finalizing(v)'
      BY <1>3, <2>1 DEF Finalizing
    <2>4. \A v \in Versions : v # k.version => version'[v].status = version[v].status
      BY <1>1, <2>1, StatusSet
    <2> QED BY <1>1, <1>3, <2>1, <2>2, <2>3, <2>4
            DEF UnderwayInv, ScanningInv, Underway, Queued, ScannedBy
  <1>8. CASE Enqueue(f)
    <2>1. UNCHANGED <<version, lost>> /\ upload' = [upload EXCEPT ![f] = NoUpload]
          /\ queue' = BagAdd(queue, Job(k.version, Attempts))
      BY <1>8 DEF Enqueue
    <2>2. \A v : v = k.version => Queued(v)'
      BY <2>1, QueueGrows DEF Queued
    <2>3. \A v : Queued(v) => Queued(v)'
      BY <2>1, QueueGrows DEF Queued
    <2>4. \A v : Finalizing(v) => v = k.version \/ Finalizing(v)'
      BY <1>2 DEF Finalizing
    <2> QED BY <1>1, <1>4, <2>1, <2>2, <2>3, <2>4
            DEF UnderwayInv, ScanningInv, Underway, ScannedBy
  <1>9. CASE CallFails(f)
    <2>1. /\ UNCHANGED <<version, queue>> /\ upload' = [upload EXCEPT ![f] = NoUpload]
          /\ lost \subseteq lost' /\ (k.at = "enqueue" => k.version \in lost')
      BY <1>9 DEF CallFails
    <2>2. \A v : Finalizing(v) => v \in lost' \/ Finalizing(v)'
      BY <1>2, <2>1 DEF Finalizing
    <2> QED BY <1>1, <1>4, <2>1, <2>2 DEF UnderwayInv, ScanningInv, Underway, Queued, ScannedBy
  <1> QED BY <1>5, <1>6, <1>7, <1>8, <1>9

\* A step of a worker.
LEMMA OthersUnderway ==
  ASSUME NEW w \in Workers, UNCHANGED upload, DOMAIN queue \subseteq DOMAIN queue',
         \A u \in Workers : u # w => worker'[u] = worker[u]
  PROVE  \A v : Underway(v) => Underway(v)' \/ ScannedBy(w, v)
  BY DEF Underway, Finalizing, Queued, ScannedBy

LEMMA WorkerUnderway ==
  ASSUME UnderwayInv, NEW w \in Workers, WorkerStep(w)
  PROVE  UploadsInv' /\ ScanningInv'
  <1> DEFINE s == worker[w]
  <1>1. IsScan(s) /\ VersionsInv /\ UNCHANGED upload
    BY DEF UnderwayInv, CleanInv, ScansInv, WorkerStep, Start, Stat, Read, StatAgain, Vouch, ScanThrows,
       Flag, Pull, Tell, ScanFails, ScanBreaks, Take
  <1>2. \A u \in Workers : u # w => worker'[u] = worker[u]
    BY DEF UnderwayInv, CleanInv, ScansInv, WorkerStep, Start, Stat, Read, StatAgain, Vouch, ScanThrows,
       Flag, Pull, Tell, ScanFails, ScanBreaks, Take
  <1>3. UploadsInv'
    BY <1>1 DEF UnderwayInv, UploadsInv
  <1>4. ASSUME NEW v \in Versions \ lost', version'[v].status = "SCANNING",
               lost \subseteq lost', DOMAIN queue \subseteq DOMAIN queue',
               \/ version'[v].status = version[v].status /\ (ScannedBy(w, v) => Underway(v)')
               \/ Underway(v)'
        PROVE  Underway(v)'
    BY <1>1, <1>2, <1>4, OthersUnderway DEF UnderwayInv, ScanningInv
  <1>5. ASSUME \E at : /\ at \notin {"pull", "tell"}
                       /\ \/ worker' = [worker EXCEPT ![w].at = at]
                          \/ \E etag : worker' = [worker EXCEPT ![w].at = at, ![w].etag = etag]
        PROVE  \A v : v = s.version => Underway(v)'
    <2>0. PICK at : /\ at \notin {"pull", "tell"}
                    /\ \/ worker' = [worker EXCEPT ![w].at = at]
                       \/ \E etag : worker' = [worker EXCEPT ![w].at = at, ![w].etag = etag]
      BY <1>5
    <2> DEFINE next == [s EXCEPT !.at = at]
    <2>1. IsScan(next) /\ next.at = at /\ next.version = s.version
      BY <1>1 DEF IsScan
    <2>2. \A etag : LET read == [next EXCEPT !.etag = etag]
                    IN read.at = at /\ read.version = s.version
      BY <2>1 DEF IsScan
    <2>3. \/ worker' = [worker EXCEPT ![w] = next]
          \/ \E etag : worker' = [worker EXCEPT ![w] = [next EXCEPT !.etag = etag]]
      BY <2>0
    <2> HIDE DEF next
    <2>4. worker'[w].at = at /\ worker'[w].version = s.version
      BY <2>1, <2>2, <2>3 DEF UnderwayInv, CleanInv, ScansInv
    <2> QED BY <2>0, <2>4 DEF Underway, ScannedBy
  <1>6. CASE Start(w) \/ Stat(w) \/ Read(w) \/ StatAgain(w) \/ ScanFails(w)
    <2>1. \A v : v = s.version => Underway(v)'
      <3>1. CASE Start(w)
        BY <1>5, <3>1 DEF Start
      <3>2. CASE Stat(w)
        BY <1>5, <3>2 DEF Stat
      <3>3. CASE Read(w)
        <4> DEFINE x == object[s.version]
                   at == CASE x = NoContent -> "error" [] x \in Infected -> "flag" [] OTHER -> "again"
        <4>1. worker' = [worker EXCEPT ![w].at = at]
          BY <3>3 DEF Read
        <4>2. at \notin {"pull", "tell"}
          OBVIOUS
        <4> HIDE DEF at
        <4> QED BY <1>5, <4>1, <4>2
      <3>4. CASE StatAgain(w)
        <4> DEFINE at == IF Unchanged(w) THEN "vouch" ELSE "error"
        <4>1. worker' = [worker EXCEPT ![w].at = at]
          BY <3>4 DEF StatAgain
        <4>2. at \notin {"pull", "tell"}
          OBVIOUS
        <4> HIDE DEF at
        <4> QED BY <1>5, <4>1, <4>2
      <3>5. CASE ScanFails(w)
        BY <1>5, <3>5 DEF ScanFails
      <3> QED BY <1>6, <3>1, <3>2, <3>3, <3>4, <3>5
    <2>2. UNCHANGED <<queue, lost>> /\ \A v \in Versions : v # s.version =>
                                          version'[v].status = version[v].status
      BY <1>1, <1>6, StatusSet DEF Start, Stat, Read, StatAgain, ScanFails
    <2>3. \A v : ScannedBy(w, v) => v = s.version
      BY DEF ScannedBy
    <2> QED BY <1>3, <1>4, <2>1, <2>2, <2>3 DEF ScanningInv
  <1>7. CASE Pull(w) \/ Tell(w)
    <2>1. s.at \in {"pull", "tell"} /\ UNCHANGED <<version, queue, lost>>
      BY <1>7 DEF Pull, Tell
    <2> QED BY <1>3, <1>4, <2>1 DEF ScanningInv, ScannedBy
  <1>8. CASE Vouch(w) \/ Flag(w) \/ ScanThrows(w)
    <2>1. \A v \in Versions : /\ v = s.version => version'[v].status # "SCANNING"
                              /\ v # s.version => version'[v].status = version[v].status
      <3>1. CASE Vouch(w)
        <4> DEFINE first(v) == [version[v] EXCEPT !.status = "AVAILABLE"]
                   next(v) == [first(v) EXCEPT !.etag = s.etag]
        <4>1. \A v \in Versions : IsRow(first(v)) /\ first(v).status = "AVAILABLE"
          BY <1>1 DEF VersionsInv, IsRow
        <4>2. version' = [version EXCEPT ![s.version] = next(s.version)]
          BY <3>1 DEF Vouch
        <4> HIDE DEF first
        <4>3. \A v \in Versions : next(v).status = "AVAILABLE"
          BY <4>1 DEF IsRow
        <4> HIDE DEF next
        <4> QED BY <1>1, <4>2, <4>3 DEF VersionsInv
      <3>2. CASE Flag(w)
        BY <1>1, <3>2, StatusSet DEF Flag
      <3>3. CASE ScanThrows(w)
        BY <1>1, <3>3, StatusSet DEF ScanThrows, MarkFailed
      <3> QED BY <1>8, <3>1, <3>2, <3>3
    <2>2. UNCHANGED lost /\ DOMAIN queue \subseteq DOMAIN queue'
      BY <1>8, QueueGrows DEF Vouch, Flag, ScanThrows, Retry
    <2> QED BY <1>3, <1>4, <2>1, <2>2 DEF ScanningInv, ScannedBy
  <1>9. CASE ScanBreaks(w)
    <2>1. UNCHANGED version /\ DOMAIN queue \subseteq DOMAIN queue' /\ lost \subseteq lost'
      BY <1>9, QueueGrows DEF ScanBreaks, Retry
    <2>2. ASSUME NEW v \in Versions \ lost', v = s.version PROVE Underway(v)'
      <3>1. s.tries # 0
        BY <1>9, <2>2 DEF ScanBreaks
      <3>2. s.tries > 0
        BY <3>1 DEF UnderwayInv, TriesInv
      <3> QED BY <1>9, <2>2, <3>2, QueueGrows DEF ScanBreaks, Retry, Underway, Queued
    <2> QED BY <1>3, <1>4, <2>1, <2>2 DEF ScanningInv, ScannedBy
  <1>10. ASSUME NEW j \in DOMAIN queue, Take(w, j) PROVE ScanningInv'
    <2> DEFINE next == [AtRest EXCEPT !.at = "start", !.version = j.version, !.tries = j.tries - 1]
    <2>1. s = AtRest /\ queue' = BagRemove(queue, j) /\ UNCHANGED <<version, lost, upload>>
          /\ worker' = [worker EXCEPT ![w] = next]
      BY <1>10 DEF Take
    <2>2. next.at = "start" /\ next.version = j.version
      BY DEF AtRest
    <2> HIDE DEF next
    <2>3. \A v : v = j.version => ScannedBy(w, v)'
      BY <2>1, <2>2 DEF ScannedBy, UnderwayInv, CleanInv, ScansInv
    <2>4. \A v : Queued(v) => Queued(v)' \/ v = j.version
      BY <2>1, QueueShrinks DEF Queued
    <2>5. \A v \in Versions : ~ ScannedBy(w, v)
      BY <2>1, FilesAssumption DEF ScannedBy, AtRest
    <2>6. \A v \in Versions : Underway(v) => Underway(v)'
      BY <1>2, <2>1, <2>3, <2>4, <2>5 DEF Underway, Finalizing, ScannedBy
    <2> QED BY <2>1, <2>6 DEF UnderwayInv, ScanningInv
  <1> QED BY <1>3, <1>6, <1>7, <1>8, <1>9, <1>10 DEF WorkerStep

\* No job and no worker runs out of attempts unnoticed.
LEMMA JobTries == \A v, n : Job(v, n).tries = n
  BY DEF Job

LEMMA AddedDomain == \A v, n : DOMAIN BagAdd(queue, Job(v, n)) = DOMAIN queue \cup {Job(v, n)}
  BY DEF BagAdd

LEMMA RemovedDomain == \A j : DOMAIN BagRemove(queue, j) \subseteq DOMAIN queue
  BY DEF BagRemove

LEMMA WorkerTries ==
  ASSUME CleanInv, TriesInv, NEW w \in Workers, WorkerStep(w)
  PROVE  TriesInv'
  <1> DEFINE s == worker[w]
  <1>1. IsScan(s) /\ s.tries \in Nat
    BY DEF CleanInv, ScansInv, TriesInv
  <1>2. \A u \in Workers : u # w => worker'[u] = worker[u]
    BY DEF CleanInv, ScansInv, WorkerStep, Start, Stat, Read, StatAgain, Vouch, ScanThrows,
       Flag, Pull, Tell, ScanFails, ScanBreaks, Take
  <1>3. AtRest.tries = 0
    BY DEF AtRest
  <1>4. ASSUME NEW at, NEW etag, worker' \in {[worker EXCEPT ![w].at = at],
                                              [worker EXCEPT ![w].at = at, ![w].etag = etag]}
        PROVE  worker'[w].tries = s.tries
    <2> DEFINE next == [s EXCEPT !.at = at]  read == [next EXCEPT !.etag = etag]
    <2>1. IsScan(next) /\ next.tries = s.tries
      BY <1>1 DEF IsScan
    <2>2. worker' = [worker EXCEPT ![w] = next] \/ worker' = [worker EXCEPT ![w] = read]
      BY <1>4
    <2> HIDE DEF next
    <2>3. read.tries = s.tries
      BY <2>1 DEF IsScan
    <2> HIDE DEF read
    <2> QED BY <2>1, <2>2, <2>3 DEF CleanInv, ScansInv
  <1>5. CASE \/ Start(w) \/ Stat(w) \/ Read(w) \/ StatAgain(w) \/ ScanFails(w) \/ Pull(w)
             \/ Flag(w)
    <2>1. worker'[w].tries = s.tries
      <3>1. CASE Start(w)
        BY <1>4, <3>1 DEF Start
      <3>2. CASE Stat(w)
        <4> DEFINE etag == object[s.version]
        <4>1. worker' = [worker EXCEPT ![w].at = "read", ![w].etag = etag]
          BY <3>2 DEF Stat
        <4> HIDE DEF etag
        <4>2. worker' \in {[worker EXCEPT ![w].at = "read"],
                          [worker EXCEPT ![w].at = "read", ![w].etag = etag]}
          BY <4>1, Zenon
        <4> QED BY <1>4, <4>2
      <3>3. CASE Read(w)
        <4> DEFINE x == object[s.version]
                   at == CASE x = NoContent -> "error" [] x \in Infected -> "flag" [] OTHER -> "again"
        <4>1. worker' = [worker EXCEPT ![w].at = at]
          BY <3>3 DEF Read
        <4> HIDE DEF at
        <4> QED BY <1>4, <4>1
      <3>4. CASE StatAgain(w)
        <4> DEFINE at == IF Unchanged(w) THEN "vouch" ELSE "error"
        <4>1. worker' = [worker EXCEPT ![w].at = at]
          BY <3>4 DEF StatAgain
        <4> HIDE DEF at
        <4> QED BY <1>4, <4>1
      <3>5. CASE ScanFails(w)
        BY <1>4, <3>5 DEF ScanFails
      <3>6. CASE Pull(w)
        BY <1>4, <3>6 DEF Pull
      <3>7. CASE Flag(w)
        BY <1>4, <3>7 DEF Flag
      <3> QED BY <1>5, <3>1, <3>2, <3>3, <3>4, <3>5, <3>6, <3>7
    <2>2. UNCHANGED queue
      BY <1>5 DEF Start, Stat, Read, StatAgain, ScanFails, Pull, Flag
    <2> QED BY <1>1, <1>2, <2>1, <2>2 DEF TriesInv
  <1>6. CASE Vouch(w) \/ Tell(w) \/ ScanThrows(w) \/ ScanBreaks(w)
    <2>1. worker'[w] = AtRest
      BY <1>6 DEF Vouch, Tell, ScanThrows, ScanBreaks, CleanInv, ScansInv
    <2>2. UNCHANGED queue \/ (s.tries > 0 /\ queue' = BagAdd(queue, Job(s.version, s.tries)))
      BY <1>6 DEF Vouch, Tell, ScanThrows, ScanBreaks, Retry
    <2>3. \A j \in DOMAIN queue' : j.tries \in Nat \ {0}
      <3>1. CASE UNCHANGED queue
        BY <3>1 DEF TriesInv
      <3>2. CASE s.tries > 0 /\ queue' = BagAdd(queue, Job(s.version, s.tries))
        <4>1. Job(s.version, s.tries).tries = s.tries /\ s.tries \in Nat \ {0}
          BY <1>1, <3>2, JobTries
        <4>2. DOMAIN queue' = DOMAIN queue \cup {Job(s.version, s.tries)}
          BY <3>2, AddedDomain
        <4> QED BY <4>1, <4>2 DEF TriesInv
      <3> QED BY <2>2, <3>1, <3>2
    <2> QED BY <1>2, <1>3, <2>1, <2>3 DEF TriesInv
  <1>7. ASSUME NEW j \in DOMAIN queue, Take(w, j) PROVE TriesInv'
    <2> DEFINE next == [AtRest EXCEPT !.at = "start", !.version = j.version, !.tries = j.tries - 1]
    <2>1. next.tries = j.tries - 1
      BY DEF AtRest
    <2>2. worker' = [worker EXCEPT ![w] = next] /\ queue' = BagRemove(queue, j)
      BY <1>7 DEF Take
    <2> HIDE DEF next
    <2>3. j.tries - 1 \in Nat
      BY DEF TriesInv
    <2>4. worker'[w] = next
      BY <2>2 DEF CleanInv, ScansInv
    <2>5. \A i \in DOMAIN queue' : i.tries \in Nat \ {0}
      BY <2>2, RemovedDomain DEF TriesInv
    <2> QED BY <1>2, <2>1, <2>3, <2>4, <2>5 DEF TriesInv
  <1> QED BY <1>5, <1>6, <1>7 DEF WorkerStep

\* A step of a version's row or of its object.
LEMMA VersionUnderway ==
  ASSUME UnderwayInv, NEW v \in Versions, VersionStep(v)
  PROVE  UploadsInv' /\ ScanningInv'
  <1>1. UNCHANGED <<worker, queue, lost>> /\ VersionsInv
    BY DEF VersionStep, InitUpload, LinkExpires, CleanObject, CleanRow, DeleteVersion, Put,
           SetVisibility, Finalize, DownloadRead, UnderwayInv, CleanInv
  <1>2. UploadsInv' /\ \A x : Finalizing(x) => Finalizing(x)'
    <2>1. CASE UNCHANGED upload
      BY <2>1 DEF UnderwayInv, UploadsInv, Finalizing
    <2>2. ASSUME NEW f \in Uploads, Finalize(f, v) PROVE UploadsInv' /\ \A x : Finalizing(x) => Finalizing(x)'
      <3> DEFINE next == [at |-> IF object[v] \in Oversize THEN "reject" ELSE "mark", version |-> v]
      <3>1. IsUpload(next)
        BY DEF IsUpload
      <3>2. upload[f] = NoUpload /\ NoUpload.at # "enqueue" /\ upload' = [upload EXCEPT ![f] = next]
        BY <2>2 DEF Finalize, NoUpload
      <3> HIDE DEF next
      <3> QED BY <3>1, <3>2 DEF UnderwayInv, UploadsInv, Finalizing
    <2>3. UNCHANGED upload \/ \E f \in Uploads : Finalize(f, v)
      BY DEF VersionStep, InitUpload, LinkExpires, CleanObject, CleanRow, DeleteVersion, Put,
             SetVisibility, DownloadRead
    <2> QED BY <2>1, <2>2, <2>3
  <1>3. \A x \in Versions : StatusKept(x)
    <2>1. ASSUME NEW status, status # "SCANNING", SetStatus(v, status) PROVE \A x \in Versions : StatusKept(x)
      BY <1>1, <2>1, StatusSet DEF StatusKept
    <2>2. CASE CleanRow(v)
      <3> DEFINE first == [version[v] EXCEPT !.status = "ERROR"]  next == [first EXCEPT !.deleted = TRUE]
      <3>1. IsRow(first) /\ first.status = "ERROR"
        BY <1>1 DEF VersionsInv, IsRow
      <3>2. version' = [version EXCEPT ![v] = next]
        BY <2>2 DEF CleanRow
      <3> HIDE DEF first
      <3>3. next.status = "ERROR"
        BY <3>1 DEF IsRow
      <3> HIDE DEF next
      <3> QED BY <1>1, <3>2, <3>3 DEF VersionsInv, StatusKept
    <2>3. ASSUME DeleteVersion(v) \/ \E b \in BOOLEAN : SetVisibility(v, b)
          PROVE  \A x \in Versions : StatusKept(x)
      <3>1. \E next : version' = [version EXCEPT ![v] = next] /\ next.status = version[v].status
        BY <1>1, <2>3 DEF DeleteVersion, SetVisibility, VersionsInv, IsRow
      <3> QED BY <1>1, <3>1 DEF VersionsInv, StatusKept
    <2>4. UNCHANGED version => \A x \in Versions : StatusKept(x)
      BY DEF StatusKept
    <2>5. \/ UNCHANGED version \/ CleanRow(v) \/ DeleteVersion(v)
          \/ \E b \in BOOLEAN : SetVisibility(v, b)
          \/ SetStatus(v, "PENDING")
      BY DEF VersionStep, InitUpload, LinkExpires, CleanObject, Put, Finalize, DownloadRead
    <2> QED BY <2>1, <2>2, <2>3, <2>4, <2>5
  <1> QED BY <1>1, <1>2, <1>3 DEF UnderwayInv, ScanningInv, StatusKept, Underway, Queued, ScannedBy

\* A restart: the finalizes are lost, and the jobs of the workers are handed out again.
LEMMA RestartUnderway ==
  ASSUME UnderwayInv, Restart
  PROVE  UploadsInv' /\ ScanningInv' /\ TriesInv'
  <1> DEFINE busy == {w \in Workers : worker[w] # AtRest}
             again(w) == Job(worker[w].version, worker[w].tries + 1)
             handed == [j \in {again(w) : w \in busy} |-> Cardinality({w \in busy : again(w) = j})]
  <1>1. /\ upload' = [f \in Uploads |-> NoUpload] /\ worker' = [w \in Workers |-> AtRest]
        /\ lost' = lost \cup Stranded /\ UNCHANGED version
        /\ queue' = queue (+) handed
    BY DEF Restart
  <1>2. DOMAIN queue' = DOMAIN queue \cup {again(w) : w \in busy}
    BY <1>1 DEF (+)
  <1> HIDE DEF handed
  <1>3. UploadsInv'
    BY <1>1 DEF UploadsInv, NoUpload, IsUpload
  <1>4. ScanningInv'
    <2> SUFFICES ASSUME NEW v \in Versions \ lost', version'[v].status = "SCANNING"
                 PROVE  Queued(v)'
      BY DEF ScanningInv, Underway
    <2>1. Underway(v) /\ ~ Finalizing(v)
      BY <1>1 DEF UnderwayInv, ScanningInv, Finalizing, Stranded
    <2>2. CASE Queued(v)
      BY <1>2, <2>2 DEF Queued
    <2>3. ASSUME NEW w \in Workers, ScannedBy(w, v) PROVE Queued(v)'
      <3>1. w \in busy
        BY <2>3, FilesAssumption DEF ScannedBy, AtRest
      <3>2. again(w).version = v
        BY <2>3 DEF Job, ScannedBy
      <3> QED BY <1>2, <3>1, <3>2 DEF Queued
    <2> QED BY <2>1, <2>2, <2>3 DEF Underway
  <1>5. TriesInv'
    <2>1. \A w \in busy : again(w).tries \in Nat \ {0}
      <3> SUFFICES ASSUME NEW w \in busy PROVE again(w).tries \in Nat \ {0}
        OBVIOUS
      <3>1. worker[w].tries \in Nat
        BY DEF UnderwayInv, TriesInv
      <3> QED BY <3>1, JobTries
    <2>2. AtRest.tries \in Nat
      BY DEF AtRest
    <2> HIDE DEF busy, again
    <2> QED BY <1>1, <1>2, <2>1, <2>2 DEF UnderwayInv, TriesInv
  <1> QED BY <1>3, <1>4, <1>5

LEMMA UnderwayInitially == PortalInit => UnderwayInv
  <1> SUFFICES ASSUME FilesInit PROVE UploadsInv /\ ScanningInv /\ TriesInv
    BY CleanInitially DEF PortalInit, UnderwayInv
  <1>1. DOMAIN queue = {}
    BY DEF FilesInit, EmptyBag, SetToBag
  <1>2. \A v \in Versions : version[v].status = "none"
    BY DEF FilesInit, NoFile
  <1> QED BY <1>1, <1>2 DEF FilesInit, NoUpload, AtRest, UploadsInv, IsUpload, ScanningInv, TriesInv

LEMMA UnderwayStays ==
  ASSUME UnderwayInv, UNCHANGED <<version, queue, upload, worker, lost>>
  PROVE  UploadsInv' /\ ScanningInv' /\ TriesInv'
  BY DEF UnderwayInv, UploadsInv, ScanningInv, TriesInv, Underway, Finalizing, Queued, ScannedBy

LEMMA UnderwayStep == UnderwayInv /\ [PortalNext]_<<clientVars, fileVars, portalVars>> => UnderwayInv'
  <1> SUFFICES ASSUME UnderwayInv, [PortalNext]_<<clientVars, fileVars, portalVars>>
               PROVE  UploadsInv' /\ ScanningInv' /\ TriesInv'
    BY CleanStep DEF UnderwayInv
  <1>1. CASE UNCHANGED fileVars
    BY <1>1, UnderwayStays DEF fileVars
  <1>2. ASSUME NEW w \in Workers, WorkerStep(w) PROVE UploadsInv' /\ ScanningInv' /\ TriesInv'
    BY <1>2, WorkerUnderway, WorkerTries DEF UnderwayInv
  <1>3. ASSUME NEW f \in Uploads, Reject(f) \/ Refuse(f) \/ Mark(f) \/ Enqueue(f) \/ CallFails(f)
        PROVE  UploadsInv' /\ ScanningInv' /\ TriesInv'
    <2>1. UNCHANGED worker
      BY <1>3 DEF Reject, Refuse, Mark, Enqueue, CallFails
    <2>2. UNCHANGED queue \/ queue' = BagAdd(queue, Job(upload[f].version, Attempts))
      BY <1>3 DEF Reject, Refuse, Mark, Enqueue, CallFails
    <2>3. \A j \in DOMAIN queue' : j.tries \in Nat \ {0}
      <3> DEFINE job == Job(upload[f].version, Attempts)
      <3>1. job.tries \in Nat \ {0}
        BY FilesAssumption, JobTries
      <3>2. DOMAIN queue' \subseteq DOMAIN queue \cup {job}
        BY <2>2, AddedDomain
      <3> HIDE DEF job
      <3> QED BY <3>1, <3>2 DEF UnderwayInv, TriesInv
    <2> QED BY <1>3, <2>1, <2>3, UploadUnderway DEF UnderwayInv, TriesInv
  <1>4. ASSUME NEW v \in Versions, VersionStep(v) PROVE UploadsInv' /\ ScanningInv' /\ TriesInv'
    <2>1. UNCHANGED <<worker, queue>>
      BY <1>4 DEF VersionStep, InitUpload, LinkExpires, CleanObject, CleanRow, DeleteVersion, Put,
           SetVisibility, Finalize, DownloadRead
    <2> QED BY <1>4, <2>1, VersionUnderway DEF UnderwayInv, TriesInv
  <1>5. ASSUME \/ \E V \in SUBSET Versions : CleanupRead(V)
               \/ \E d \in Downloads : DownloadCheck(d) \/ Serve(d) \/ DownloadEnds(d)
               \/ \E d \in Downloads, v \in Versions : DownloadRead(d, v, TRUE)
        PROVE  UploadsInv' /\ ScanningInv' /\ TriesInv'
    BY <1>5, UnderwayStays DEF CleanupRead, DownloadCheck, Serve, DownloadEnds, DownloadRead
  <1>6. CASE Restart
    BY <1>6, RestartUnderway
  <1>7. CASE FilesStep
    BY <1>2, <1>3, <1>4, <1>5, <1>7 DEF FilesStep
  <1>8. ASSUME NEW d \in Downloads, FetchFile(d) PROVE UploadsInv' /\ ScanningInv' /\ TriesInv'
    BY <1>1, <1>5, <1>8 DEF FetchFile
  <1>9. CASE UNCHANGED <<clientVars, fileVars, portalVars>>
    BY <1>1, <1>9
  <1>10. CASE PortalNext
    BY <1>1, <1>6, <1>7, <1>8, <1>10
       DEF PortalNext, PortalRestart, AssertActive, Scope, ShowProject, Ask
  <1> QED BY <1>9, <1>10

\* FilesService.finalize, FilesProcessor: a version that says SCANNING has a finalize, a job or a
\* worker that will end it, unless its finalize was cut off before it queued the scan or the last
\* attempt threw outside the guarded part of the scan, at whatever query.
THEOREM ScanningIsScanned == PortalSpec => []ScanIsUnderway
  <1>1. UnderwayInv => ScanIsUnderway
    <2> SUFFICES ASSUME UnderwayInv, NEW v \in Versions \ lost, version[v].status = "SCANNING"
                 PROVE  \/ \E f \in Uploads : upload[f] = [at |-> "enqueue", version |-> v]
                        \/ \E j \in DOMAIN queue : j.version = v
                        \/ \E w \in Workers : worker[w].version = v
      BY DEF ScanIsUnderway
    <2>1. Underway(v)
      BY DEF UnderwayInv, ScanningInv
    <2>2. ASSUME NEW f \in Uploads, upload[f].at = "enqueue", upload[f].version = v
          PROVE  upload[f] = [at |-> "enqueue", version |-> v]
      BY <2>2 DEF UnderwayInv, UploadsInv, IsUpload
    <2> QED BY <2>1, <2>2 DEF Underway, Finalizing, Queued, ScannedBy
  <1> QED BY <1>1, UnderwayInitially, UnderwayStep, PTL DEF PortalSpec

-----------------------------------------------------------------------------
\* Tenants.  Projects, people and calls have their types, and a project that was not made is no
\* one's.
AdminCall ==
  [at : {"idle", "create", "reserve", "overwrite", "invite", "attach", "onboard", "upsert", "end",
         "revoke"},
   org : Orgs \cup {NoOrg}, name : Names \cup {NoName}, person : People \cup {NoPerson},
   then : {"idle", "attach", "onboard"}, projects : SUBSET Projects, people : SUBSET People,
   bind : BOOLEAN]
OrgRow == [made : BOOLEAN, org : Orgs \cup {NoOrg}]
ClientsOK ==
  /\ project \in [Projects -> OrgRow] /\ client \in [People -> OrgRow]
  /\ call \in [AdminCalls -> AdminCall] /\ deaths \in Nat
  /\ \A p \in Projects : ~ project[p].made => project[p].org = NoOrg

LEMMA IdleCall ==
  /\ Idle \in AdminCall /\ Idle.at = "idle" /\ Idle.org = NoOrg
  BY DEF Idle, AdminCall

\* The calls as they begin.
Creating(o) ==
  [Idle EXCEPT !.at = "create", !.org = o]
Reserving(P) ==
  [Idle EXCEPT !.at = "reserve", !.projects = P]
Inviting(o, u) ==
  [Idle EXCEPT !.at = "invite", !.org = o, !.person = u, !.then = "attach"]
Onboarding(o, u, n, P) ==
  [Idle EXCEPT !.at = "invite", !.org = o, !.person = u, !.then = "onboard", !.name = n,
                !.projects = P]
Granting(P, u, o, b) ==
  [Idle EXCEPT !.at = "upsert", !.projects = P, !.person = u, !.org = o, !.bind = b]
Ending(o, U) ==
  [Idle EXCEPT !.at = "end", !.org = o, !.people = U]

LEMMA CreatingCall ==
  ASSUME NEW o \in Orgs
  PROVE  /\ Creating(o) \in AdminCall
         /\ Creating(o).at = "create"
  BY DEF Creating, Idle, AdminCall

LEMMA ReservingCall ==
  ASSUME NEW P \in SUBSET Projects
  PROVE  /\ Reserving(P) \in AdminCall
         /\ Reserving(P).at = "reserve"
         /\ Reserving(P).projects = P
  BY DEF Reserving, Idle, AdminCall

LEMMA InvitingCall ==
  ASSUME NEW o \in Orgs, NEW u \in People
  PROVE  /\ Inviting(o, u) \in AdminCall
         /\ Inviting(o, u).at = "invite"
         /\ Inviting(o, u).org = o
         /\ Inviting(o, u).person = u
         /\ Inviting(o, u).then = "attach"
  BY DEF Inviting, Idle, AdminCall

LEMMA OnboardingCall ==
  ASSUME NEW o \in Orgs, NEW u \in People, NEW n \in Names, NEW P \in SUBSET Projects
  PROVE  /\ Onboarding(o, u, n, P) \in AdminCall
         /\ Onboarding(o, u, n, P).at = "invite"
         /\ Onboarding(o, u, n, P).org = o
         /\ Onboarding(o, u, n, P).person = u
         /\ Onboarding(o, u, n, P).then = "onboard"
         /\ Onboarding(o, u, n, P).projects = P
  BY DEF Onboarding, Idle, AdminCall

LEMMA GrantingCall ==
  ASSUME NEW o \in Orgs, NEW u \in People, NEW P \in SUBSET Projects, NEW b \in BOOLEAN
  PROVE  /\ Granting(P, u, o, b) \in AdminCall
         /\ Granting(P, u, o, b).at = "upsert"
         /\ Granting(P, u, o, b).org = o
         /\ Granting(P, u, o, b).person = u
         /\ Granting(P, u, o, b).projects = P
         /\ Granting(P, u, o, b).bind = b
  BY DEF Granting, Idle, AdminCall

LEMMA EndingCall ==
  ASSUME NEW o \in Orgs, NEW U \in SUBSET People
  PROVE  /\ Ending(o, U) \in AdminCall
         /\ Ending(o, U).at = "end"
  BY DEF Ending, Idle, AdminCall

\* A call that is going to bind projects has projects that are nobody's yet, unless it is in a race.
Unbound(k) == \A p \in k.projects : project[p].made /\ (p \notin raced => project[p].org = NoOrg)
RaceNoted == Contested \subseteq raced
NothingTaken == \A c \in AdminCalls : Binds(call[c]) => Unbound(call[c])

\* What is shown was granted, and so was what a request that passed Scope is about to show.
Portion ==
  /\ seen \subseteq access
  /\ ask = [d \in Downloads |-> ask[d]]
  /\ \A d \in Downloads : ask[d] = [x \in {"at", "person", "item"} |-> ask[d][x]]
  /\ \A d \in Downloads : ask[d].at = "fetch" /\ ask[d].item \in Projects =>
       <<ask[d].item, ask[d].person>> \in access

\* While no call has died: every grant is within its tenant, but for raced projects, a call still holds what it
\* checked, and one call at most is giving an organization to a person.
Within(p, u) ==
  /\ client[u].org # NoOrg
  /\ \/ project[p].org = client[u].org
     \/ \E c \in AdminCalls :
          call[c].at = "overwrite" /\ call[c].org = client[u].org /\ p \in call[c].projects
Joins(k) == k.at \in {"attach", "onboard"}
Onboards(k) == k.at = "onboard" \/ (k.at = "invite" /\ k.then = "onboard")
Together(k) == \A p \in k.projects \ raced : project[p].org = k.org
CallHolds(k) ==
  /\ k.at = "invite" => k.then # "idle"
  /\ k.at = "invite" \/ Joins(k) => k.person \in People /\ k.org \in Orgs
  /\ Joins(k) => client[k.person].made /\ client[k.person].org = NoOrg
  /\ Onboards(k) => Together(k)
  /\ k.at = "upsert" =>
       /\ k.person \in People /\ k.org = client[k.person].org /\ k.org # NoOrg
       /\ ~ k.bind => Together(k)
OneJoins ==
  \A c, e \in AdminCalls :
    Joins(call[c]) /\ Joins(call[e]) /\ call[c].person = call[e].person => c = e
Tidy ==
  /\ access \subseteq Projects \X People
  /\ \A u \in People : ~ client[u].made => client[u].org = NoOrg
Whole ==
  /\ Tidy
  /\ \A p \in Projects \ raced, u \in People : <<p, u>> \in access => Within(p, u)
  /\ \A c \in AdminCalls : CallHolds(call[c])
  /\ OneJoins

GrantsInv == ClientsOK /\ RaceNoted /\ NothingTaken /\ (deaths = 0 => Whole)
TenantInv == GrantsInv /\ Portion

LEMMA CallGoes ==
  ASSUME ClientsOK, NEW c \in AdminCalls, NEW k \in AdminCall, Goes(c, k)
  PROVE  /\ call' \in [AdminCalls -> AdminCall] /\ call'[c] = k
         /\ \A e \in AdminCalls : e # c => call'[e] = call[e]
         /\ raced \subseteq raced' /\ RaceNoted'
  BY DEF ClientsOK, Goes, RaceNoted

LEMMA IdleHolds == CallHolds(Idle) /\ ~ Binds(Idle) /\ ~ Joins(Idle)
  BY DEF Idle, CallHolds, Binds, Joins, Onboards

\* A call moves on and writes no row of a project, a person or a grant.
LEMMA QuietCall ==
  ASSUME GrantsInv, NEW c \in AdminCalls, NEW k \in AdminCall, Goes(c, k),
         UNCHANGED <<project, client, access>>, deaths' \in Nat,
         Binds(k) => Unbound(k), ~ Joins(k),
         deaths' = 0 => deaths = 0 /\ call[c].at # "overwrite" /\ CallHolds(k)
  PROVE  GrantsInv'
  <1> USE DEF GrantsInv
  <1>1. /\ call' \in [AdminCalls -> AdminCall] /\ call'[c] = k
        /\ \A e \in AdminCalls : e # c => call'[e] = call[e]
        /\ raced \subseteq raced' /\ RaceNoted'
    BY CallGoes
  <1>2. ClientsOK'
    BY <1>1 DEF ClientsOK
  <1>3. NothingTaken'
    BY <1>1 DEF NothingTaken, Unbound, Binds
  <1>4. ASSUME deaths' = 0 PROVE Whole'
    <2>1. \A p \in Projects, u \in People : Within(p, u) => Within(p, u)'
      BY <1>1, <1>4 DEF Within
    <2>2. \A e \in AdminCalls : CallHolds(call[e])'
      <3>1. \A e \in AdminCalls : CallHolds(call[e])
        BY <1>4 DEF Whole
      <3>2. CallHolds(k) => CallHolds(k)'
        BY <1>1 DEF CallHolds, Together, Joins, Onboards
      <3>3. \A e \in AdminCalls : e # c => CallHolds(call[e])'
        BY <1>1, <3>1 DEF CallHolds, Together, Joins, Onboards
      <3>4. CallHolds(call[c])'
        BY <1>1, <1>4, <3>2 DEF CallHolds, Together, Joins, Onboards
      <3> QED BY <3>3, <3>4
    <2>3. OneJoins'
      BY <1>1, <1>4 DEF Whole, OneJoins, Joins
    <2> QED BY <1>1, <1>4, <2>1, <2>2, <2>3 DEF Whole, Tidy
  <1> QED BY <1>1, <1>2, <1>3, <1>4

\* A handler reads what it needs: it writes nothing yet.
LEMMA CallBegins ==
  ASSUME GrantsInv, NEW c \in AdminCalls, Free(c), UNCHANGED <<project, client, access, deaths>>,
         NEW k \in AdminCall, Goes(c, k), ~ Joins(k), Binds(k) => Unbound(k), CallHolds(k)
  PROVE  GrantsInv'
  <1>1. call[c].at = "idle" /\ deaths \in Nat
    BY IdleCall DEF Free, GrantsInv, ClientsOK
  <1> QED BY <1>1, QuietCall

LEMMA BeginKeeps ==
  ASSUME GrantsInv, NEW c \in AdminCalls,
         \/ \E o \in Orgs : ReserveForNew(c, o) \/ EndCheck(c, o)
         \/ \E p \in Projects : UpdateRead(c, p)
         \/ \E p \in Projects, u \in People : GrantCheck(c, p, u)
         \/ \E o \in Orgs, u \in People : UserCheck(c, o, u)
         \/ \E o \in Orgs, u \in People, n \in Names, P \in SUBSET Projects : OnboardCheck(c, o, u, n, P)
  PROVE  GrantsInv'
  <1> USE DEF GrantsInv
  <1> DEFINE Begun ==
        /\ Free(c) /\ UNCHANGED <<project, client, access, deaths>>
        /\ \E k \in AdminCall : Goes(c, k) /\ ~ Joins(k) /\ (Binds(k) => Unbound(k)) /\ CallHolds(k)
  <1>1. ASSUME NEW o \in Orgs, ReserveForNew(c, o)
        PROVE  Begun
    <2>1. PICK k : k = Creating(o)
      OBVIOUS
    <2>2. k \in AdminCall /\ k.at = "create"
      BY <2>1, CreatingCall
    <2>3. Goes(c, k) /\ Free(c) /\ UNCHANGED <<project, client, access, deaths>>
      BY <1>1, <2>1 DEF ReserveForNew, Creating, rows
    <2>4. ~ Joins(k) /\ (Binds(k) => Unbound(k)) /\ CallHolds(k)
      BY <2>2, <2>3 DEF Joins, Binds, Unbound, CallHolds, Onboards, Together
    <2> QED BY <2>2, <2>3, <2>4
  <1>2. ASSUME NEW p \in Projects, UpdateRead(c, p)
        PROVE  Begun
    <2>1. PICK k : k = Reserving({p})
      OBVIOUS
    <2>2. k \in AdminCall /\ k.at = "reserve" /\ k.projects = {p}
      <3>1. {p} \in SUBSET Projects
        OBVIOUS
      <3> QED BY <2>1, <3>1, ReservingCall
    <2>3. /\ Goes(c, k) /\ Free(c) /\ UNCHANGED <<project, client, access, deaths>>
          /\ project[p].made /\ project[p].org = NoOrg
      BY <1>2, <2>1 DEF UpdateRead, NeedsClient, Reserving, rows
    <2>4. ~ Joins(k) /\ (Binds(k) => Unbound(k)) /\ CallHolds(k)
      BY <2>2, <2>3 DEF Joins, Binds, Unbound, CallHolds, Onboards, Together
    <2> QED BY <2>2, <2>3, <2>4
  <1>3. ASSUME NEW o \in Orgs, NEW u \in People, UserCheck(c, o, u)
        PROVE  Begun
    <2>1. PICK k : k = Inviting(o, u)
      OBVIOUS
    <2>2. /\ k \in AdminCall /\ k.at = "invite" /\ k.org = o /\ k.person = u /\ k.then = "attach"
      BY <2>1, InvitingCall
    <2>3. Goes(c, k) /\ Free(c) /\ UNCHANGED <<project, client, access, deaths>>
      BY <1>3, <2>1 DEF UserCheck, Inviting, rows
    <2>4. ~ Joins(k) /\ (Binds(k) => Unbound(k)) /\ CallHolds(k)
      BY <2>2, <2>3 DEF Joins, Binds, Unbound, CallHolds, Onboards, Together
    <2> QED BY <2>2, <2>3, <2>4
  <1>4. ASSUME NEW o \in Orgs, NEW u \in People, NEW n \in Names, NEW P \in SUBSET Projects,
               OnboardCheck(c, o, u, n, P)
        PROVE  Begun
    <2>1. PICK k : k = Onboarding(o, u, n, P)
      OBVIOUS
    <2>2. /\ k \in AdminCall /\ k.at = "invite" /\ k.org = o /\ k.person = u /\ k.then = "onboard"
          /\ k.projects = P
      BY <2>1, OnboardingCall
    <2>3. /\ Goes(c, k) /\ Free(c) /\ UNCHANGED <<project, client, access, deaths>>
          /\ \A q \in P : project[q].org = o
      BY <1>4, <2>1 DEF OnboardCheck, Paired, Onboarding, rows
    <2>4. ~ Joins(k) /\ (Binds(k) => Unbound(k)) /\ CallHolds(k)
      BY <2>2, <2>3 DEF Joins, Binds, Unbound, CallHolds, Onboards, Together
    <2> QED BY <2>2, <2>3, <2>4
  <1>5. ASSUME NEW p \in Projects, NEW u \in People, GrantCheck(c, p, u)
        PROVE  Begun
    <2> DEFINE b == project[p].org = NoOrg
    <2>1. client[u].org \in Orgs /\ {p} \in SUBSET Projects
      BY <1>5 DEF GrantCheck, ClientsOK, OrgRow
    <2>2. b \in BOOLEAN
      OBVIOUS
    <2>3. PICK k : k = Granting({p}, u, client[u].org, b)
      OBVIOUS
    <2>4. /\ k \in AdminCall /\ k.at = "upsert" /\ k.org = client[u].org /\ k.person = u
          /\ k.projects = {p} /\ k.bind = b
      <3> HIDE DEF b
      <3> QED BY <2>1, <2>2, <2>3, GrantingCall
    <2>5. Goes(c, k) /\ Free(c) /\ UNCHANGED <<project, client, access, deaths>>
      BY <1>5, <2>3 DEF GrantCheck, Granting, rows
    <2>6. project[p].made /\ client[u].org # NoOrg /\ (~ b => project[p].org = client[u].org)
      BY <1>5 DEF GrantCheck, SameTenant
    <2>7. ~ Joins(k) /\ (Binds(k) => Unbound(k))
      BY <2>4, <2>6 DEF Joins, Binds, Unbound
    <2>8. CallHolds(k)
      BY <2>4, <2>6 DEF Joins, CallHolds, Onboards, Together
    <2> QED BY <2>4, <2>5, <2>7, <2>8
  <1>6. ASSUME NEW o \in Orgs, EndCheck(c, o)
        PROVE  Begun
    <2> DEFINE U == {v \in People : client[v].org = o}
    <2>1. PICK k : k = Ending(o, U)
      OBVIOUS
    <2>2. U \in SUBSET People
      OBVIOUS
    <2>3. Goes(c, k) /\ Free(c) /\ UNCHANGED <<project, client, access, deaths>>
      BY <1>6, <2>1 DEF EndCheck, Ending, rows
    <2>4. k \in AdminCall /\ k.at = "end"
      <3> HIDE DEF U
      <3> QED BY <2>1, <2>2, EndingCall
    <2>5. ~ Joins(k) /\ ~ Binds(k) /\ CallHolds(k)
      BY <2>4 DEF Joins, Binds, CallHolds, Onboards
    <2> QED BY <2>3, <2>4, <2>5
  <1>7. Begun
    <2> HIDE DEF Begun
    <2> QED BY <1>1, <1>2, <1>3, <1>4, <1>5, <1>6
  <1> QED BY <1>7, CallBegins

\* A reservation takes its organization, an end of an organization goes on, a call dies.
LEMMA CallGoesOn ==
  ASSUME GrantsInv, NEW c \in AdminCalls,
         \/ End(c) \/ Ended(c) \/ Die(c)
         \/ \E o \in Orgs : ReserveForOld(c, o)
         \/ \E u \in People : Revoke(c, u)
  PROVE  GrantsInv'
  <1> USE DEF GrantsInv
  <1>1. call[c] \in AdminCall /\ deaths \in Nat
    BY DEF ClientsOK
  <1>2. ASSUME NEW o \in Orgs, ReserveForOld(c, o) PROVE GrantsInv'
    <2>1. PICK k : k = [call[c] EXCEPT !.at = "overwrite", !.org = o]
      OBVIOUS
    <2>2. k \in AdminCall /\ k.at = "overwrite" /\ k.projects = call[c].projects
      BY <1>1, <2>1 DEF AdminCall
    <2>3. Goes(c, k) /\ call[c].at = "reserve" /\ UNCHANGED <<project, client, access, deaths>>
      BY <1>2, <2>1 DEF ReserveForOld, rows
    <2>4. ~ Joins(k) /\ CallHolds(k)
      BY <2>2 DEF Joins, CallHolds, Onboards
    <2>5. Unbound(k)
      BY <2>2, <2>3 DEF NothingTaken, Binds, Unbound
    <2> QED BY <1>1, <2>2, <2>3, <2>4, <2>5, QuietCall
  <1>3. CASE End(c)
    <2>1. PICK k : k = [call[c] EXCEPT !.at = "revoke"]
      OBVIOUS
    <2>2. k \in AdminCall /\ k.at = "revoke"
      BY <1>1, <2>1 DEF AdminCall
    <2>3. Goes(c, k) /\ call[c].at = "end" /\ UNCHANGED <<project, client, access, deaths>>
      BY <1>3, <2>1 DEF End, rows
    <2>4. ~ Joins(k) /\ CallHolds(k) /\ ~ Binds(k)
      BY <2>2 DEF Joins, CallHolds, Onboards, Binds
    <2> QED BY <1>1, <2>2, <2>3, <2>4, QuietCall
  <1>4. ASSUME NEW u \in People, Revoke(c, u) PROVE GrantsInv'
    <2>1. PICK k : k = [call[c] EXCEPT !.people = @ \ {u}]
      OBVIOUS
    <2>2. k \in AdminCall /\ k.at = call[c].at
      BY <1>1, <2>1 DEF AdminCall
    <2>3. Goes(c, k) /\ call[c].at = "revoke" /\ UNCHANGED <<project, client, access, deaths>>
      BY <1>4, <2>1 DEF Revoke
    <2>4. ~ Joins(k) /\ CallHolds(k) /\ ~ Binds(k)
      BY <2>2, <2>3 DEF Joins, CallHolds, Onboards, Binds
    <2> QED BY <1>1, <2>2, <2>3, <2>4, QuietCall
  <1>5. CASE Ended(c)
    <2>1. Goes(c, Idle) /\ call[c].at = "revoke" /\ UNCHANGED <<project, client, access, deaths>>
      BY <1>5 DEF Ended, Answer, rows
    <2> QED BY <1>1, <2>1, IdleCall, IdleHolds, QuietCall
  <1>6. CASE Die(c)
    <2>1. Goes(c, Idle) /\ deaths' = deaths + 1 /\ UNCHANGED <<project, client, access>>
      BY <1>6 DEF Die, Answer, rows
    <2>2. deaths' \in Nat /\ deaths' # 0
      BY <1>1, <2>1
    <2> QED BY <2>1, <2>2, IdleCall, IdleHolds, QuietCall
  <1> QED BY <1>2, <1>3, <1>4, <1>5, <1>6

\* Calls, accounts and grants stay as they are.
LEMMA TenantsStay ==
  ASSUME GrantsInv, UNCHANGED <<project, client, access, call, deaths, raced>>
  PROVE  GrantsInv'
  <1> USE DEF GrantsInv
  <1>1. ClientsOK' /\ RaceNoted' /\ NothingTaken'
    BY DEF ClientsOK, RaceNoted, Contested, Binding, NothingTaken, Unbound
  <1>2. Whole => Whole'
    BY DEF Whole, Tidy, Within, CallHolds, Together, OneJoins
  <1> QED BY <1>1, <1>2

LEMMA CreateProjectKeeps ==
  ASSUME GrantsInv, NEW c \in AdminCalls, NEW p \in Projects, CreateProject(c, p)
  PROVE  GrantsInv'
  <1> USE DEF GrantsInv
  <1>1. /\ ~ project[p].made /\ project[p].org = NoOrg /\ call[c] \in AdminCall
        /\ UNCHANGED <<client, access, deaths>> /\ (call[c].at = "create" \/ call[c] = Idle)
    BY DEF ClientsOK, CreateProject, Free
  <1>2. /\ call' \in [AdminCalls -> AdminCall] /\ call'[c] = Idle
        /\ \A e \in AdminCalls : e # c => call'[e] = call[e]
        /\ raced \subseteq raced' /\ RaceNoted'
    BY IdleCall, CallGoes DEF CreateProject, Answer
  <1>3. PICK r \in OrgRow : r.made /\ project' = [project EXCEPT ![p] = r]
    <2>1. call[c].org \in Orgs \cup {NoOrg}
      BY <1>1 DEF AdminCall
    <2> QED BY <2>1 DEF CreateProject, OrgRow
  <1>4. /\ project' \in [Projects -> OrgRow] /\ project'[p] = r
        /\ \A q \in Projects : q # p => project'[q] = project[q]
    BY <1>3 DEF ClientsOK
  <1>5. ClientsOK'
    BY <1>1, <1>2, <1>3, <1>4 DEF ClientsOK
  <1>6. NothingTaken'
    <2> SUFFICES ASSUME NEW e \in AdminCalls, Binds(call[e])', NEW q \in (call[e].projects)'
                 PROVE  project'[q].made /\ (q \notin raced' => project'[q].org = NoOrg)
      BY DEF NothingTaken, Unbound
    <2>1. e # c
      BY <1>2, IdleHolds DEF Binds
    <2>2. Binds(call[e]) /\ q \in call[e].projects /\ call[e] \in AdminCall
      BY <1>2, <2>1 DEF Binds, ClientsOK
    <2>3. q \in Projects /\ project[q].made /\ (q \notin raced => project[q].org = NoOrg)
      BY <2>2 DEF NothingTaken, Unbound, AdminCall
    <2> QED BY <1>1, <1>2, <1>4, <2>3
  <1>7. ASSUME deaths' = 0 PROVE Whole'
    <2>1. Whole
      BY <1>1, <1>7
    <2>2. ASSUME NEW q \in Projects \ raced', NEW u \in People, <<q, u>> \in access' PROVE Within(q, u)'
      <3>1. Within(q, u)
        BY <1>1, <1>2, <2>1, <2>2 DEF Whole
      <3>2. q # p
        <4>1. CASE project[p].org = client[u].org
          BY <1>1, <3>1, <4>1 DEF Within
        <4>2. ASSUME NEW e \in AdminCalls, call[e].at = "overwrite", p \in call[e].projects PROVE FALSE
          BY <1>1, <4>2 DEF NothingTaken, Binds, Unbound
        <4> QED BY <1>1, <3>1, <4>2 DEF Within
      <3>3. call[c].at # "overwrite"
        BY <1>1, IdleCall
      <3> QED BY <1>1, <1>2, <1>4, <3>1, <3>2, <3>3 DEF Within
    <2>3. ASSUME NEW e \in AdminCalls PROVE CallHolds(call[e])'
      <3>1. CASE e = c
        BY <1>2, <3>1, IdleCall DEF CallHolds, Joins, Onboards
      <3>2. CASE e # c
        <4>1. CallHolds(call[e]) /\ call'[e] = call[e] /\ call[e] \in AdminCall
          BY <1>2, <2>1, <3>2 DEF Whole, ClientsOK
        <4>2. ASSUME Together(call[e]), call[e].org # NoOrg PROVE Together(call[e])'
          BY <1>1, <1>2, <1>4, <4>1, <4>2 DEF Together, AdminCall
        <4>3. call[e].org \in Orgs => call[e].org # NoOrg
          BY ClientsAssumption
        <4> QED BY <1>1, <4>1, <4>2, <4>3 DEF CallHolds, Joins, Onboards
      <3> QED BY <3>1, <3>2
    <2>4. OneJoins'
      BY <1>2, <2>1, IdleCall DEF Whole, OneJoins, Joins
    <2> QED BY <1>1, <2>1, <2>2, <2>3, <2>4 DEF Whole, Tidy
  <1> QED BY <1>2, <1>5, <1>6, <1>7

\* The last write of a call that binds projects: of those not in a race no other call binds one.
LEMMA OverwriteKeeps ==
  ASSUME GrantsInv, NEW c \in AdminCalls, Overwrite(c)
  PROVE  GrantsInv'
  <1> USE DEF GrantsInv
  <1>1. /\ call[c].at = "overwrite" /\ call[c] \in AdminCall /\ Unbound(call[c])
        /\ UNCHANGED <<client, access, deaths>>
    BY DEF ClientsOK, Overwrite, NothingTaken, Binds
  <1>2. /\ call' \in [AdminCalls -> AdminCall] /\ call'[c] = Idle
        /\ \A e \in AdminCalls : e # c => call'[e] = call[e]
        /\ raced \subseteq raced' /\ RaceNoted'
    BY IdleCall, CallGoes DEF Overwrite, Answer
  <1>4. /\ call[c].org \in Orgs \cup {NoOrg} /\ call[c].projects \subseteq Projects
        /\ \A q \in call[c].projects : project[q].made
        /\ \A q \in call[c].projects \ raced : project[q].org = NoOrg
    BY <1>1 DEF AdminCall, Unbound
  <1>3. ASSUME NEW e \in AdminCalls, Binds(call[e]), NEW q \in call[e].projects, q \in call[c].projects,
               q \notin raced
        PROVE  e = c
    BY <1>1, <1>3, <1>4 DEF RaceNoted, Contested, Binding, Binds
  <1>5. /\ project' \in [Projects -> OrgRow]
        /\ \A q \in Projects : project'[q].made = project[q].made
        /\ \A q \in call[c].projects : project'[q].org = call[c].org
        /\ \A q \in Projects \ call[c].projects : project'[q] = project[q]
    <2>1. project' = [q \in Projects |->
            IF q \in call[c].projects THEN [project[q] EXCEPT !.org = call[c].org] ELSE project[q]]
      BY DEF Overwrite
    <2>2. ASSUME NEW q \in Projects
          PROVE  /\ project'[q] \in OrgRow /\ project'[q].made = project[q].made
                 /\ q \in call[c].projects => project'[q].org = call[c].org
                 /\ q \notin call[c].projects => project'[q] = project[q]
      <3>1. project[q] \in OrgRow
        BY DEF ClientsOK
      <3> QED BY <1>4, <2>1, <3>1 DEF OrgRow
    <2> QED BY <1>4, <2>1, <2>2
  <1>6. ClientsOK'
    <2>1. \A q \in Projects : ~ project'[q].made => project'[q].org = NoOrg
      BY <1>4, <1>5 DEF ClientsOK
    <2> QED BY <1>1, <1>2, <1>5, <2>1 DEF ClientsOK
  <1>8. NothingTaken'
    <2> SUFFICES ASSUME NEW e \in AdminCalls, Binds(call[e])', NEW q \in (call[e].projects)'
                 PROVE  project'[q].made /\ (q \notin raced' => project'[q].org = NoOrg)
      BY DEF NothingTaken, Unbound
    <2>1. e # c
      BY <1>2, IdleHolds DEF Binds
    <2>2. Binds(call[e]) /\ q \in call[e].projects /\ call[e] \in AdminCall
      BY <1>2, <2>1 DEF Binds, ClientsOK
    <2>3. q \in Projects /\ project[q].made /\ (q \notin raced => project[q].org = NoOrg)
      BY <2>2 DEF NothingTaken, Unbound, AdminCall
    <2>4. q \notin raced => q \notin call[c].projects
      BY <1>3, <2>1, <2>2
    <2> QED BY <1>2, <1>5, <2>3, <2>4
  <1>9. ASSUME deaths' = 0 PROVE Whole'
    <2>1. Whole
      BY <1>1, <1>9
    <2>2. ASSUME NEW q \in Projects \ raced', NEW u \in People, <<q, u>> \in access' PROVE Within(q, u)'
      <3>1. Within(q, u)
        BY <1>1, <1>2, <2>1, <2>2 DEF Whole
      <3>2. CASE q \in call[c].projects
        <4>1. PICK e \in AdminCalls : /\ call[e].at = "overwrite" /\ call[e].org = client[u].org
                                      /\ q \in call[e].projects
          BY <1>2, <1>4, <2>2, <3>1, <3>2 DEF Within
        <4>2. e = c
          BY <1>2, <1>3, <2>2, <3>2, <4>1 DEF Binds
        <4> QED BY <1>1, <1>5, <3>1, <3>2, <4>1, <4>2 DEF Within
      <3>3. CASE q \notin call[c].projects
        BY <1>1, <1>2, <1>5, <3>1, <3>3 DEF Within
      <3> QED BY <3>2, <3>3
    <2>3. ASSUME NEW e \in AdminCalls PROVE CallHolds(call[e])'
      <3>1. CASE e = c
        BY <1>2, <3>1, IdleCall DEF CallHolds, Joins, Onboards
      <3>2. CASE e # c
        <4>1. CallHolds(call[e]) /\ call'[e] = call[e] /\ call[e] \in AdminCall
          BY <1>2, <2>1, <3>2 DEF Whole, ClientsOK
        <4>2. ASSUME Together(call[e]), call[e].org # NoOrg PROVE Together(call[e])'
          BY <1>1, <1>2, <1>4, <1>5, <4>1, <4>2 DEF Together, AdminCall
        <4>3. call[e].org \in Orgs => call[e].org # NoOrg
          BY ClientsAssumption
        <4> QED BY <1>1, <4>1, <4>2, <4>3 DEF CallHolds, Joins, Onboards
      <3> QED BY <3>1, <3>2
    <2>4. OneJoins'
      BY <1>2, <2>1, IdleCall DEF Whole, OneJoins, Joins
    <2> QED BY <1>1, <2>1, <2>2, <2>3, <2>4 DEF Whole, Tidy
  <1> QED BY <1>2, <1>6, <1>8, <1>9

\* auth.invite makes the person, or finds the email taken.
LEMMA InviteKeeps ==
  ASSUME GrantsInv, NEW c \in AdminCalls, Invite(c)
  PROVE  GrantsInv'
  <1> USE DEF GrantsInv
  <1>1. /\ call[c].at = "invite" /\ call[c] \in AdminCall /\ deaths \in Nat
        /\ UNCHANGED <<project, access, deaths>>
    BY DEF ClientsOK, Invite
  <1>2. PICK u : u = call[c].person
    OBVIOUS
  <1>3. CASE client[u].made
    <2>1. UNCHANGED client /\ Goes(c, Idle)
      BY <1>2, <1>3 DEF Invite, Answer
    <2> QED BY <1>1, <2>1, IdleCall, IdleHolds, QuietCall
  <1>4. CASE ~ client[u].made
    <2>1. PICK k : k = [call[c] EXCEPT !.at = call[c].then]
      OBVIOUS
    <2>2. /\ k \in AdminCall /\ k.at = call[c].then /\ k.person = u /\ k.org = call[c].org
          /\ k.projects = call[c].projects /\ k.then = call[c].then
      BY <1>1, <1>2, <2>1 DEF AdminCall
    <2>3. Goes(c, k) /\ client' = [client EXCEPT ![u].made = TRUE]
      BY <1>2, <1>4, <2>1 DEF Invite
    <2>4. /\ client' \in [People -> OrgRow]
          /\ \A v \in People : client'[v].org = client[v].org /\ (client[v].made => client'[v].made)
          /\ u \in People => client'[u].made
      BY <2>3 DEF ClientsOK, OrgRow
    <2>5. /\ call' \in [AdminCalls -> AdminCall] /\ call'[c] = k
          /\ \A e \in AdminCalls : e # c => call'[e] = call[e]
          /\ raced \subseteq raced' /\ RaceNoted'
      BY <2>2, <2>3, CallGoes
    <2>6. ClientsOK'
      BY <1>1, <2>4, <2>5 DEF ClientsOK
    <2>7. NothingTaken'
      BY <1>1, <2>2, <2>5 DEF NothingTaken, Binds, Unbound, AdminCall
    <2>8. ASSUME deaths' = 0 PROVE Whole'
      <3>1. Whole /\ k.at \in {"attach", "onboard"} /\ u \in People /\ client[u].org = NoOrg
        BY <1>1, <1>2, <1>4, <2>2, <2>8 DEF Whole, Tidy, CallHolds, AdminCall
      <3>2. ASSUME NEW q \in Projects \ raced', NEW v \in People, <<q, v>> \in access' PROVE Within(q, v)'
        <4>1. Within(q, v)
          BY <1>1, <2>5, <3>1, <3>2 DEF Whole
        <4> QED BY <1>1, <2>4, <2>5, <4>1 DEF Within
      <3>3. ASSUME NEW e \in AdminCalls PROVE CallHolds(call[e])'
        <4>1. CASE e = c
          <5>1. CallHolds(call[c])
            BY <3>1 DEF Whole
          <5> QED BY <1>1, <1>2, <2>2, <2>4, <2>5, <3>1, <4>1, <5>1
                  DEF CallHolds, Joins, Onboards, Together
        <4>2. CASE e # c
          <5>1. CallHolds(call[e]) /\ call'[e] = call[e]
            BY <2>5, <3>1, <4>2 DEF Whole
          <5>2. \A v \in People : client'[v].org = client[v].org /\ (client[v].made => client'[v].made)
            BY <2>4
          <5> QED BY <1>1, <2>5, <5>1, <5>2 DEF CallHolds, Joins, Onboards, Together
        <4> QED BY <4>1, <4>2
      <3>4. OneJoins'
        <4>1. ASSUME NEW e \in AdminCalls, Joins(call[e]) PROVE call[e].person # u
          BY <1>4, <3>1, <4>1 DEF Whole, CallHolds
        <4> QED BY <2>2, <2>5, <3>1, <4>1 DEF Whole, OneJoins, Joins
      <3>5. Tidy'
        BY <1>1, <2>4, <3>1 DEF Whole, Tidy
      <3> QED BY <3>2, <3>3, <3>4, <3>5 DEF Whole
    <2> QED BY <2>5, <2>6, <2>7, <2>8
  <1> QED BY <1>3, <1>4

\* A person who had no organization is given one, and with it grants of projects bound to it.
LEMMA JoinKeeps ==
  ASSUME GrantsInv, NEW c \in AdminCalls, Joins(call[c]), Goes(c, Idle), UNCHANGED <<project, deaths>>,
         client' = [client EXCEPT ![call[c].person].org = call[c].org],
         NEW S \in SUBSET call[c].projects,
         access' = access \cup {<<p, call[c].person>> : p \in S},
         S = {} \/ call[c].at = "onboard"
  PROVE  GrantsInv'
  <1> USE DEF GrantsInv
  <1>1. call[c] \in AdminCall
    BY DEF ClientsOK
  <1>2. PICK u : u = call[c].person
    OBVIOUS
  <1>3. PICK o \in Orgs \cup {NoOrg} : o = call[c].org
    BY <1>1 DEF AdminCall
  <1>4. /\ client' \in [People -> OrgRow] /\ (u \in People => client'[u].org = o)
        /\ \A v \in People : client'[v].made = client[v].made
        /\ \A v \in People : v # u => client'[v] = client[v]
    BY <1>2, <1>3 DEF ClientsOK, OrgRow
  <1>5. /\ call' \in [AdminCalls -> AdminCall] /\ call'[c] = Idle
        /\ \A e \in AdminCalls : e # c => call'[e] = call[e]
        /\ raced \subseteq raced' /\ RaceNoted'
    BY IdleCall, CallGoes
  <1>6. S \subseteq Projects /\ access' = access \cup {<<p, u>> : p \in S}
    BY <1>1, <1>2 DEF AdminCall
  <1>7. ClientsOK'
    BY <1>4, <1>5 DEF ClientsOK
  <1>8. NothingTaken'
    BY <1>5, IdleHolds DEF NothingTaken, Binds, Unbound
  <1>9. ASSUME deaths' = 0 PROVE Whole'
    <2>1. /\ Whole /\ CallHolds(call[c])
      BY <1>9 DEF Whole
    <2>2. /\ u \in People /\ client[u].made /\ client[u].org = NoOrg /\ o # NoOrg
          /\ o \in Orgs /\ client'[u].org = o
      BY <1>2, <1>3, <1>4, <2>1, ClientsAssumption DEF CallHolds
    <2>3. ASSUME NEW q \in Projects \ raced', NEW v \in People, <<q, v>> \in access' PROVE Within(q, v)'
      <3>1. CASE <<q, v>> \in access
        <4>1. Within(q, v) /\ v # u
          BY <1>5, <2>1, <2>2, <2>3, <3>1 DEF Whole, Within
        <4> QED BY <1>4, <1>5, <4>1 DEF Within, Joins
      <3>2. CASE v = u /\ q \in S
        <4>1. project[q].org = o
          BY <1>3, <1>5, <2>1, <2>3, <3>2 DEF CallHolds, Onboards, Together
        <4> QED BY <2>2, <3>2, <4>1 DEF Within
      <3> QED BY <1>6, <2>3, <3>1, <3>2
    <2>4. ASSUME NEW e \in AdminCalls PROVE CallHolds(call[e])'
      <3>1. CASE e = c
        BY <1>5, <3>1, IdleCall DEF CallHolds, Joins, Onboards
      <3>2. CASE e # c
        <4>1. CallHolds(call[e]) /\ call'[e] = call[e]
          BY <1>5, <2>1, <3>2 DEF Whole
        <4>2. Joins(call[e]) => call[e].person # u
          BY <1>2, <2>1, <3>2 DEF Whole, OneJoins
        <4>3. call[e].at = "upsert" => call[e].person # u
          BY <2>2, <4>1 DEF CallHolds
        <4> QED BY <1>4, <1>5, <4>1, <4>2, <4>3 DEF CallHolds, Joins, Onboards, Together
      <3> QED BY <3>1, <3>2
    <2>5. OneJoins'
      BY <1>5, <2>1, IdleHolds DEF Whole, OneJoins
    <2>6. Tidy'
      BY <1>4, <1>6, <2>1, <2>2 DEF Whole, Tidy
    <2> QED BY <2>3, <2>4, <2>5, <2>6 DEF Whole
  <1> QED BY <1>5, <1>7, <1>8, <1>9

LEMMA AttachKeeps ==
  ASSUME GrantsInv, NEW c \in AdminCalls, Attach(c)
  PROVE  GrantsInv'
  <1>1. /\ Joins(call[c]) /\ Goes(c, Idle) /\ UNCHANGED <<project, deaths>>
        /\ client' = [client EXCEPT ![call[c].person].org = call[c].org]
        /\ access' = access \cup {<<p, call[c].person>> : p \in {}}
    BY DEF Attach, Answer, Joins
  <1>2. {} \in SUBSET call[c].projects
    OBVIOUS
  <1> QED BY <1>1, <1>2, JoinKeeps

LEMMA OnboardKeeps ==
  ASSUME GrantsInv, NEW c \in AdminCalls, Onboard(c)
  PROVE  GrantsInv'
  <1>1. /\ call[c].at = "onboard" /\ Goes(c, Idle) /\ UNCHANGED <<project, deaths>> /\ deaths \in Nat
    BY DEF Onboard, Answer, GrantsInv, ClientsOK
  <1>2. CASE NameTaken(call[c].org, call[c].name)
    <2>1. UNCHANGED <<client, access>>
      BY <1>2 DEF Onboard
    <2> QED BY <1>1, <2>1, IdleCall, IdleHolds, QuietCall
  <1>3. CASE ~ NameTaken(call[c].org, call[c].name)
    <2>1. /\ client' = [client EXCEPT ![call[c].person].org = call[c].org]
          /\ access' = access \cup {<<p, call[c].person>> : p \in call[c].projects}
      BY <1>3 DEF Onboard
    <2>2. call[c].projects \in SUBSET call[c].projects
      OBVIOUS
    <2> QED BY <1>1, <2>1, <2>2, JoinKeeps DEF Joins
  <1> QED BY <1>2, <1>3

\* The grant is written; a first one goes on to bind the project.
LEMMA UpsertKeeps ==
  ASSUME GrantsInv, NEW c \in AdminCalls, Upsert(c)
  PROVE  GrantsInv'
  <1> USE DEF GrantsInv
  <1>1. /\ call[c].at = "upsert" /\ call[c] \in AdminCall
        /\ UNCHANGED <<project, client, deaths>>
        /\ access' = access \cup {<<p, call[c].person>> : p \in call[c].projects}
    BY DEF ClientsOK, Upsert
  <1>2. PICK k \in AdminCall : /\ Goes(c, k) /\ k.at \in {"overwrite", "idle"}
                               /\ k.at = "overwrite" <=> call[c].bind
                               /\ k.at = "overwrite" => k.org = call[c].org /\ k.projects = call[c].projects
    <2>1. CASE call[c].bind
      <3>1. PICK k : k = [call[c] EXCEPT !.at = "overwrite"]
        OBVIOUS
      <3>2. k \in AdminCall /\ k.at = "overwrite" /\ k.org = call[c].org /\ k.projects = call[c].projects
        BY <1>1, <3>1 DEF AdminCall
      <3>3. Goes(c, k)
        BY <2>1, <3>1 DEF Upsert
      <3> QED BY <2>1, <3>2, <3>3
    <2>2. CASE ~ call[c].bind
      BY <2>2, IdleCall DEF Upsert, Answer
    <2> QED BY <2>1, <2>2
  <1>3. /\ call' \in [AdminCalls -> AdminCall] /\ call'[c] = k
        /\ \A e \in AdminCalls : e # c => call'[e] = call[e]
        /\ raced \subseteq raced' /\ RaceNoted'
    BY <1>2, CallGoes
  <1>4. ClientsOK'
    BY <1>1, <1>3 DEF ClientsOK
  <1>5. NothingTaken'
    BY <1>1, <1>2, <1>3 DEF NothingTaken, Binds, Unbound
  <1>6. ASSUME deaths' = 0 PROVE Whole'
    <2>1. Whole
      BY <1>1, <1>6
    <2>2. PICK u \in People : /\ u = call[c].person /\ call[c].org = client[u].org
                              /\ client[u].org # NoOrg
                              /\ ~ call[c].bind => Together(call[c])
      BY <1>1, <2>1 DEF Whole, CallHolds
    <2>3. Tidy'
      BY <1>1, <2>1, <2>2 DEF Whole, Tidy, AdminCall
    <2>4. ASSUME NEW q \in Projects \ raced', NEW v \in People, <<q, v>> \in access' PROVE Within(q, v)'
      <3>1. CASE <<q, v>> \in access
        <4>1. Within(q, v)
          BY <1>3, <2>1, <2>4, <3>1 DEF Whole
        <4> QED BY <1>1, <1>3, <4>1 DEF Within
      <3>2. CASE v = u /\ q \in call[c].projects
        <4>1. CASE call[c].bind
          BY <1>1, <1>2, <1>3, <2>2, <3>2, <4>1 DEF Within
        <4>2. CASE ~ call[c].bind
          BY <1>1, <1>3, <2>2, <2>4, <3>2, <4>2 DEF Within, Together
        <4> QED BY <4>1, <4>2
      <3> QED BY <1>1, <2>2, <2>4, <3>1, <3>2
    <2>5. ASSUME NEW e \in AdminCalls PROVE CallHolds(call[e])'
      <3>1. CASE e = c
        BY <1>2, <1>3, <3>1 DEF CallHolds, Joins, Onboards
      <3>2. CASE e # c
        BY <1>1, <1>3, <2>1, <3>2 DEF Whole, CallHolds, Joins, Onboards, Together
      <3> QED BY <3>1, <3>2
    <2>6. OneJoins'
      BY <1>2, <1>3, <2>1 DEF Whole, OneJoins, Joins
    <2> QED BY <2>3, <2>4, <2>5, <2>6 DEF Whole
  <1> QED BY <1>3, <1>4, <1>5, <1>6

LEMMA AdminStepKeeps ==
  ASSUME GrantsInv, NEW c \in AdminCalls, AdminStep(c)
  PROVE  GrantsInv'
  <1>1. CASE Overwrite(c) \/ Invite(c) \/ Attach(c) \/ Onboard(c) \/ Upsert(c)
    BY <1>1, OverwriteKeeps, InviteKeeps, AttachKeeps, OnboardKeeps, UpsertKeeps
  <1>2. ASSUME NEW p \in Projects, CreateProject(c, p) PROVE GrantsInv'
    BY <1>2, CreateProjectKeeps
  <1> QED
    BY <1>1, <1>2, BeginKeeps, CallGoesOn DEF AdminStep

LEMMA AccessGrows ==
  ASSUME NEW c \in AdminCalls, AdminStep(c)
  PROVE  access \subseteq access'
  BY DEF AdminStep, Overwrite, Invite, Attach, Onboard, Upsert, End, Ended, Die, Revoke, ReserveForNew,
         ReserveForOld, EndCheck, CreateProject, UpdateRead, GrantCheck, UserCheck, OnboardCheck, rows

LEMMA ClientsKeep ==
  ASSUME GrantsInv, ClientsNext
  PROVE  GrantsInv' /\ access \subseteq access'
  <1>1. ASSUME NEW c \in AdminCalls, AdminStep(c) PROVE GrantsInv' /\ access \subseteq access'
    BY <1>1, AdminStepKeeps, AccessGrows
  <1>2. ASSUME NEW o \in Orgs, NEW n \in Names, CreateOrg(o, n) PROVE GrantsInv' /\ access \subseteq access'
    BY <1>2, TenantsStay DEF CreateOrg, rows
  <1>3. ASSUME NEW u \in People, SignIn(u) PROVE GrantsInv' /\ access \subseteq access'
    BY <1>3, TenantsStay DEF SignIn
  <1> QED BY <1>1, <1>2, <1>3 DEF ClientsNext

\* A restart ends every call; if one was under way it died.
LEMMA RestartTenants ==
  ASSUME GrantsInv, PortalRestart
  PROVE  GrantsInv'
  <1> USE DEF GrantsInv
  <1>1. /\ UNCHANGED <<project, client, access, raced>> /\ call' = [c \in AdminCalls |-> Idle]
        /\ deaths' = IF \E c \in AdminCalls : ~ Free(c) THEN deaths + 1 ELSE deaths
        /\ deaths \in Nat
    BY DEF PortalRestart, rows, ClientsOK
  <1>2. CASE \A c \in AdminCalls : Free(c)
    <2>1. call' = call
      BY <1>1, <1>2 DEF Free, ClientsOK
    <2> QED BY <1>1, <1>2, <2>1, TenantsStay
  <1>3. CASE \E c \in AdminCalls : ~ Free(c)
    <2>1. deaths' \in Nat /\ deaths' # 0
      BY <1>1, <1>3
    <2>2. ClientsOK'
      BY <1>1, <2>1, IdleCall DEF ClientsOK
    <2>3. NothingTaken' /\ RaceNoted'
      BY <1>1, IdleHolds DEF NothingTaken, RaceNoted, Contested, Binding
    <2> QED BY <2>1, <2>2, <2>3
  <1> QED BY <1>2, <1>3

\* The three steps of a client's request.
LEMMA AskKeeps ==
  ASSUME Portion, NEW d \in Downloads, UNCHANGED access,
         \/ AssertActive(d) \/ Scope(d) \/ ShowProject(d) \/ FetchFile(d)
         \/ \E u \in People, item \in Projects \cup Versions : Ask(d, u, item)
  PROVE  Portion'
  <1> DEFINE Shows(a) ==
        /\ a = [x \in {"at", "person", "item"} |-> a[x]]
        /\ a.at = "fetch" /\ a.item \in Projects => <<a.item, a.person>> \in access
  <1>1. SUFFICES /\ \E a : Asks(d, a) /\ Shows(a)
                 /\ seen' \subseteq access
    <2>1. PICK a : Asks(d, a) /\ Shows(a)
      BY <1>1
    <2>2. /\ ask' = [e \in Downloads |-> ask'[e]] /\ ask'[d] = a
          /\ \A e \in Downloads : e # d => ask'[e] = ask[e]
      BY <2>1 DEF Asks, Portion
    <2> QED BY <1>1, <2>1, <2>2 DEF Portion
  <1>2. Shows(NoAsk)
    BY DEF NoAsk
  <1>3. /\ ask[d] = [x \in {"at", "person", "item"} |-> ask[d][x]] /\ seen \subseteq access
        /\ ask[d].at = "fetch" /\ ask[d].item \in Projects => <<ask[d].item, ask[d].person>> \in access
    BY DEF Portion
  <1>4. CASE Refused(d)
    <2>1. seen' \subseteq access
      BY <1>3 DEF AssertActive, Scope, ShowProject, FetchFile, Ask
    <2> QED BY <1>2, <1>4, <2>1 DEF Refused
  <1>5. ASSUME NEW u \in People, NEW item \in Projects \cup Versions, Ask(d, u, item)
        PROVE  (\E a : Asks(d, a) /\ Shows(a)) /\ seen' \subseteq access
    <2>1. Shows([at |-> "active", person |-> u, item |-> item])
      OBVIOUS
    <2> QED BY <1>3, <1>5, <2>1 DEF Ask
  <1>6. CASE AssertActive(d) /\ ~ Refused(d)
    <2>1. Asks(d, [ask[d] EXCEPT !.at = "scope"]) /\ seen' = seen
      BY <1>6 DEF AssertActive
    <2>2. Shows([ask[d] EXCEPT !.at = "scope"])
      BY <1>3
    <2> QED BY <1>3, <2>1, <2>2
  <1>7. CASE Scope(d) /\ ~ Refused(d)
    <2>1. /\ Asks(d, [ask[d] EXCEPT !.at = "fetch"]) /\ seen' = seen
          /\ <<ProjectOf(ask[d].item), ask[d].person>> \in access
      BY <1>7 DEF Scope
    <2>2. ask[d].item \in Projects => ProjectOf(ask[d].item) = ask[d].item
      BY PortalAssumption DEF ProjectOf
    <2>3. Shows([ask[d] EXCEPT !.at = "fetch"])
      BY <1>3, <2>1, <2>2
    <2> QED BY <1>3, <2>1, <2>3
  <1> QED BY <1>4, <1>5, <1>6, <1>7 DEF ShowProject, FetchFile

LEMMA TenantsInitially == PortalInit => TenantInv
  <1> SUFFICES ASSUME PortalInit PROVE TenantInv
    OBVIOUS
  <1>1. /\ project = [p \in Projects |-> [made |-> FALSE, org |-> NoOrg]]
        /\ client = [u \in People |-> [made |-> FALSE, org |-> NoOrg]]
        /\ access = {} /\ seen = {} /\ ask = [d \in Downloads |-> NoAsk]
        /\ call = [c \in AdminCalls |-> Idle] /\ deaths = 0
    BY DEF PortalInit, ClientsInit
  <1>2. ClientsOK
    BY <1>1, IdleCall DEF ClientsOK, OrgRow
  <1>3. RaceNoted /\ NothingTaken /\ OneJoins /\ \A c \in AdminCalls : CallHolds(call[c])
    BY <1>1, IdleHolds DEF RaceNoted, Contested, Binding, NothingTaken, OneJoins
  <1>4. Whole
    BY <1>1, <1>3 DEF Whole, Tidy
  <1>5. Portion
    BY <1>1 DEF Portion, NoAsk
  <1> QED BY <1>2, <1>3, <1>4, <1>5 DEF TenantInv, GrantsInv

LEMMA TenantStep ==
  TenantInv /\ [PortalNext]_<<clientVars, fileVars, portalVars>> => TenantInv'
  <1> SUFFICES ASSUME TenantInv, [PortalNext]_<<clientVars, fileVars, portalVars>>
               PROVE  TenantInv'
    OBVIOUS
  <1> USE DEF TenantInv
  <1>1. CASE ClientsNext /\ UNCHANGED <<fileVars, portalVars>>
    <2>1. GrantsInv' /\ access \subseteq access'
      BY <1>1, ClientsKeep
    <2>2. Portion'
      BY <1>1, <2>1 DEF Portion, portalVars
    <2> QED BY <2>1, <2>2
  <1>2. CASE UNCHANGED <<clientVars, portalVars>>
    <2>1. GrantsInv'
      BY <1>2, TenantsStay DEF clientVars
    <2>2. Portion'
      BY <1>2 DEF Portion, clientVars, portalVars
    <2> QED BY <2>1, <2>2
  <1>3. CASE PortalRestart
    <2>1. GrantsInv'
      BY <1>3, RestartTenants
    <2>2. Portion'
      BY <1>3 DEF PortalRestart, Portion, NoAsk, rows
    <2> QED BY <2>1, <2>2
  <1>4. ASSUME NEW d \in Downloads,
               \/ AssertActive(d) \/ Scope(d) \/ ShowProject(d) \/ FetchFile(d)
               \/ \E u \in People, item \in Projects \cup Versions : Ask(d, u, item)
        PROVE  TenantInv'
    <2>1. UNCHANGED clientVars
      BY <1>4 DEF AssertActive, Scope, ShowProject, FetchFile, Ask
    <2>2. GrantsInv' /\ Portion'
      BY <1>4, <2>1, TenantsStay, AskKeeps DEF clientVars
    <2> QED BY <2>2
  <1>5. CASE UNCHANGED <<clientVars, fileVars, portalVars>>
    BY <1>2, <1>5
  <1> QED BY <1>1, <1>2, <1>3, <1>4, <1>5 DEF PortalNext

LEMMA TenantsApart == TenantInv => TenantBoundary
  <1> SUFFICES ASSUME TenantInv, deaths = 0, NEW g \in access \cup seen, g[1] \notin raced
               PROVE  /\ client[g[2]].org # NoOrg
                      /\ \/ project[g[1]].org = client[g[2]].org
                         \/ \E c \in AdminCalls :
                              /\ call[c].at = "overwrite" /\ call[c].org = client[g[2]].org
                              /\ g[1] \in call[c].projects
    BY DEF TenantBoundary
  <1>1. Whole /\ g \in access
    BY DEF TenantInv, GrantsInv, Portion
  <1>2. PICK p \in Projects, u \in People : g = <<p, u>>
    BY <1>1 DEF Whole, Tidy
  <1> QED BY <1>1, <1>2 DEF Whole, Within

\* ClientAdminService, "closed to every other org, permanently": while no call died half-way, a
\* project is granted and shown to its own client's people only, whatever else the Super Admin and
\* the clients do at the same time, unless two calls were going to bind that very project at once.
THEOREM TenantsStayApart == PortalSpec => []TenantBoundary
  BY TenantsInitially, TenantStep, TenantsApart, PTL DEF PortalSpec

\* A call begins to bind a project only if it reads that the project is nobody's.
LEMMA NoNewBinder ==
  ASSUME ClientsOK, NEW p \in Projects, project[p].org # NoOrg, \A c \in AdminCalls : ~ Binding(c, p),
         NEW c \in AdminCalls, AdminStep(c)
  PROVE  \A e \in AdminCalls : ~ Binding(e, p)'
  <1> DEFINE Harmless == \E k : k \in AdminCall /\ Goes(c, k) /\ ~ (Binds(k) /\ p \in k.projects)
  <1>1. SUFFICES Harmless
    <2>1. PICK k : k \in AdminCall /\ Goes(c, k) /\ ~ (Binds(k) /\ p \in k.projects)
      OBVIOUS
    <2> QED BY <2>1, CallGoes DEF Binding, Binds
  <1>2. call[c] \in AdminCall /\ (Binds(call[c]) => p \notin call[c].projects)
    BY DEF ClientsOK, Binding
  <1>3. Goes(c, Idle) => Harmless
    BY IdleCall, IdleHolds
  <1>4. ASSUME NEW at \in {"overwrite", "attach", "onboard", "revoke"},
               Goes(c, [call[c] EXCEPT !.at = at]), at = "overwrite" => Binds(call[c])
        PROVE  Harmless
    <2>1. PICK k : k = [call[c] EXCEPT !.at = at]
      OBVIOUS
    <2>2. k \in AdminCall /\ k.at = at /\ k.projects = call[c].projects
      BY <1>2, <2>1 DEF AdminCall
    <2> QED BY <1>2, <1>4, <2>1, <2>2 DEF Binds
  <1>5. ASSUME NEW o \in Orgs, ReserveForNew(c, o) PROVE Harmless
    <2>1. PICK k : k = Creating(o)
      OBVIOUS
    <2>2. k \in AdminCall /\ k.at = "create" /\ Goes(c, k)
      BY <1>5, <2>1, CreatingCall DEF ReserveForNew, Creating
    <2> QED BY <2>2 DEF Binds
  <1>6. ASSUME NEW q \in Projects, UpdateRead(c, q) PROVE Harmless
    <2>1. PICK k : k = Reserving({q})
      OBVIOUS
    <2>2. {q} \in SUBSET Projects /\ q # p
      BY <1>6 DEF UpdateRead, NeedsClient
    <2>3. k \in AdminCall /\ k.projects = {q} /\ Goes(c, k)
      BY <1>6, <2>1, <2>2, ReservingCall DEF UpdateRead, Reserving
    <2> QED BY <2>2, <2>3
  <1>7. ASSUME NEW o \in Orgs, ReserveForOld(c, o) PROVE Harmless
    <2>1. PICK k : k = [call[c] EXCEPT !.at = "overwrite", !.org = o]
      OBVIOUS
    <2>2. k \in AdminCall /\ k.projects = call[c].projects
      BY <1>2, <2>1 DEF AdminCall
    <2>3. Goes(c, k) /\ Binds(call[c])
      BY <1>7, <2>1 DEF ReserveForOld, Binds
    <2> QED BY <1>2, <2>2, <2>3
  <1>8. ASSUME NEW o \in Orgs, NEW u \in People, UserCheck(c, o, u) PROVE Harmless
    <2>1. PICK k : k = Inviting(o, u)
      OBVIOUS
    <2>2. k \in AdminCall /\ k.at = "invite" /\ Goes(c, k)
      BY <1>8, <2>1, InvitingCall DEF UserCheck, Inviting
    <2> QED BY <2>2 DEF Binds
  <1>9. ASSUME NEW o \in Orgs, NEW u \in People, NEW n \in Names, NEW P \in SUBSET Projects,
               OnboardCheck(c, o, u, n, P)
        PROVE  Harmless
    <2>1. PICK k : k = Onboarding(o, u, n, P)
      OBVIOUS
    <2>2. k \in AdminCall /\ k.at = "invite" /\ Goes(c, k)
      <3>1. k \in AdminCall /\ k.at = "invite"
        BY <2>1, OnboardingCall
      <3>2. Goes(c, k)
        BY <1>9, <2>1, Zenon DEF OnboardCheck, Onboarding
      <3> QED BY <3>1, <3>2
    <2> QED BY <2>2 DEF Binds
  <1>10. ASSUME NEW q \in Projects, NEW u \in People, GrantCheck(c, q, u) PROVE Harmless
    <2> DEFINE b == project[q].org = NoOrg
    <2>1. client[u].org \in Orgs /\ {q} \in SUBSET Projects /\ b \in BOOLEAN
      BY <1>10 DEF GrantCheck, ClientsOK, OrgRow
    <2>2. PICK k : k = Granting({q}, u, client[u].org, b)
      OBVIOUS
    <2>3. Goes(c, k)
      BY <1>10, <2>2 DEF GrantCheck, Granting
    <2>4. q = p => ~ b
      OBVIOUS
    <2> HIDE DEF b
    <2>5. k \in AdminCall /\ k.at = "upsert" /\ k.projects = {q} /\ k.bind = b
      BY <2>1, <2>2, GrantingCall
    <2> QED BY <2>3, <2>4, <2>5 DEF Binds
  <1>11. ASSUME NEW o \in Orgs, EndCheck(c, o) PROVE Harmless
    <2> DEFINE U == {v \in People : client[v].org = o}
    <2>1. PICK k : k = Ending(o, U)
      OBVIOUS
    <2>2. U \in SUBSET People /\ Goes(c, k)
      BY <1>11, <2>1 DEF EndCheck, Ending
    <2> HIDE DEF U
    <2>3. k \in AdminCall /\ k.at = "end"
      BY <2>1, <2>2, EndingCall
    <2> QED BY <2>2, <2>3 DEF Binds
  <1>12. ASSUME NEW u \in People, Revoke(c, u) PROVE Harmless
    <2>1. PICK k : k = [call[c] EXCEPT !.people = @ \ {u}]
      OBVIOUS
    <2>2. k \in AdminCall /\ k.at = "revoke" /\ Goes(c, k)
      BY <1>2, <1>12, <2>1 DEF AdminCall, Revoke
    <2> QED BY <2>2 DEF Binds
  <1>13. CASE Invite(c)
    <2>1. CASE Goes(c, Idle)
      BY <1>3, <2>1
    <2>2. CASE Goes(c, [call[c] EXCEPT !.at = call[c].then])
      <3>1. PICK k : k = [call[c] EXCEPT !.at = call[c].then]
        OBVIOUS
      <3>2. k \in AdminCall /\ k.at \in {"idle", "attach", "onboard"}
        BY <1>2, <3>1 DEF AdminCall
      <3> QED BY <2>2, <3>1, <3>2 DEF Binds
    <2> QED BY <1>13, <2>1, <2>2 DEF Invite, Answer
  <1>14. CASE Upsert(c)
    <2>1. call[c].bind => Binds(call[c])
      BY <1>14 DEF Upsert, Binds
    <2> QED BY <1>3, <1>4, <1>14, <2>1 DEF Upsert, Answer
  <1>15. CASE End(c)
    BY <1>4, <1>15 DEF End
  <1>16. CASE \/ Overwrite(c) \/ Attach(c) \/ Onboard(c) \/ Ended(c) \/ Die(c)
              \/ \E q \in Projects : CreateProject(c, q)
    BY <1>3, <1>16 DEF Overwrite, Attach, Onboard, Ended, Die, CreateProject, Answer
  <1> HIDE DEF Harmless
  <1> QED
    BY <1>5, <1>6, <1>7, <1>8, <1>9, <1>10, <1>11, <1>12, <1>13, <1>14, <1>15, <1>16 DEF AdminStep

\* Only two handlers write a project's organization: one makes the project, the other has read
\* that it has none.
LEMMA BindingStep ==
  ASSUME TenantInv, [PortalNext]_<<clientVars, fileVars, portalVars>>, NEW p \in Projects, Settled(p)
  PROVE  project'[p].org = project[p].org /\ Settled(p)'
  <1>1. /\ project[p].org # NoOrg /\ \A c \in AdminCalls : ~ Binding(c, p)
        /\ ClientsOK
    BY DEF TenantInv, GrantsInv, NothingTaken, Unbound, Binding, Settled
  <1>2. SUFFICES project'[p].org = project[p].org /\ \A e \in AdminCalls : ~ Binding(e, p)'
    BY <1>1 DEF Settled
  <1>3. ASSUME NEW c \in AdminCalls, AdminStep(c)
        PROVE  project'[p].org = project[p].org /\ \A e \in AdminCalls : ~ Binding(e, p)'
    <2>1. UNCHANGED project \/ Overwrite(c) \/ \E q \in Projects : CreateProject(c, q)
      BY <1>3 DEF AdminStep, Invite, Attach, Onboard, Upsert, End, Ended, Die, Revoke, ReserveForNew,
             ReserveForOld, EndCheck, UpdateRead, GrantCheck, UserCheck, OnboardCheck, rows
    <2>2. CASE Overwrite(c)
      <3>1. p \notin call[c].projects
        BY <1>1, <2>2 DEF Overwrite, Binding, Binds
      <3> QED BY <1>1, <1>3, <2>2, <3>1, NoNewBinder DEF Overwrite
    <2>3. ASSUME NEW q \in Projects, CreateProject(c, q) PROVE project'[p].org = project[p].org
      BY <1>1, <2>3 DEF CreateProject, ClientsOK
    <2> QED BY <1>1, <1>3, <2>1, <2>2, <2>3, NoNewBinder
  <1>4. CASE UNCHANGED <<project, call>>
    BY <1>1, <1>4 DEF Binding
  <1>5. CASE PortalRestart
    BY <1>1, <1>5, IdleHolds DEF PortalRestart, Binding, rows
  <1> QED
    BY <1>3, <1>4, <1>5 DEF PortalNext, ClientsNext, CreateOrg, SignIn, rows, clientVars,
       AssertActive, Scope, ShowProject, FetchFile, Ask

\* Whatever reservations and first grants interleave or die, a project that is bound to a client and
\* that no call is about to bind, or that none ever raced for, stays bound to that client.
THEOREM BoundProjectsStayBound == PortalSpec => BindingIsFinal
  <1>1. TenantInv /\ [PortalNext]_<<clientVars, fileVars, portalVars>> =>
          [\A p \in Projects : Settled(p) => project'[p].org = project[p].org /\ Settled(p)']_clientVars
    BY BindingStep
  <1> QED BY <1>1, TenantsInitially, TenantStep, PTL DEF PortalSpec, BindingIsFinal
=============================================================================
