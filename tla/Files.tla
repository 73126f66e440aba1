-------------------------------- MODULE Files --------------------------------
(***************************************************************************)
(* Files of tasks: a browser PUTs an object with a presigned link and       *)
(* finalizes the upload, a worker of the queue scans it, and only what was  *)
(* scanned clean and has not changed since may be downloaded.  The queries  *)
(* of FilesService and ScanService are steps that interleave with uploads   *)
(* to the storage, which go past the API.                                   *)
(***************************************************************************)
EXTENDS Naturals, FiniteSets, Bags, BagsExt

CONSTANTS
  Versions,            \* rows of FileVersion
  Contents, Infected,  \* what can be stored, by ETag, and what ClamAV flags
  Oversize,            \* contents above the limit
  Uploads, Workers, Downloads,   \* calls of finalize, queue workers, calls of download
  NoVersion, NoContent,
  Attempts, MaxFailures

ASSUME FilesAssumption ==
  /\ Infected \subseteq Contents /\ Oversize \subseteq Contents
  /\ NoVersion \notin Versions /\ NoContent \notin Contents
  /\ Attempts \in Nat \ {0} /\ MaxFailures \in Nat

VARIABLES
  version,    \* scanStatus, visibility, deletedAt, scannedEtag
  object,     \* the object under each version's key
  past,       \* what was stored under the key before
  link,       \* versions whose upload link still works
  queue,      \* scan jobs, each with the attempts it has left
  upload, worker, download,
  cleaning,   \* what the cleanup still has to do with each version it read
  served,     \* contents served, and whether they came in place of the ones a link was given for
  lost,       \* versions whose finalize was cut off, or whose last scan threw outside its try
  failures
fileVars == <<version, object, past, link, queue, upload, worker, download, cleaning, served, lost, failures>>
store == <<object, past, link>>

NoFile == [status |-> "none", shared |-> FALSE, deleted |-> FALSE, etag |-> NoContent]
AtRest == [at |-> "idle", version |-> NoVersion, tries |-> 0, etag |-> NoContent]
NoUpload == [at |-> "idle", version |-> NoVersion]
NoDownload == [at |-> "idle", version |-> NoVersion, etag |-> NoContent, open |-> FALSE]

FilesInit ==
  /\ version = [v \in Versions |-> NoFile]
  /\ object = [v \in Versions |-> NoContent] /\ past = [v \in Versions |-> {}]
  /\ link = {} /\ queue = EmptyBag
  /\ upload = [f \in Uploads |-> NoUpload] /\ worker = [w \in Workers |-> AtRest]
  /\ download = [d \in Downloads |-> NoDownload]
  /\ cleaning = [v \in Versions |-> "nothing"] /\ served = {} /\ lost = {} /\ failures = 0

SetStatus(v, s) == version' = [version EXCEPT ![v].status = s]

\* StorageService.remove: a failure is logged and forgotten.
RemoveObject(v) ==
  /\ UNCHANGED link
  /\ \/ /\ object' = [object EXCEPT ![v] = NoContent]
        /\ past' = [past EXCEPT ![v] = @ \cup {object[v]}]
        /\ UNCHANGED failures
     \/ /\ object[v] # NoContent /\ failures < MaxFailures
        /\ failures' = failures + 1
        /\ UNCHANGED <<object, past>>

----------------------------------------------------------------------------
(* Uploading.                                                               *)

InitUpload(v) ==
  /\ version[v].status = "none"
  /\ SetStatus(v, "PENDING")
  /\ link' = link \cup {v}
  /\ UNCHANGED <<object, past, queue, upload, worker, download, cleaning, served, lost, failures>>

\* The browser's PUT, repeated while the link works.  Nothing comes back once replaced.
Put(v, x) ==
  /\ v \in link /\ x \notin past[v] /\ x # object[v]
  /\ object' = [object EXCEPT ![v] = x]
  /\ past' = [past EXCEPT ![v] = @ \cup {object[v]}]
  /\ UNCHANGED <<version, link, queue, upload, worker, download, cleaning, served, lost, failures>>

\* The link has expired and the last PUT begun with it has ended.
LinkExpires(v) ==
  /\ v \in link /\ link' = link \ {v}
  /\ UNCHANGED <<version, object, past, queue, upload, worker, download, cleaning, served, lost, failures>>

\* finalize: the row is read, its status is not looked at, and the object is measured.
Finalize(f, v) ==
  /\ upload[f] = NoUpload /\ version[v].status # "none" /\ object[v] # NoContent
  /\ upload' = [upload EXCEPT ![f] =
       [at |-> IF object[v] \in Oversize THEN "reject" ELSE "mark", version |-> v]]
  /\ UNCHANGED <<version, store, queue, worker, download, cleaning, served, lost, failures>>

Reject(f) ==
  /\ upload[f].at = "reject"
  /\ RemoveObject(upload[f].version)
  /\ upload' = [upload EXCEPT ![f].at = "refuse"]
  /\ UNCHANGED <<version, queue, worker, download, cleaning, served, lost>>

Refuse(f) ==
  /\ upload[f].at = "refuse"
  /\ SetStatus(upload[f].version, "ERROR")
  /\ upload' = [upload EXCEPT ![f] = NoUpload]
  /\ UNCHANGED <<store, queue, worker, download, cleaning, served, lost, failures>>

Mark(f) ==
  /\ upload[f].at = "mark"
  /\ SetStatus(upload[f].version, "SCANNING")
  /\ upload' = [upload EXCEPT ![f].at = "enqueue"]
  /\ UNCHANGED <<store, queue, worker, download, cleaning, served, lost, failures>>

Job(v, n) == [version |-> v, tries |-> n]
Enqueue(f) ==
  /\ upload[f].at = "enqueue"
  /\ queue' = BagAdd(queue, Job(upload[f].version, Attempts))
  /\ upload' = [upload EXCEPT ![f] = NoUpload]
  /\ UNCHANGED <<version, store, worker, download, cleaning, served, lost, failures>>

\* A query of finalize fails, or the queue does: a version marked and not queued is stranded.
Stranded == {upload[f].version : f \in {g \in Uploads : upload[g].at = "enqueue"}}
CallFails(f) ==
  /\ upload[f] # NoUpload /\ failures < MaxFailures
  /\ failures' = failures + 1
  /\ upload' = [upload EXCEPT ![f] = NoUpload]
  /\ lost' = IF upload[f].at = "enqueue" THEN lost \cup {upload[f].version} ELSE lost
  /\ UNCHANGED <<version, store, queue, worker, download, cleaning, served>>

----------------------------------------------------------------------------
(* Scanning.                                                                *)

\* The worker takes a job; scan reads the row and marks it.
Take(w, j) ==
  /\ worker[w] = AtRest /\ j \in DOMAIN queue
  /\ queue' = BagRemove(queue, j)
  /\ worker' = [worker EXCEPT ![w] =
       [AtRest EXCEPT !.at = "start", !.version = j.version, !.tries = j.tries - 1]]
  /\ UNCHANGED <<version, store, upload, download, cleaning, served, lost, failures>>

Start(w) ==
  /\ worker[w].at = "start"
  /\ SetStatus(worker[w].version, "SCANNING")
  /\ worker' = [worker EXCEPT ![w].at = "stat"]
  /\ UNCHANGED <<store, queue, upload, download, cleaning, served, lost, failures>>

Stat(w) ==
  /\ worker[w].at = "stat"
  /\ worker' = [worker EXCEPT ![w].at = "read", ![w].etag = object[worker[w].version]]
  /\ UNCHANGED <<version, store, queue, upload, download, cleaning, served, lost, failures>>

\* The stream and ClamAV's verdict on it; an object that is not there throws.
Read(w) ==
  /\ worker[w].at = "read"
  /\ LET x == object[worker[w].version]
     IN worker' = [worker EXCEPT
          ![w].at = CASE x = NoContent -> "error" [] x \in Infected -> "flag" [] OTHER -> "again"]
  /\ UNCHANGED <<version, store, queue, upload, download, cleaning, served, lost, failures>>

\* "Replaced while it was being scanned: scan again rather than vouch for bytes we never read."
Unchanged(w) == worker[w].etag # NoContent /\ object[worker[w].version] = worker[w].etag

StatAgain(w) ==
  /\ worker[w].at = "again"
  /\ worker' = [worker EXCEPT ![w].at = IF Unchanged(w) THEN "vouch" ELSE "error"]
  /\ UNCHANGED <<version, store, queue, upload, download, cleaning, served, lost, failures>>

Vouch(w) ==
  /\ worker[w].at = "vouch"
  /\ version' = [version EXCEPT ![worker[w].version].status = "AVAILABLE",
                               ![worker[w].version].etag = worker[w].etag]
  /\ worker' = [worker EXCEPT ![w] = AtRest]
  /\ UNCHANGED <<store, queue, upload, download, cleaning, served, lost, failures>>

\* Mutant: a scan that throws leaves the status as it is.
FailQuietly(v) == UNCHANGED version
MarkFailed(v) == SetStatus(v, "ERROR")

\* ERROR is written and the throw makes BullMQ try again, while there are attempts left.
Retry(w) ==
  queue' = IF worker[w].tries > 0 THEN BagAdd(queue, Job(worker[w].version, worker[w].tries)) ELSE queue

ScanThrows(w) ==
  /\ worker[w].at = "error"
  /\ MarkFailed(worker[w].version)
  /\ Retry(w)
  /\ worker' = [worker EXCEPT ![w] = AtRest]
  /\ UNCHANGED <<store, upload, download, cleaning, served, lost, failures>>

Flag(w) ==
  /\ worker[w].at = "flag"
  /\ SetStatus(worker[w].version, "INFECTED")
  /\ worker' = [worker EXCEPT ![w].at = "pull"]
  /\ UNCHANGED <<store, queue, upload, download, cleaning, served, lost, failures>>

Pull(w) ==
  /\ worker[w].at = "pull"
  /\ RemoveObject(worker[w].version)
  /\ worker' = [worker EXCEPT ![w].at = "tell"]
  /\ UNCHANGED <<version, queue, upload, download, cleaning, served, lost>>

\* The audit entry and the notices.
Tell(w) ==
  /\ worker[w].at = "tell"
  /\ worker' = [worker EXCEPT ![w] = AtRest]
  /\ UNCHANGED <<version, store, queue, upload, download, cleaning, served, lost, failures>>

\* Storage or ClamAV does not answer, before there is a verdict.
ScanFails(w) ==
  /\ worker[w].at \in {"stat", "read"} /\ failures < MaxFailures
  /\ failures' = failures + 1
  /\ worker' = [worker EXCEPT ![w].at = "error"]
  /\ UNCHANGED <<version, store, queue, upload, download, cleaning, served, lost>>

\* A query outside the try: before it, in its catch, or once there is a verdict.  Nothing is
\* written, the throw makes BullMQ try again, and after the last attempt the version is lost.
ScanBreaks(w) ==
  /\ worker[w].at \in {"start", "error", "again", "vouch", "flag", "tell"} /\ failures < MaxFailures
  /\ failures' = failures + 1
  /\ Retry(w)
  /\ lost' = IF worker[w].tries = 0 THEN lost \cup {worker[w].version} ELSE lost
  /\ worker' = [worker EXCEPT ![w] = AtRest]
  /\ UNCHANGED <<version, store, upload, download, cleaning, served>>

\* The API restarts: calls are gone, links go on working, and the queue hands a worker's job out
\* again.
Restart ==
  /\ failures < MaxFailures /\ failures' = failures + 1
  /\ upload' = [f \in Uploads |-> NoUpload]
  /\ download' = [d \in Downloads |-> IF download[d].at = "link" THEN download[d] ELSE NoDownload]
  /\ worker' = [w \in Workers |-> AtRest] /\ cleaning' = [v \in Versions |-> "nothing"]
  /\ lost' = lost \cup Stranded
  /\ LET busy == {w \in Workers : worker[w] # AtRest}
         again(w) == Job(worker[w].version, worker[w].tries + 1)
     IN queue' = queue (+) [j \in {again(w) : w \in busy} |-> Cardinality({w \in busy : again(w) = j})]
  /\ UNCHANGED <<version, store, served>>

----------------------------------------------------------------------------
(* Cleanup, sharing, deletion.                                              *)

\* Uploads never finalized for a day; an upload link lives for minutes.
CleanupRead(V) ==
  /\ V # {} /\ \A v \in Versions : cleaning[v] = "nothing"
  /\ \A v \in V : version[v].status = "PENDING" /\ v \notin link
  /\ cleaning' = [v \in Versions |-> IF v \in V THEN "object" ELSE "nothing"]
  /\ UNCHANGED <<version, store, queue, upload, worker, download, served, lost, failures>>

CleanObject(v) ==
  /\ cleaning[v] = "object"
  /\ RemoveObject(v)
  /\ cleaning' = [cleaning EXCEPT ![v] = "row"]
  /\ UNCHANGED <<version, queue, upload, worker, download, served, lost>>

CleanRow(v) ==
  /\ cleaning[v] = "row"
  /\ version' = [version EXCEPT ![v].status = "ERROR", ![v].deleted = TRUE]
  /\ cleaning' = [cleaning EXCEPT ![v] = "nothing"]
  /\ UNCHANGED <<store, queue, upload, worker, download, served, lost, failures>>

SetVisibility(v, b) ==
  /\ version[v].status # "none" /\ version[v].shared # b
  /\ version' = [version EXCEPT ![v].shared = b]
  /\ UNCHANGED <<store, queue, upload, worker, download, cleaning, served, lost, failures>>

DeleteVersion(v) ==
  /\ version[v].status # "none" /\ ~ version[v].deleted
  /\ version' = [version EXCEPT ![v].deleted = TRUE]
  /\ UNCHANGED <<store, queue, upload, worker, download, cleaning, served, lost, failures>>

----------------------------------------------------------------------------
(* Downloading, by staff of the project or by a client.                     *)

Readable(v, isClient) ==
  version[v].status = "AVAILABLE" /\ ~ version[v].deleted /\ (isClient => version[v].shared)

\* The row is read once: everything but the object is decided on it.
DownloadRead(d, v, isClient) ==
  /\ download[d] = NoDownload /\ Readable(v, isClient)
  /\ download' = [download EXCEPT ![d] =
       [at |-> "check", version |-> v, etag |-> version[v].etag, open |-> FALSE]]
  /\ UNCHANGED <<version, store, queue, upload, worker, cleaning, served, lost, failures>>

\* Mutant: the object is served as it is.
AsStored(d) == TRUE
\* assertUnchangedSinceScan
UnchangedSinceScan(d) == object[download[d].version] = download[d].etag

\* The link: it works for minutes, as the upload link may still do ("open").
DownloadCheck(d) ==
  /\ download[d].at = "check"
  /\ LET v == download[d].version
     IN download' = [download EXCEPT ![d] =
          IF UnchangedSinceScan(d)
          THEN [at |-> "link", version |-> v, etag |-> object[v], open |-> v \in link]
          ELSE NoDownload]
  /\ UNCHANGED <<version, store, queue, upload, worker, cleaning, served, lost, failures>>

\* The storage answers the browser with what is there by then.
Serve(d) ==
  /\ download[d].at = "link"
  /\ LET x == object[download[d].version]
     IN /\ x # NoContent
        /\ served' = served \cup {<<x, download[d].open /\ x # download[d].etag>>}
  /\ UNCHANGED <<version, store, queue, upload, worker, download, cleaning, lost, failures>>

DownloadEnds(d) ==
  /\ download[d].at = "link"
  /\ download' = [download EXCEPT ![d] = NoDownload]
  /\ UNCHANGED <<version, store, queue, upload, worker, cleaning, served, lost, failures>>

WorkerStep(w) ==
  \/ Start(w) \/ Stat(w) \/ Read(w) \/ StatAgain(w) \/ Vouch(w) \/ ScanThrows(w)
  \/ Flag(w) \/ Pull(w) \/ Tell(w) \/ ScanFails(w) \/ ScanBreaks(w)
  \/ \E j \in DOMAIN queue : Take(w, j)

VersionStep(v) ==
  \/ InitUpload(v) \/ LinkExpires(v) \/ CleanObject(v) \/ CleanRow(v) \/ DeleteVersion(v)
  \/ \E x \in Contents : Put(v, x)
  \/ \E b \in BOOLEAN : SetVisibility(v, b)
  \/ \E f \in Uploads : Finalize(f, v)
  \/ \E d \in Downloads : DownloadRead(d, v, FALSE)

FilesStep ==
  \/ \E w \in Workers : WorkerStep(w)
  \/ \E f \in Uploads : Reject(f) \/ Refuse(f) \/ Mark(f) \/ Enqueue(f) \/ CallFails(f)
  \/ \E v \in Versions : VersionStep(v)
  \/ \E V \in SUBSET Versions : CleanupRead(V)
  \/ \E d \in Downloads : DownloadCheck(d) \/ Serve(d) \/ DownloadEnds(d)
=============================================================================
