------------------------------ MODULE StorageGC ------------------------------
(***************************************************************************)
(* Pictures in the bucket and the rows that show them.  Staff upload,      *)
(* paste, replace and remove pictures of products and collections;         *)
(* triggers queue a URL nobody shows any more; a job tick deletes what is  *)
(* queued (sweepStorage) and once a week surveys the bucket for objects no *)
(* row ever recorded (maybeReconcile, reconcileStorage).                   *)
(*                                                                         *)
(* The database and the bucket share no transaction: what a job decided in *)
(* one call it does in a later one.  An edit of staff is one database      *)
(* transaction in two steps, the statement with its trigger, which sees    *)
(* only what others have committed, and the commit.                        *)
(***************************************************************************)
EXTENDS Naturals, FiniteSets

CONSTANTS
  Images,       \* rows product_images may have
  Collections,  \* collections, whose image_url may be null
  Urls,         \* URLs a row may hold
  Paths,        \* objects the bucket may hold
  PathOf,       \* pathFromUrl: the object a URL names, or NoPath
  NoUrl, NoPath,
  Opening,      \* what each holder shows at the start
  Workers,      \* job ticks and requests that run the jobs
  Pasted,       \* URLs staff paste from elsewhere
  PasteAnytime, \* whether staff may paste what a job is about to delete
  RouteShared,  \* whether the image route removes a picture others show
  GiveUp,       \* GC_GIVE_UP
  MaxDelete,    \* GC_MAX_DELETE
  MishapBound   \* bound: crashes, failed calls, readings that fall short

Holders == Images \cup Collections

ASSUME StorageAssumption ==
  /\ Images \cap Collections = {}
  /\ NoUrl \notin Urls
  /\ NoPath \notin Paths
  /\ PathOf \in [Urls -> Paths \cup {NoPath}]
  /\ Opening \in [Holders -> Urls \cup {NoUrl}]
  /\ Pasted \subseteq Urls
  /\ PasteAnytime \in BOOLEAN
  /\ RouteShared \in BOOLEAN
  /\ GiveUp \in Nat \ {0}
  /\ MaxDelete \in Nat \ {0}
  /\ MishapBound \in Nat
  /\ IsFiniteSet(Paths)

VARIABLES
  pic,        \* product_images.url, collections.image_url
  edit,       \* the statement of a transaction that has not committed
  upload,     \* a picture stored for the holder and not in its row yet
  inline,     \* what the route that removed the row deletes next
  bucket,     \* objects in the bucket
  aged,       \* objects older than GC_MIN_AGE_HOURS
  named,      \* names of objects used so far
  queue,      \* storage_gc_queue
  attempts,   \* storage_gc_queue.attempts
  sweep,      \* sweepStorage of each worker
  pass,       \* reconcileStorage of each worker
  sighting,   \* storage_orphan_sightings
  run,        \* job_runs: when the weekly pass is due
  mishaps     \* mishaps so far

rowVars    == <<pic, edit, upload, inline>>
objectVars == <<bucket, aged, named>>
queueVars  == <<queue, attempts>>
jobVars    == <<sweep, pass>>
passVars   == <<sighting, run>>
vars       == <<rowVars, objectVars, queueVars, jobVars, passVars, mishaps>>

-----------------------------------------------------------------------------
(* Types *)

MaybeUrl == Urls \cup {NoUrl}
Edits    == [open : BOOLEAN, to : MaybeUrl, queues : SUBSET Urls]
Sweeps   == [todo : SUBSET Urls, done : MaybeUrl, gone : BOOLEAN]
Stages   == {"none", "survey", "list", "record", "collect"}
Passes   == [at : Stages, apply : BOOLEAN, paths : SUBSET Paths,
             removed : SUBSET Paths]

NoEdit  == [open |-> FALSE, to |-> NoUrl, queues |-> {}]
NoSweep == [todo |-> {}, done |-> NoUrl, gone |-> FALSE]
NoPass  == [at |-> "none", apply |-> FALSE, paths |-> {}, removed |-> {}]

TypeOK ==
  /\ pic      \in [Holders -> MaybeUrl]
  /\ edit     \in [Holders -> Edits]
  /\ upload   \in [Holders -> MaybeUrl]
  /\ inline   \in [Holders -> MaybeUrl]
  /\ aged     \subseteq bucket
  /\ bucket   \subseteq named /\ named \subseteq Paths
  /\ queue    \subseteq Urls
  /\ attempts \in [Urls -> 0..GiveUp]
  /\ sweep    \in [Workers -> Sweeps]
  /\ pass     \in [Workers -> Passes]
  /\ sighting \in [Paths -> {"none", "fresh", "ripe"}]
  /\ run      \in {"unregistered", "waiting", "due"}
  /\ mishaps  \in 0..MishapBound

-----------------------------------------------------------------------------
(* What is in use *)

(* referenced_objects(): every URL a row shows.                            *)
References == {pic[h] : h \in Holders} \ {NoUrl}

Objects(urls) == {PathOf[u] : u \in urls \ {NoUrl}} \ {NoPath}

(* An idle worker has no batch and no pass.                                *)
Idle(w) == sweep[w] = NoSweep /\ pass[w] = NoPass

(* What the triggers queue when h goes over to new: its URL, unless it     *)
(* stays or a committed row of somebody else shows it.                     *)
LetGo(h, new) ==
  {pic[h]} \ ({NoUrl, new} \cup {pic[k] : k \in Holders \ {h}})

(* A job or a request has decided about the object u names, and not acted. *)
InHand(u) ==
  \/ \E h \in Holders : Objects({u}) \cap Objects({inline[h]}) # {}
  \/ \E w \in Workers :
       \/ u \in sweep[w].todo
       \/ pass[w].at = "list" /\ ~(Objects({u}) \subseteq pass[w].paths)
       \/ /\ pass[w].at \in {"record", "collect"}
          /\ Objects({u}) \cap pass[w].paths # {}

(* A URL of another host, or of an object that is in the bucket.           *)
Shows(u) == Objects({u}) \subseteq bucket

-----------------------------------------------------------------------------
Init ==
  /\ pic      = Opening
  /\ edit     = [h \in Holders |-> NoEdit]
  /\ upload   = [h \in Holders |-> NoUrl]
  /\ inline   = [h \in Holders |-> NoUrl]
  /\ bucket   = Objects(References)
  /\ aged     = bucket
  /\ named    = bucket
  /\ queue    = {}
  /\ attempts = [u \in Urls |-> 0]
  /\ sweep    = [w \in Workers |-> NoSweep]
  /\ pass     = [w \in Workers |-> NoPass]
  /\ sighting = [p \in Paths |-> "none"]
  /\ run      = "unregistered"
  /\ mishaps  = 0

(* uploadImage: the bytes go to a name nobody used before.                 *)
Upload(h, u) ==
  /\ upload[h] = NoUrl
  /\ ~edit[h].open
  /\ h \in Images => pic[h] = NoUrl /\ inline[h] = NoUrl
  /\ PathOf[u] \in Paths \ named
  /\ upload' = [upload EXCEPT ![h] = u]
  /\ bucket' = bucket \cup {PathOf[u]}
  /\ named'  = named \cup {PathOf[u]}
  /\ UNCHANGED <<queueVars, jobVars, passVars, mishaps, pic, edit, inline,
                 aged>>

(* The request dies, or its insert is refused, after the upload.           *)
UploadDies(h) ==
  /\ upload[h] # NoUrl
  /\ ~edit[h].open
  /\ upload' = [upload EXCEPT ![h] = NoUrl]
  /\ UNCHANGED <<objectVars, queueVars, jobVars, passVars, mishaps, pic,
                 edit, inline>>

(* A statement on h's row: insert, delete, or a new image_url; the URL of  *)
(* an image row never changes.  Its trigger decides what to queue now.     *)
Execute(h, new) ==
  /\ ~edit[h].open
  /\ inline[h] = NoUrl
  /\ new # pic[h]
  /\ h \in Images => NoUrl \in {new, pic[h]}
  /\ IF upload[h] # NoUrl THEN new = upload[h]
     ELSE \/ new = NoUrl
          \/ /\ new \in Pasted \ {upload[k] : k \in Holders}
             /\ Shows(new)
  /\ edit' = [edit EXCEPT ![h] =
                [open |-> TRUE, to |-> new, queues |-> LetGo(h, new)]]
  /\ UNCHANGED <<objectVars, queueVars, jobVars, passVars, mishaps, pic,
                 upload, inline>>

(* The transaction commits.                                                *)
Committed(h) ==
  /\ edit[h].open
  /\ pic'    = [pic EXCEPT ![h] = edit[h].to]
  /\ edit'   = [edit EXCEPT ![h] = NoEdit]
  /\ upload' = [upload EXCEPT ![h] = NoUrl]
  /\ queue'  = queue \cup edit[h].queues
  /\ UNCHANGED <<objectVars, jobVars, passVars, mishaps, attempts>>

Commit(h) ==
  /\ Committed(h)
  /\ \/ edit[h].to \in {NoUrl, upload[h]}
     \/ PasteAnytime \/ (Shows(edit[h].to) /\ ~InHand(edit[h].to))
  /\ UNCHANGED inline

(* DELETE /admin/images/{id}: the row first, the object after it.          *)
CommitRoute(h) ==
  /\ Committed(h)
  /\ h \in Images
  /\ edit[h].to = NoUrl
  /\ RouteShared \/ pic[h] \notin {pic[k] : k \in Holders \ {h}}
  /\ inline' = [inline EXCEPT ![h] = pic[h]]

(* It is refused or its connection is lost; an object uploaded for it      *)
(* stays where it is.                                                      *)
Rollback(h) ==
  /\ edit[h].open
  /\ edit'   = [edit EXCEPT ![h] = NoEdit]
  /\ upload' = [upload EXCEPT ![h] = NoUrl]
  /\ UNCHANGED <<objectVars, queueVars, jobVars, passVars, mishaps, pic,
                 inline>>

(* The route deletes the object of the row it removed, or fails to, which  *)
(* it only logs.                                                           *)
DeleteInline(h) ==
  /\ inline[h] # NoUrl
  /\ \/ bucket' = bucket \ Objects({inline[h]})
     \/ bucket' = bucket
  /\ aged'   = aged \cap bucket'
  /\ inline' = [inline EXCEPT ![h] = NoUrl]
  /\ UNCHANGED <<queueVars, jobVars, passVars, mishaps, pic, edit, upload,
                 named>>

-----------------------------------------------------------------------------
(* The sweeper *)

(* (mutant of Cancelled: nothing is cancelled when claiming.)              *)
CancelledNone == {}

(* claim_storage_gc first drops what somebody shows again.                 *)
Cancelled == queue \cap References

(* (mutant of Claimable: p_give_up is not asked.)                          *)
ClaimableForever == queue \ Cancelled

Claimable == {u \in queue \ Cancelled : attempts[u] < GiveUp}

(* claim_storage_gc: a batch whose attempts are counted now.               *)
Claim(w) ==
  /\ Idle(w)
  /\ Cancelled \cup Claimable # {}
  /\ queue'    = queue \ Cancelled
  /\ attempts' = [u \in Urls |->
        IF u \in Cancelled THEN 0
        ELSE IF u \in Claimable THEN attempts[u] + 1 ELSE attempts[u]]
  /\ sweep'    = [sweep EXCEPT ![w].todo = Claimable]
  /\ UNCHANGED <<rowVars, objectVars, passVars, mishaps, pass>>

(* deleteObject for the next row: the object is gone, also when it was     *)
(* already; a URL of another host counts as gone.                          *)
DeleteNext(w, u) ==
  /\ sweep[w].done = NoUrl
  /\ u \in sweep[w].todo
  /\ bucket' = bucket \ {PathOf[u]}
  /\ aged'   = aged \cap bucket'
  /\ sweep'  = [sweep EXCEPT ![w] = [@ EXCEPT !.done = u, !.gone = TRUE]]
  /\ UNCHANGED <<rowVars, queueVars, passVars, mishaps, named, pass>>

(* The bucket refuses, or cannot be reached.                               *)
DeleteFails(w, u) ==
  /\ sweep[w].done = NoUrl
  /\ u \in sweep[w].todo
  /\ PathOf[u] # NoPath
  /\ mishaps < MishapBound
  /\ mishaps' = mishaps + 1
  /\ sweep'   = [sweep EXCEPT ![w].done = u]
  /\ UNCHANGED <<rowVars, objectVars, queueVars, passVars, pass>>

(* (mutant of Dropped: a row is settled whatever became of the object.)    *)
DroppedAlways(s) == {s.done}

(* settle_storage_gc drops the row only if the object is gone.             *)
Dropped(s) == IF s.gone THEN {s.done} ELSE {}

(* The rest of the batch.                                                  *)
Onward(s) == [NoSweep EXCEPT !.todo = s.todo \ {s.done}]

Settle(w) ==
  LET s == sweep[w]
  IN  /\ s.done # NoUrl
      /\ queue'    = queue \ Dropped(s)
      /\ attempts' = [u \in Urls |->
                        IF u \in Dropped(s) THEN 0 ELSE attempts[u]]
      /\ sweep'    = [sweep EXCEPT ![w] = Onward(s)]
      /\ UNCHANGED <<rowVars, objectVars, passVars, mishaps, pass>>

(* The call fails, which nobody notices: the row stays.                    *)
SettleFails(w) ==
  /\ sweep[w].done # NoUrl
  /\ mishaps < MishapBound
  /\ mishaps' = mishaps + 1
  /\ sweep'   = [sweep EXCEPT ![w] = Onward(@)]
  /\ UNCHANGED <<rowVars, objectVars, queueVars, passVars, pass>>

-----------------------------------------------------------------------------
(* The weekly pass *)

(* claim_job_run: the first call registers the job, a later one claims it  *)
(* when it is due, and only one does.                                      *)
ClaimRun(w) ==
  /\ Idle(w)
  /\ run # "waiting"
  /\ run'  = "waiting"
  /\ pass' = IF run = "unregistered" THEN pass
             ELSE [pass EXCEPT ![w] = [NoPass EXCEPT
                     !.at = "survey", !.apply = TRUE]]
  /\ UNCHANGED <<rowVars, objectVars, queueVars, mishaps, sweep, sighting>>

(* POST /admin/storage/gc: a pass at any time, which may only look.        *)
RunGc(w, apply) ==
  /\ Idle(w)
  /\ pass' = [pass EXCEPT ![w] = [NoPass EXCEPT
                !.at = "survey", !.apply = apply]]
  /\ UNCHANGED <<rowVars, objectVars, queueVars, passVars, mishaps, sweep>>

(* survey: what referenced_objects() returned.  Nothing at all ends the    *)
(* pass (rail 4).                                                          *)
Surveyed(w, urls) ==
  /\ pass[w].at = "survey"
  /\ pass' = [pass EXCEPT ![w] =
                IF urls = {} THEN NoPass
                ELSE [@ EXCEPT !.at = "list", !.paths = Objects(urls)]]

ReadReferences(w) ==
  /\ Surveyed(w, References)
  /\ UNCHANGED <<rowVars, objectVars, queueVars, passVars, mishaps, sweep>>

(* The query falls short: a migration under way, a revoked grant.  It      *)
(* misses nothing that looked orphaned to the pass before: for what came   *)
(* back since, that pass was the first bad one already.                    *)
MisreadReferences(w) ==
  /\ mishaps < MishapBound
  /\ \E urls \in SUBSET References :
       /\ \A p \in Objects(References \ urls) : sighting[p] = "none"
       /\ Surveyed(w, urls)
  /\ mishaps' = mishaps + 1
  /\ UNCHANGED <<rowVars, objectVars, queueVars, passVars, sweep>>

(* Old enough that no upload is waiting for its row (rail 2).              *)
Candidates == aged

(* listObjects, then the difference: candidates no row refers to.          *)
ListObjects(w) ==
  /\ pass[w].at = "list"
  /\ pass' = [pass EXCEPT ![w].at = "record",
                          ![w].paths = Candidates \ pass[w].paths]
  /\ UNCHANGED <<rowVars, objectVars, queueVars, passVars, mishaps, sweep>>

(* (mutant of Remembered: seeing an orphan again restarts its window.)     *)
RememberedAfresh(orphans) ==
  [p \in Paths |-> IF p \in orphans THEN "fresh" ELSE "none"]

(* record_orphan_sightings: forget what this pass did not see, keep the    *)
(* first sighting of what it did.                                          *)
Remembered(orphans) ==
  [p \in Paths |->
     IF p \notin orphans THEN "none"
     ELSE IF sighting[p] = "none" THEN "fresh" ELSE sighting[p]]

(* What has looked orphaned for the confirmation window (rail 1).          *)
Confirmed(seen) == {p \in Paths : seen[p] = "ripe"}

(* The pass goes on only if it may remove, has something to, and not too   *)
(* much (rail 3).                                                          *)
RecordSightings(w) ==
  LET seen  == Remembered(pass[w].paths)
      found == Confirmed(seen)
  IN  /\ pass[w].at = "record"
      /\ sighting' = seen
      /\ pass' = [pass EXCEPT ![w] =
           IF pass[w].apply /\ found # {} /\ Cardinality(found) <= MaxDelete
             THEN [@ EXCEPT !.at = "collect", !.paths = found]
             ELSE NoPass]
      /\ UNCHANGED <<rowVars, objectVars, queueVars, mishaps, sweep, run>>

(* deleteObject for one confirmed path.                                    *)
Collect(w, p) ==
  /\ pass[w].at = "collect"
  /\ p \in pass[w].paths
  /\ bucket' = bucket \ {p}
  /\ aged'   = aged \ {p}
  /\ pass'   = [pass EXCEPT ![w].paths   = pass[w].paths \ {p},
                            ![w].removed = pass[w].removed \cup {p}]
  /\ UNCHANGED <<rowVars, queueVars, passVars, mishaps, named, sweep>>

(* It fails; the sighting stays for the next pass.                         *)
CollectFails(w, p) ==
  /\ pass[w].at = "collect"
  /\ p \in pass[w].paths
  /\ mishaps < MishapBound
  /\ mishaps' = mishaps + 1
  /\ pass'    = [pass EXCEPT ![w].paths = @ \ {p}]
  /\ UNCHANGED <<rowVars, objectVars, queueVars, passVars, sweep>>

(* forget_orphan_sightings, with what really went.                         *)
ForgetSightings(w) ==
  /\ pass[w].at = "collect"
  /\ pass[w].paths = {}
  /\ sighting' = [p \in Paths |->
                    IF p \in pass[w].removed THEN "none" ELSE sighting[p]]
  /\ pass'     = [pass EXCEPT ![w] = NoPass]
  /\ UNCHANGED <<rowVars, objectVars, queueVars, mishaps, sweep, run>>

(* The process dies, or a call to the database or the bucket throws.       *)
Crash(w) ==
  /\ ~Idle(w)
  /\ mishaps < MishapBound
  /\ mishaps' = mishaps + 1
  /\ sweep'   = [sweep EXCEPT ![w] = NoSweep]
  /\ pass'    = [pass EXCEPT ![w] = NoPass]
  /\ UNCHANGED <<rowVars, objectVars, queueVars, passVars>>

-----------------------------------------------------------------------------
(* Time *)

(* GC_MIN_AGE_HOURS pass; an upload, and a pass that has read the          *)
(* references and not listed the bucket, are over long before.             *)
Age(p) ==
  /\ p \in bucket \ aged
  /\ \A w \in Workers : pass[w].at # "list"
  /\ \A h \in Holders : upload[h] # NoUrl => PathOf[upload[h]] # p
  /\ aged' = aged \cup {p}
  /\ UNCHANGED <<rowVars, queueVars, jobVars, passVars, mishaps, bucket,
                 named>>

(* GC_CONFIRM_DAYS pass since the first sighting; a pass that has read the *)
(* references and not recorded its sightings is over long before.          *)
Ripen(p) ==
  /\ sighting[p] = "fresh"
  /\ \A w \in Workers : pass[w].at \notin {"list", "record"}
  /\ sighting' = [sighting EXCEPT ![p] = "ripe"]
  /\ UNCHANGED <<rowVars, objectVars, queueVars, jobVars, mishaps, run>>

(* RECONCILE_EVERY passes since the last claim.                            *)
WeekPasses ==
  /\ run = "waiting"
  /\ run' = "due"
  /\ UNCHANGED <<rowVars, objectVars, queueVars, jobVars, mishaps,
                 sighting>>

-----------------------------------------------------------------------------
StaffStep(h) ==
  \/ \E u \in Urls : Upload(h, u)
  \/ UploadDies(h)
  \/ \E new \in MaybeUrl : Execute(h, new)
  \/ Commit(h)
  \/ CommitRoute(h)
  \/ Rollback(h)
  \/ DeleteInline(h)

SweepStep(w) ==
  \/ Claim(w)
  \/ \E u \in Urls : DeleteNext(w, u) \/ DeleteFails(w, u)
  \/ Settle(w)
  \/ SettleFails(w)

PassStep(w) ==
  \/ ClaimRun(w)
  \/ \E apply \in BOOLEAN : RunGc(w, apply)
  \/ ReadReferences(w)
  \/ MisreadReferences(w)
  \/ ListObjects(w)
  \/ RecordSightings(w)
  \/ \E p \in Paths : Collect(w, p) \/ CollectFails(w, p)
  \/ ForgetSightings(w)

Clock ==
  \/ \E p \in Paths : Age(p) \/ Ripen(p)
  \/ WeekPasses

Next ==
  \/ \E h \in Holders : StaffStep(h)
  \/ \E w \in Workers : SweepStep(w) \/ PassStep(w) \/ Crash(w)
  \/ Clock

Spec == Init /\ [][Next]_vars

(* What a job does once it has claimed something.                          *)
Proceed(w) ==
  \/ \E u \in Urls : DeleteNext(w, u)
  \/ Settle(w)
  \/ ReadReferences(w)
  \/ ListObjects(w)
  \/ RecordSightings(w)
  \/ \E p \in Paths : Collect(w, p)
  \/ ForgetSightings(w)

(* A tick runs both jobs to their end and the next one follows; what a     *)
(* tick skips because another is still busy it finds again later.  Staff   *)
(* owe nothing; time passes.                                               *)
Fairness ==
  /\ \A w \in Workers :
       SF_vars(Claim(w)) /\ SF_vars(ClaimRun(w)) /\ WF_vars(Proceed(w))
  /\ SF_vars(\E p \in Paths : Age(p))
  /\ \A p \in Paths : SF_vars(Ripen(p))
  /\ WF_vars(WeekPasses)

FairSpec == Spec /\ Fairness

-----------------------------------------------------------------------------
(* Properties *)

(* No row shows an object that is gone: neither the sweeper, whose queue   *)
(* may hold what a row shows again, nor the weekly pass, though one of its *)
(* readings fell short, nor the route deletes what is in use.              *)
NoBrokenImage == \A u \in References : Shows(u)

(* A URL leaves the queue only once its object is gone, or was never ours, *)
(* or somebody shows it: the queue does not empty itself on failure.       *)
QueueForgetsNothing ==
  [][\A u \in queue \ queue' :
       PathOf[u] \notin bucket' \/ u \in References]_vars

Orphan(p) ==
  /\ p \in bucket \ Objects(References)
  /\ \A h \in Holders :
       p \notin Objects({upload[h], edit[h].to})

(* An object nobody shows any more, or nobody ever recorded, is collected  *)
(* in the end, whatever crashed on the way: two removals that each saw the *)
(* other's row leave it out of the queue, and the weekly pass finds it.    *)
(* Only a store that shows no picture at all keeps its orphans (rail 4).   *)
OrphansLeave ==
  \A p \in Paths : Orphan(p) ~> (~Orphan(p) \/ References = {})

=============================================================================
