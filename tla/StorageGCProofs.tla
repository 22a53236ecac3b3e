--------------------------- MODULE StorageGCProofs ---------------------------
(***************************************************************************)
(* Theorems about StorageGC: types and the queue for all constants; that   *)
(* no picture in use is deleted, where staff paste no URL a job has in     *)
(* hand (~PasteAnytime), the image route removes no picture that others    *)
(* show (~RouteShared), and an object has one URL (OneUrl).                *)
(***************************************************************************)
EXTENDS StorageGC, TLAPS

(* The trigger, the claim and the sweeper compare URLs, not objects: under *)
(* a second public address of the bucket an object has two, and letting go *)
(* of one deletes what the other shows.                                    *)
OneUrl ==
  \A u, v \in Urls : PathOf[u] = PathOf[v] => u = v \/ PathOf[u] = NoPath

CarefulStaff == ~PasteAnytime /\ ~RouteShared

-----------------------------------------------------------------------------
(* The inductive invariant *)

(* Every name in use anywhere was given out before, so that the next       *)
(* upload shares its object with nothing.                                  *)
Known(u) == Objects({u}) \subseteq named

NamesUsed ==
  /\ \A h \in Holders :
       /\ Known(pic[h]) /\ Known(upload[h]) /\ Known(inline[h])
       /\ Known(edit[h].to)
       /\ \A u \in edit[h].queues : Known(u)
  /\ \A u \in queue : Known(u)
  /\ \A w \in Workers :
       /\ \A u \in sweep[w].todo : Known(u)
       /\ Known(sweep[w].done)
       /\ pass[w].paths \subseteq named

(* What the sweeper is about to settle as gone is gone.                    *)
GoneIsGone ==
  \A w \in Workers : sweep[w].gone =>
    sweep[w].done # NoUrl /\ \A p \in Objects({sweep[w].done}) : p \notin bucket

(* A picture stored and not in its row yet is young, and nobody else knows *)
(* its URL.                                                                *)
Apart(h, u) ==
  /\ PathOf[u] \in bucket \ aged
  /\ u \notin queue
  /\ \A k \in Holders :
       /\ u # pic[k] /\ u # inline[k] /\ u \notin edit[k].queues
       /\ k # h => u # upload[k] /\ u # edit[k].to
  /\ \A w \in Workers :
       /\ u \notin sweep[w].todo
       /\ pass[w].at \in {"record", "collect"} =>
            PathOf[u] \notin pass[w].paths

UploadsApart ==
  \A h \in Holders : upload[h] # NoUrl => Apart(h, upload[h])

(* w does not delete the object of u, at no stage of its batch or pass.    *)
(* Between the reading and the removal this rests on the sighting: what a  *)
(* reading missed had not looked orphaned before, so it is not ripe.       *)
Spared(u, w) ==
  /\ u \notin sweep[w].todo
  /\ \A p \in Objects({u}) :
       /\ pass[w].at = "list" =>
            p \in pass[w].paths \/ p \notin aged \/ sighting[p] # "ripe"
       /\ pass[w].at = "record" =>
            p \notin pass[w].paths \/ sighting[p] # "ripe"
       /\ pass[w].at = "collect" => p \notin pass[w].paths

Safe(u) ==
  /\ Shows(u)
  /\ \A h \in Holders : Objects({inline[h]}) \cap Objects({u}) = {}
  /\ \A w \in Workers : Spared(u, w)

UsedIsSafe == \A u \in References : Safe(u)

IInv == TypeOK /\ NamesUsed /\ UploadsApart /\ UsedIsSafe

-----------------------------------------------------------------------------
(* Constants and objects *)

LEMMA Constants ==
  /\ Images \subseteq Holders /\ Collections \subseteq Holders
  /\ NoUrl \notin Urls /\ NoPath \notin Paths
  /\ PathOf \in [Urls -> Paths \cup {NoPath}]
  /\ Opening \in [Holders -> MaybeUrl]
  /\ Pasted \subseteq Urls
  /\ GiveUp \in Nat /\ GiveUp # 0 /\ MaxDelete \in Nat /\ MishapBound \in Nat
BY StorageAssumption DEF Holders, MaybeUrl

(* The object of a URL: none, or the one PathOf names.                     *)
LEMMA ObjectsOf ==
  ASSUME NEW u
  PROVE  \A p : p \in Objects({u}) <=> u # NoUrl /\ p = PathOf[u] /\ p # NoPath
BY DEF Objects

LEMMA ObjectsOfAll ==
  ASSUME NEW urls
  PROVE  \A p : p \in Objects(urls) <=>
                  \E u \in urls : u # NoUrl /\ p = PathOf[u] /\ p # NoPath
BY DEF Objects

LEMMA ObjectsArePaths ==
  ASSUME NEW urls, urls \subseteq MaybeUrl
  PROVE  Objects(urls) \subseteq Paths
BY Constants, ObjectsOfAll DEF MaybeUrl

LEMMA ReferencesAreUrls ==
  ASSUME TypeOK
  PROVE  References \subseteq Urls
BY DEF TypeOK, References, MaybeUrl

-----------------------------------------------------------------------------
(* Types *)

LEMMA TypesInit == Init => TypeOK
<1> SUFFICES ASSUME Init PROVE TypeOK
  OBVIOUS
<1>1. bucket \subseteq Paths
  BY Constants, ObjectsArePaths DEF Init, References
<1>2. NoEdit \in Edits /\ NoSweep \in Sweeps /\ NoPass \in Passes
  BY DEF NoEdit, NoSweep, NoPass, Edits, Sweeps, Passes, Stages, MaybeUrl
<1>3. NoUrl \in MaybeUrl
  BY DEF MaybeUrl
<1>4. mishaps \in 0..MishapBound /\ attempts \in [Urls -> 0..GiveUp]
  BY Constants DEF Init
<1> QED
  BY <1>1, <1>2, <1>3, <1>4, Constants DEF Init, TypeOK

LEMMA StaffTypes ==
  ASSUME TypeOK, NEW h \in Holders, StaffStep(h)
  PROVE  TypeOK'
<1>1. ASSUME NEW u \in Urls, Upload(h, u) PROVE TypeOK'
  BY <1>1 DEF TypeOK, Upload, queueVars, jobVars, passVars, MaybeUrl
<1>2. CASE UploadDies(h)
  BY <1>2 DEF TypeOK, UploadDies, objectVars, queueVars, jobVars, passVars,
     MaybeUrl
<1>3. ASSUME NEW new \in MaybeUrl, Execute(h, new) PROVE TypeOK'
  <2> DEFINE stmt == [open |-> TRUE, to |-> new, queues |-> LetGo(h, new)]
  <2>1. LetGo(h, new) \subseteq Urls
    BY DEF LetGo, TypeOK, MaybeUrl
  <2>2. stmt \in Edits
    BY <2>1 DEF Edits
  <2>3. edit' = [edit EXCEPT ![h] = stmt]
    BY <1>3 DEF Execute
  <2> HIDE DEF stmt
  <2>4. edit' \in [Holders -> Edits]
    BY <2>2, <2>3 DEF TypeOK
  <2> QED
    BY <1>3, <2>4 DEF TypeOK, Execute, objectVars, queueVars, jobVars, passVars
<1>4. CASE Commit(h) \/ CommitRoute(h)
  <2>1. edit[h] \in Edits /\ pic[h] \in MaybeUrl
    BY DEF TypeOK
  <2>2. edit[h].to \in MaybeUrl /\ edit[h].queues \subseteq Urls
    BY <2>1 DEF Edits
  <2>3. NoEdit \in Edits /\ NoUrl \in MaybeUrl
    BY DEF NoEdit, Edits, MaybeUrl
  <2>4. Committed(h)
    BY <1>4 DEF Commit, CommitRoute
  <2>5. pic' \in [Holders -> MaybeUrl] /\ edit' \in [Holders -> Edits]
    BY <2>2, <2>3, <2>4 DEF TypeOK, Committed
  <2>6. upload' \in [Holders -> MaybeUrl] /\ queue' \subseteq Urls
    BY <2>2, <2>3, <2>4 DEF TypeOK, Committed
  <2>7. inline' \in [Holders -> MaybeUrl]
    BY <1>4, <2>1 DEF TypeOK, Commit, CommitRoute
  <2> QED
    BY <2>4, <2>5, <2>6, <2>7
       DEF TypeOK, Committed, objectVars, jobVars, passVars
<1>5. CASE Rollback(h)
  <2>1. NoEdit \in Edits /\ NoUrl \in MaybeUrl
    BY DEF NoEdit, Edits, MaybeUrl
  <2> QED
    BY <1>5, <2>1 DEF TypeOK, Rollback, objectVars, queueVars, jobVars, passVars
<1>6. CASE DeleteInline(h)
  <2>1. NoUrl \in MaybeUrl
    BY DEF MaybeUrl
  <2> QED
    BY <1>6, <2>1 DEF TypeOK, DeleteInline, queueVars, jobVars, passVars
<1> QED
  BY <1>1, <1>2, <1>3, <1>4, <1>5, <1>6 DEF StaffStep

(* A worker goes on with another batch, or another stage of its pass.      *)
LEMMA SweepTypes ==
  ASSUME TypeOK, NEW w \in Workers, SweepStep(w)
  PROVE  TypeOK'
<1>1. sweep[w] \in Sweeps
  BY DEF TypeOK
<1>2. /\ sweep[w].todo \subseteq Urls /\ sweep[w].done \in MaybeUrl
      /\ sweep[w].gone \in BOOLEAN
  BY <1>1 DEF Sweeps
<1>3. ASSUME NEW u \in Urls
      PROVE  /\ [sweep[w] EXCEPT !.done = u] \in Sweeps
             /\ [[sweep[w] EXCEPT !.done = u] EXCEPT !.gone = TRUE] \in Sweeps
             /\ [sweep[w] EXCEPT !.done = u, !.gone = TRUE] \in Sweeps
  BY <1>1 DEF Sweeps, MaybeUrl
<1>4. Onward(sweep[w]) \in Sweeps
  BY <1>2 DEF Onward, NoSweep, Sweeps, MaybeUrl
<1>5. CASE Claim(w)
  <2>1. Claimable \subseteq Urls
    BY DEF Claimable, TypeOK
  <2>2. [sweep[w] EXCEPT !.todo = Claimable] \in Sweeps
    BY <1>1, <2>1 DEF Sweeps
  <2>3. sweep' = [sweep EXCEPT ![w] = [sweep[w] EXCEPT !.todo = Claimable]]
    BY <1>5 DEF Claim, TypeOK
  <2>4. sweep' \in [Workers -> Sweeps]
    BY <2>2, <2>3 DEF TypeOK
  <2>5. queue' \subseteq Urls
    BY <1>5 DEF Claim, TypeOK
  <2>6. \A u \in Urls : u \in Claimable => attempts[u] + 1 \in 0..GiveUp
    BY Constants DEF Claimable, TypeOK
  <2>7. attempts' \in [Urls -> 0..GiveUp]
    BY <1>5, <2>6, Constants DEF Claim, TypeOK
  <2> QED
    BY <1>5, <2>4, <2>5, <2>7
       DEF TypeOK, Claim, rowVars, objectVars, passVars
<1>6. ASSUME NEW u \in Urls, DeleteNext(w, u) PROVE TypeOK'
  BY <1>3, <1>6 DEF TypeOK, DeleteNext, rowVars, queueVars, passVars
<1>7. ASSUME NEW u \in Urls, DeleteFails(w, u) PROVE TypeOK'
  <2>1. sweep' = [sweep EXCEPT ![w] = [sweep[w] EXCEPT !.done = u]]
    BY <1>7 DEF DeleteFails, TypeOK
  <2>2. mishaps' \in 0..MishapBound
    BY <1>7, Constants DEF DeleteFails, TypeOK
  <2> QED
    BY <1>3, <1>7, <2>1, <2>2
       DEF TypeOK, DeleteFails, rowVars, objectVars, queueVars, passVars
<1>8. CASE Settle(w)
  <2>1. queue' \subseteq Urls /\ sweep' \in [Workers -> Sweeps]
    BY <1>4, <1>8 DEF Settle, TypeOK
  <2>2. attempts' \in [Urls -> 0..GiveUp]
    BY <1>8, Constants DEF Settle, TypeOK
  <2> QED
    BY <1>8, <2>1, <2>2 DEF TypeOK, Settle, rowVars, objectVars, passVars
<1>9. CASE SettleFails(w)
  <2>1. sweep' \in [Workers -> Sweeps]
    BY <1>4, <1>9 DEF SettleFails, TypeOK
  <2>2. mishaps' \in 0..MishapBound
    BY <1>9, Constants DEF SettleFails, TypeOK
  <2> QED
    BY <1>9, <2>1, <2>2
       DEF TypeOK, SettleFails, rowVars, objectVars, queueVars, passVars
<1> QED
  BY <1>5, <1>6, <1>7, <1>8, <1>9 DEF SweepStep

LEMMA PassTypes ==
  ASSUME TypeOK, NEW w \in Workers, PassStep(w)
  PROVE  TypeOK'
<1>1. pass[w] \in Passes
  BY DEF TypeOK
<1>2. /\ pass[w].at \in Stages /\ pass[w].apply \in BOOLEAN
      /\ pass[w].paths \subseteq Paths /\ pass[w].removed \subseteq Paths
  BY <1>1 DEF Passes
<1>3. NoPass \in Passes
  BY DEF NoPass, Passes, Stages
<1>4. ASSUME NEW apply \in BOOLEAN
      PROVE  [NoPass EXCEPT !.at = "survey", !.apply = apply] \in Passes
  BY DEF NoPass, Passes, Stages
<1>5. ASSUME NEW at \in Stages, NEW paths \in SUBSET Paths
      PROVE  [pass[w] EXCEPT !.at = at, !.paths = paths] \in Passes
  BY <1>1 DEF Passes
<1>6. {"survey", "list", "record", "collect"} \subseteq Stages
  BY DEF Stages
<1>7. ASSUME NEW urls, urls \subseteq References, Surveyed(w, urls)
      PROVE  pass' \in [Workers -> Passes]
  <2>1. Objects(urls) \subseteq Paths
    BY <1>7, ReferencesAreUrls, ObjectsArePaths DEF MaybeUrl
  <2>2. [pass[w] EXCEPT !.at = "list", !.paths = Objects(urls)] \in Passes
    BY <1>5, <1>6, <2>1
  <2> QED
    BY <1>3, <1>7, <2>2 DEF Surveyed, TypeOK
<1>8. CASE ClaimRun(w)
  <2>1. pass' \in [Workers -> Passes]
    BY <1>4, <1>8 DEF ClaimRun, TypeOK
  <2> QED
    BY <1>8, <2>1 DEF TypeOK, ClaimRun, rowVars, objectVars, queueVars
<1>9. ASSUME NEW apply \in BOOLEAN, RunGc(w, apply) PROVE TypeOK'
  <2>1. pass' \in [Workers -> Passes]
    BY <1>4, <1>9 DEF RunGc, TypeOK
  <2> QED
    BY <1>9, <2>1 DEF TypeOK, RunGc, rowVars, objectVars, queueVars, passVars
<1>10. CASE ReadReferences(w)
  <2>1. pass' \in [Workers -> Passes]
    BY <1>7, <1>10 DEF ReadReferences
  <2> QED
    BY <1>10, <2>1
       DEF TypeOK, ReadReferences, rowVars, objectVars, queueVars, passVars
<1>11. CASE MisreadReferences(w)
  <2>1. pass' \in [Workers -> Passes]
    BY <1>7, <1>11 DEF MisreadReferences
  <2>2. mishaps' \in 0..MishapBound
    BY <1>11, Constants DEF MisreadReferences, TypeOK
  <2> QED
    BY <1>11, <2>1, <2>2
       DEF TypeOK, MisreadReferences, rowVars, objectVars, queueVars, passVars
<1>12. CASE ListObjects(w)
  <2>1. Candidates \ pass[w].paths \in SUBSET Paths
    BY DEF Candidates, TypeOK
  <2>2. [pass[w] EXCEPT !.at = "record", !.paths = Candidates \ pass[w].paths]
          \in Passes
    BY <1>5, <1>6, <2>1
  <2>3. pass' \in [Workers -> Passes]
    BY <1>1, <1>12, <2>2 DEF ListObjects, TypeOK, Passes
  <2> QED
    BY <1>12, <2>3
       DEF TypeOK, ListObjects, rowVars, objectVars, queueVars, passVars
<1>13. CASE RecordSightings(w)
  <2> DEFINE seen  == Remembered(pass[w].paths)
             found == Confirmed(seen)
  <2>1. seen \in [Paths -> {"none", "fresh", "ripe"}]
    BY DEF Remembered, TypeOK
  <2>2. found \in SUBSET Paths
    BY DEF Confirmed
  <2>3. [pass[w] EXCEPT !.at = "collect", !.paths = found] \in Passes
    BY <1>5, <1>6, <2>2
  <2>4. sighting' = seen
    BY <1>13 DEF RecordSightings
  <2> HIDE DEF seen
  <2>5. \/ pass' = [pass EXCEPT ![w] =
                      [pass[w] EXCEPT !.at = "collect", !.paths = found]]
        \/ pass' = [pass EXCEPT ![w] = NoPass]
    BY <1>13 DEF RecordSightings, TypeOK, seen
  <2>6. pass' \in [Workers -> Passes]
    BY <1>3, <2>3, <2>5 DEF TypeOK
  <2> QED
    BY <1>13, <2>1, <2>4, <2>6
       DEF TypeOK, RecordSightings, rowVars, objectVars, queueVars
<1>14. ASSUME NEW p \in Paths, Collect(w, p) PROVE TypeOK'
  <2> DEFINE next == [[pass[w] EXCEPT !.paths = pass[w].paths \ {p}]
                        EXCEPT !.removed = pass[w].removed \cup {p}]
  <2>1. next \in Passes
    BY <1>1, <1>2 DEF Passes
  <2>2. pass' = [pass EXCEPT ![w] = next]
    BY <1>1, <1>14 DEF Collect, TypeOK, Passes
  <2>3. pass' \in [Workers -> Passes]
    BY <2>1, <2>2 DEF TypeOK
  <2> QED
    BY <1>14, <2>3 DEF TypeOK, Collect, rowVars, queueVars, passVars
<1>15. ASSUME NEW p \in Paths, CollectFails(w, p) PROVE TypeOK'
  <2>1. [pass[w] EXCEPT !.paths = pass[w].paths \ {p}] \in Passes
    BY <1>1, <1>2 DEF Passes
  <2>2. pass' \in [Workers -> Passes]
    BY <1>1, <1>15, <2>1 DEF CollectFails, TypeOK, Passes
  <2>3. mishaps' \in 0..MishapBound
    BY <1>15, Constants DEF CollectFails, TypeOK
  <2> QED
    BY <1>15, <2>2, <2>3
       DEF TypeOK, CollectFails, rowVars, objectVars, queueVars, passVars
<1>16. CASE ForgetSightings(w)
  <2>1. pass' \in [Workers -> Passes]
    BY <1>3, <1>16 DEF ForgetSightings, TypeOK
  <2>2. sighting' \in [Paths -> {"none", "fresh", "ripe"}]
    BY <1>16 DEF ForgetSightings, TypeOK
  <2> QED
    BY <1>16, <2>1, <2>2
       DEF TypeOK, ForgetSightings, rowVars, objectVars, queueVars
<1> QED
  BY <1>8, <1>9, <1>10, <1>11, <1>12, <1>13, <1>14, <1>15, <1>16 DEF PassStep

LEMMA TypesNext == TypeOK /\ [Next]_vars => TypeOK'
<1> SUFFICES ASSUME TypeOK, [Next]_vars PROVE TypeOK'
  OBVIOUS
<1>1. ASSUME NEW w \in Workers, Crash(w) PROVE TypeOK'
  <2>1. NoSweep \in Sweeps /\ NoPass \in Passes
    BY DEF NoSweep, NoPass, Sweeps, Passes, Stages, MaybeUrl
  <2>2. sweep' \in [Workers -> Sweeps] /\ pass' \in [Workers -> Passes]
    BY <1>1, <2>1 DEF Crash, TypeOK
  <2>3. mishaps' \in 0..MishapBound
    BY <1>1, Constants DEF Crash, TypeOK
  <2> QED
    BY <1>1, <2>2, <2>3
       DEF TypeOK, Crash, rowVars, objectVars, queueVars, passVars
<1>2. ASSUME NEW p \in Paths, Age(p) PROVE TypeOK'
  BY <1>2 DEF TypeOK, Age, rowVars, queueVars, jobVars, passVars
<1>3. ASSUME NEW p \in Paths, Ripen(p) PROVE TypeOK'
  BY <1>3 DEF TypeOK, Ripen, rowVars, objectVars, queueVars, jobVars
<1>4. CASE WeekPasses
  BY <1>4 DEF TypeOK, WeekPasses, rowVars, objectVars, queueVars, jobVars
<1>5. CASE UNCHANGED vars
  BY <1>5 DEF TypeOK, vars, rowVars, objectVars, queueVars, jobVars, passVars
<1> QED
  BY <1>1, <1>2, <1>3, <1>4, <1>5, StaffTypes, SweepTypes, PassTypes
     DEF Next, Clock

-----------------------------------------------------------------------------
(* Names *)

LEMMA NamesInit == Init => NamesUsed
<1> SUFFICES ASSUME Init PROVE NamesUsed
  OBVIOUS
<1>1. Known(NoUrl)
  BY ObjectsOf DEF Known
<1>2. ASSUME NEW h \in Holders PROVE Known(pic[h])
  BY ObjectsOf, ObjectsOfAll DEF Init, Known, References
<1> QED
  BY <1>1, <1>2 DEF Init, NamesUsed, NoEdit, NoSweep, NoPass

(* A name once used stays used.                                            *)
LEMMA KnownStays ==
  ASSUME Next
  PROVE  named \subseteq named' /\ \A u : Known(u) => Known(u)'
<1>1. named \subseteq named'
  BY DEF Next, StaffStep, SweepStep, PassStep, Clock, Upload, UploadDies,
     Execute, Commit, CommitRoute, Committed, Rollback, DeleteInline, Claim,
     DeleteNext, DeleteFails, Settle, SettleFails, ClaimRun, RunGc,
     ReadReferences, MisreadReferences, ListObjects, RecordSightings, Collect,
     CollectFails, ForgetSightings, Crash, Age, Ripen, WeekPasses, objectVars
<1> QED
  BY <1>1 DEF Known

(* What a reading of the references names.                                 *)
LEMMA ReferencesKnown ==
  ASSUME NamesUsed, NEW urls, urls \subseteq References
  PROVE  Objects(urls) \subseteq named
<1>1. \A h \in Holders : Known(pic[h])
  BY DEF NamesUsed
<1>2. SUFFICES ASSUME NEW p \in Objects(urls) PROVE p \in named
  OBVIOUS
<1>3. PICK u \in urls : u # NoUrl /\ p = PathOf[u] /\ p # NoPath
  BY <1>2, ObjectsOfAll
<1>4. PICK h \in Holders : u = pic[h]
  BY <1>3 DEF References
<1>5. p \in Objects({pic[h]})
  BY <1>3, <1>4, ObjectsOf
<1> QED
  BY <1>1, <1>5 DEF Known

LEMMA NamesStaff ==
  ASSUME TypeOK, NamesUsed, Next, NEW h \in Holders, StaffStep(h)
  PROVE  NamesUsed'
<1>1. \A u : Known(u) => Known(u)'
  BY KnownStays
<1>2. named \subseteq named'
  BY KnownStays
<1>3. Known(NoUrl)
  BY ObjectsOf DEF Known
<1>4. ASSUME NEW u \in Urls, Upload(h, u) PROVE NamesUsed'
  <2>1. Known(u)'
    BY <1>4, ObjectsOf DEF Upload, Known
  <2> QED
    BY <1>1, <1>2, <1>4, <2>1
       DEF TypeOK, NamesUsed, Upload, queueVars, jobVars, passVars
<1>5. CASE UploadDies(h)
  BY <1>1, <1>2, <1>3, <1>5
     DEF TypeOK, NamesUsed, UploadDies, objectVars, queueVars, jobVars
<1>6. ASSUME NEW new \in MaybeUrl, Execute(h, new) PROVE NamesUsed'
  <2>1. Known(new)
    <3>1. new \in {NoUrl, upload[h]} \/ Shows(new)
      BY <1>6 DEF Execute
    <3> QED
      BY <1>3, <3>1 DEF Known, NamesUsed, Shows, TypeOK
  <2>2. \A u \in LetGo(h, new) : Known(u)
    BY DEF LetGo, NamesUsed
  <2>3. /\ \A k \in Holders : Known(edit'[k].to)
        /\ \A k \in Holders : \A u \in edit'[k].queues : Known(u)
    BY <1>6, <2>1, <2>2 DEF Execute, NamesUsed, TypeOK
  <2> QED
    BY <1>1, <1>2, <1>6, <2>3
       DEF NamesUsed, Execute, objectVars, queueVars, jobVars
<1>7. CASE Commit(h) \/ CommitRoute(h)
  <2>1. Committed(h)
    BY <1>7 DEF Commit, CommitRoute
  <2>2. \A k \in Holders : Known(pic'[k]) /\ Known(upload'[k])
    BY <1>3, <2>1 DEF Committed, NamesUsed, TypeOK
  <2>3. /\ \A k \in Holders : Known(edit'[k].to)
        /\ \A k \in Holders : \A u \in edit'[k].queues : Known(u)
    BY <1>3, <2>1 DEF Committed, NamesUsed, TypeOK, NoEdit
  <2>4. \A k \in Holders : Known(inline'[k])
    BY <1>7 DEF Commit, CommitRoute, NamesUsed, TypeOK
  <2>5. \A u \in queue' : Known(u)
    BY <2>1 DEF Committed, NamesUsed
  <2> QED
    BY <1>1, <1>2, <2>1, <2>2, <2>3, <2>4, <2>5
       DEF NamesUsed, Committed, objectVars, jobVars
<1>8. CASE Rollback(h)
  BY <1>1, <1>2, <1>3, <1>8
     DEF TypeOK, NamesUsed, Rollback, NoEdit, objectVars, queueVars, jobVars
<1>9. CASE DeleteInline(h)
  BY <1>1, <1>2, <1>3, <1>9
     DEF TypeOK, NamesUsed, DeleteInline, queueVars, jobVars
<1> QED
  BY <1>4, <1>5, <1>6, <1>7, <1>8, <1>9 DEF StaffStep

LEMMA NamesJobs ==
  ASSUME TypeOK, NamesUsed, Next, NEW w \in Workers,
         SweepStep(w) \/ PassStep(w) \/ Crash(w)
  PROVE  NamesUsed'
<1>1. \A u : Known(u) => Known(u)'
  BY KnownStays
<1>2. named \subseteq named'
  BY KnownStays
<1>3. Known(NoUrl)
  BY ObjectsOf DEF Known
<1>4. UNCHANGED rowVars /\ queue' \subseteq queue
  BY DEF SweepStep, PassStep, Crash, Claim, DeleteNext, DeleteFails, Settle,
     SettleFails, ClaimRun, RunGc, ReadReferences, MisreadReferences,
     ListObjects, RecordSightings, Collect, CollectFails, ForgetSightings,
     queueVars
<1>5. \A k \in Workers : \A u \in sweep'[k].todo \cup {sweep'[k].done} : Known(u)
  <2>1. sweep[w] \in Sweeps
    BY DEF TypeOK
  <2>2. ASSUME NEW u \in Urls, DeleteNext(w, u) \/ DeleteFails(w, u)
        PROVE  /\ sweep'[w].todo = sweep[w].todo /\ sweep'[w].done = u
               /\ u \in sweep[w].todo
    <3>1. CASE DeleteNext(w, u)
      BY <2>1, <3>1 DEF DeleteNext, TypeOK, Sweeps
    <3>2. CASE DeleteFails(w, u)
      BY <2>1, <3>2 DEF DeleteFails, TypeOK, Sweeps
    <3> QED
      BY <2>2, <3>1, <3>2
  <2>3. CASE Settle(w) \/ SettleFails(w)
    <3>1. sweep'[w] = Onward(sweep[w])
      BY <2>3 DEF Settle, SettleFails, TypeOK
    <3>2. sweep'[w].todo \subseteq sweep[w].todo /\ sweep'[w].done = NoUrl
      BY <3>1 DEF Onward, NoSweep
    <3>3. \A k \in Workers \ {w} : sweep'[k] = sweep[k]
      BY <2>3 DEF Settle, SettleFails, TypeOK
    <3> QED
      BY <1>3, <3>2, <3>3 DEF NamesUsed
  <2>4. CASE \E u \in Urls : DeleteNext(w, u) \/ DeleteFails(w, u)
    <3>1. \A k \in Workers \ {w} : sweep'[k] = sweep[k]
      BY <2>4 DEF DeleteNext, DeleteFails, TypeOK
    <3> QED
      BY <2>2, <2>4, <3>1 DEF NamesUsed
  <2>5. CASE Claim(w)
    <3>1. \A k \in Workers \ {w} : sweep'[k] = sweep[k]
      BY <2>5 DEF Claim, TypeOK
    <3>2. sweep'[w].todo = Claimable /\ sweep'[w].done = sweep[w].done
      BY <2>1, <2>5 DEF Claim, TypeOK, Sweeps
    <3> QED
      BY <3>1, <3>2 DEF NamesUsed, Claimable
  <2>6. CASE Crash(w)
    BY <1>3, <2>6 DEF Crash, NamesUsed, TypeOK, NoSweep
  <2>7. CASE PassStep(w)
    BY <2>7 DEF PassStep, ClaimRun, RunGc, ReadReferences, MisreadReferences,
       ListObjects, RecordSightings, Collect, CollectFails, ForgetSightings,
       NamesUsed
  <2> QED
    BY <2>3, <2>4, <2>5, <2>6, <2>7 DEF SweepStep
<1>6. \A k \in Workers : pass'[k].paths \subseteq named
  <2>1. pass[w] \in Passes
    BY DEF TypeOK
  <2>2. NoPass.paths \subseteq named
    BY DEF NoPass
  <2>3. ASSUME NEW urls, urls \subseteq References, Surveyed(w, urls)
        PROVE  \A k \in Workers : pass'[k].paths \subseteq named
    BY <2>1, <2>2, <2>3, ReferencesKnown
       DEF Surveyed, TypeOK, Passes, NamesUsed
  <2>4. CASE ReadReferences(w) \/ MisreadReferences(w)
    BY <2>3, <2>4 DEF ReadReferences, MisreadReferences
  <2>5. CASE ClaimRun(w) \/ \E apply \in BOOLEAN : RunGc(w, apply)
    BY <2>5 DEF ClaimRun, RunGc, NoPass, NamesUsed, TypeOK
  <2>6. CASE ListObjects(w)
    BY <2>1, <2>6 DEF ListObjects, Candidates, NamesUsed, TypeOK, Passes
  <2>7. CASE RecordSightings(w)
    <3>1. Confirmed(Remembered(pass[w].paths)) \subseteq pass[w].paths
      BY DEF Confirmed, Remembered
    <3> QED
      BY <2>1, <2>2, <2>7, <3>1 DEF RecordSightings, NamesUsed, TypeOK, Passes
  <2>8. CASE \E p \in Paths : Collect(w, p) \/ CollectFails(w, p)
    <3>1. PICK p \in Paths : Collect(w, p) \/ CollectFails(w, p)
      BY <2>8
    <3>2. pass'[w].paths = pass[w].paths \ {p}
      BY <2>1, <3>1 DEF Collect, CollectFails, TypeOK, Passes
    <3>3. \A k \in Workers \ {w} : pass'[k] = pass[k]
      BY <3>1 DEF Collect, CollectFails, TypeOK
    <3> QED
      BY <3>2, <3>3 DEF NamesUsed
  <2>9. CASE ForgetSightings(w) \/ Crash(w)
    BY <2>2, <2>9 DEF ForgetSightings, Crash, NamesUsed, TypeOK
  <2>10. CASE SweepStep(w)
    BY <2>10 DEF SweepStep, Claim, DeleteNext, DeleteFails, Settle,
       SettleFails, NamesUsed
  <2> QED
    BY <2>4, <2>5, <2>6, <2>7, <2>8, <2>9, <2>10 DEF PassStep
<1> QED
  BY <1>1, <1>2, <1>4, <1>5, <1>6 DEF NamesUsed, rowVars

LEMMA NamesNext == TypeOK /\ NamesUsed /\ [Next]_vars => NamesUsed'
<1> SUFFICES ASSUME TypeOK, NamesUsed, [Next]_vars PROVE NamesUsed'
  OBVIOUS
<1>1. CASE Next /\ Clock
  <2>1. UNCHANGED <<rowVars, queueVars, jobVars>>
    BY <1>1 DEF Clock, Age, Ripen, WeekPasses
  <2>2. named \subseteq named' /\ \A u : Known(u) => Known(u)'
    BY <1>1, KnownStays
  <2> QED
    BY <2>1, <2>2 DEF NamesUsed, rowVars, queueVars, jobVars
<1>2. CASE UNCHANGED vars
  BY <1>2 DEF NamesUsed, Known, vars, rowVars, objectVars, queueVars, jobVars
<1> QED
  BY <1>1, <1>2, NamesStaff, NamesJobs DEF Next

-----------------------------------------------------------------------------
(* The queue *)

(* What was named and is gone does not come back.                          *)
LEMMA GoneStays ==
  ASSUME [Next]_vars, NEW p, p \in named, p \notin bucket
  PROVE  p \notin bucket'
BY DEF Next, StaffStep, SweepStep, PassStep, Clock, Upload, UploadDies,
   Execute, Commit, CommitRoute, Committed, Rollback, DeleteInline, Claim,
   DeleteNext, DeleteFails, Settle, SettleFails, ClaimRun, RunGc,
   ReadReferences, MisreadReferences, ListObjects, RecordSightings, Collect,
   CollectFails, ForgetSightings, Crash, Age, Ripen, WeekPasses, objectVars,
   vars

LEMMA GoneNext ==
  TypeOK /\ NamesUsed /\ GoneIsGone /\ [Next]_vars => GoneIsGone'
<1> SUFFICES ASSUME TypeOK, NamesUsed, GoneIsGone, [Next]_vars,
                    NEW k \in Workers, sweep'[k].gone
             PROVE  /\ sweep'[k].done # NoUrl
                    /\ \A p \in Objects({sweep'[k].done}) : p \notin bucket'
  BY DEF GoneIsGone
<1>1. CASE sweep'[k] = sweep[k]
  <2>1. Known(sweep[k].done)
    BY DEF NamesUsed
  <2>2. \A p \in Objects({sweep[k].done}) : p \in named /\ p \notin bucket
    BY <1>1, <2>1 DEF GoneIsGone, Known
  <2>3. \A p \in Objects({sweep[k].done}) : p \notin bucket'
    BY <2>2, GoneStays
  <2> QED
    BY <1>1, <2>3 DEF GoneIsGone
<1>2. CASE SweepStep(k) \/ Crash(k)
  <2>1. sweep[k] \in Sweeps
    BY DEF TypeOK
  <2>3. CASE Crash(k)
    BY <2>3 DEF Crash, TypeOK, NoSweep
  <2>4. CASE Settle(k) \/ SettleFails(k)
    BY <2>4 DEF Settle, SettleFails, TypeOK, Onward, NoSweep
  <2>5. CASE Claim(k)
    <3>1. sweep'[k].gone = FALSE
      BY <2>1, <2>5 DEF Claim, Idle, NoSweep, TypeOK, Sweeps
    <3> QED
      BY <3>1
  <2>6. ASSUME NEW u \in Urls, DeleteNext(k, u)
        PROVE  /\ sweep'[k].done # NoUrl
               /\ \A p \in Objects({sweep'[k].done}) : p \notin bucket'
    <3>1. sweep'[k].done = u
      BY <2>1, <2>6 DEF DeleteNext, TypeOK, Sweeps
    <3> QED
      BY <2>6, <3>1, ObjectsOf, Constants DEF DeleteNext
  <2>7. ASSUME NEW u \in Urls, DeleteFails(k, u) PROVE FALSE
    <3>1. sweep'[k].gone = sweep[k].gone
      BY <2>1, <2>7 DEF DeleteFails, TypeOK, Sweeps
    <3>2. sweep[k].done = NoUrl
      BY <2>7 DEF DeleteFails
    <3> QED
      BY <3>1, <3>2 DEF GoneIsGone
  <2> QED
    BY <1>2, <2>3, <2>4, <2>5, <2>6, <2>7 DEF SweepStep
<1>3. sweep'[k] = sweep[k] \/ SweepStep(k) \/ Crash(k)
  <2>1. ASSUME NEW w \in Workers, SweepStep(w) \/ Crash(w), w # k
        PROVE  sweep'[k] = sweep[k]
    BY <2>1 DEF SweepStep, Claim, DeleteNext, DeleteFails, Settle,
       SettleFails, Crash, TypeOK
  <2>2. ASSUME NEW w \in Workers, PassStep(w) PROVE sweep' = sweep
    BY <2>2 DEF PassStep, ClaimRun, RunGc, ReadReferences, MisreadReferences,
       ListObjects, RecordSightings, Collect, CollectFails, ForgetSightings
  <2>3. ASSUME NEW h \in Holders, StaffStep(h) PROVE sweep' = sweep
    BY <2>3 DEF StaffStep, Upload, UploadDies, Execute, Commit, CommitRoute,
       Committed, Rollback, DeleteInline, jobVars
  <2>4. ASSUME Clock \/ UNCHANGED vars PROVE sweep' = sweep
    BY <2>4 DEF Clock, Age, Ripen, WeekPasses, jobVars, vars
  <2> QED
    BY <2>1, <2>2, <2>3, <2>4 DEF Next
<1> QED
  BY <1>1, <1>2, <1>3

-----------------------------------------------------------------------------
(* Uploads *)

LEMMA SameObject ==
  ASSUME OneUrl, NEW u \in MaybeUrl, NEW v \in MaybeUrl,
         NEW p, p \in Objects({u}), p \in Objects({v})
  PROVE  u = v
BY ObjectsOf DEF OneUrl, MaybeUrl

(* A new upload shares its object, and so its URL, with nothing named.     *)
LEMMA NewApart ==
  ASSUME TypeOK, NamesUsed, NEW h \in Holders, NEW u \in Urls, Upload(h, u)
  PROVE  Apart(h, u)'
<1>1. PathOf[u] # NoPath /\ PathOf[u] \notin named
  BY <1>1, Constants DEF Upload
<1>2. u # NoUrl
  BY Constants
<1>3. PathOf[u] \in Objects({u}) /\ ~Known(u)
  BY <1>1, <1>2, ObjectsOf DEF Known
<1>4. \A k \in Holders : /\ u # pic[k] /\ u # inline[k] /\ u \notin edit[k].queues
                         /\ u # upload[k] /\ u # edit[k].to
  BY <1>3 DEF NamesUsed
<1>5. u \notin queue
  BY <1>3 DEF NamesUsed
<1>6. \A w \in Workers : u \notin sweep[w].todo /\ PathOf[u] \notin pass[w].paths
  BY <1>1, <1>3 DEF NamesUsed
<1>7. PathOf[u] \in bucket' \ aged'
  BY <1>1 DEF Upload, TypeOK
<1>8. UNCHANGED <<pic, inline, edit, queue, sweep, pass>>
  BY DEF Upload, queueVars, jobVars
<1>9. \A k \in Holders \ {h} : upload'[k] = upload[k]
  BY DEF Upload, TypeOK
<1> QED
  BY <1>4, <1>5, <1>6, <1>7, <1>8, <1>9 DEF Apart

LEMMA ApartStaff ==
  ASSUME TypeOK, NamesUsed, OneUrl,
         NEW h \in Holders, NEW u \in Urls, upload[h] = u, upload'[h] = u,
         Apart(h, u), NEW g \in Holders, StaffStep(g)
  PROVE  Apart(h, u)'
<1>1. u # NoUrl
  BY Constants
<1>2. PathOf[u] \in named /\ PathOf[u] \in Paths
  BY DEF Apart, TypeOK
<1>3. PathOf[u] \in Objects({u})
  BY <1>1, <1>2, ObjectsOf, Constants
<1>4. ASSUME NEW v \in Urls, Upload(g, v) PROVE Apart(h, u)'
  <2>1. g # h /\ u # v
    BY <1>1, <1>2, <1>4 DEF Upload
  <2>2. \A k \in Holders : k # h => u # upload'[k]
    BY <1>4, <2>1 DEF Upload, TypeOK, Apart
  <2> QED
    BY <1>4, <2>2 DEF Upload, Apart, queueVars, jobVars
<1>5. CASE UploadDies(g)
  BY <1>1, <1>5 DEF UploadDies, Apart, TypeOK, objectVars, queueVars, jobVars
<1>6. ASSUME NEW new \in MaybeUrl, Execute(g, new) PROVE Apart(h, u)'
  <2>1. u \notin LetGo(g, new)
    BY DEF LetGo, Apart
  <2>2. g # h => u # new
    BY <1>1, <1>6 DEF Execute, Apart
  <2>3. \A k \in Holders :
          u \notin edit'[k].queues /\ (k # h => u # edit'[k].to)
    BY <1>6, <2>1, <2>2 DEF Execute, TypeOK, Apart
  <2> QED
    BY <1>6, <2>3 DEF Execute, Apart, objectVars, queueVars, jobVars
<1>7. CASE Commit(g) \/ CommitRoute(g)
  <2>1. Committed(g)
    BY <1>7 DEF Commit, CommitRoute
  <2>2. g # h
    BY <1>1, <2>1 DEF Committed, TypeOK
  <2>3. \A k \in Holders : u # pic'[k] /\ u \notin edit'[k].queues
    BY <2>1, <2>2 DEF Committed, TypeOK, Apart, NoEdit
  <2>4. \A k \in Holders : k # h => u # upload'[k] /\ u # edit'[k].to
    BY <1>1, <2>1 DEF Committed, TypeOK, Apart, NoEdit
  <2>5. \A k \in Holders : u # inline'[k]
    BY <1>7 DEF Commit, CommitRoute, TypeOK, Apart
  <2>6. u \notin queue'
    BY <2>1 DEF Committed, Apart
  <2> QED
    BY <2>1, <2>3, <2>4, <2>5, <2>6 DEF Committed, Apart, objectVars, jobVars
<1>8. CASE Rollback(g)
  BY <1>1, <1>8
     DEF Rollback, Apart, TypeOK, NoEdit, objectVars, queueVars, jobVars
<1>9. CASE DeleteInline(g)
  <2>1. PathOf[u] \notin Objects({inline[g]})
    BY <1>3, SameObject DEF Apart, TypeOK, MaybeUrl
  <2>2. PathOf[u] \in bucket' \ aged'
    BY <1>9, <2>1 DEF DeleteInline, Apart
  <2>3. \A k \in Holders : u # inline'[k]
    BY <1>1, <1>9 DEF DeleteInline, Apart, TypeOK
  <2> QED
    BY <1>9, <2>2, <2>3 DEF DeleteInline, Apart, queueVars, jobVars
<1> QED
  BY <1>4, <1>5, <1>6, <1>7, <1>8, <1>9 DEF StaffStep

LEMMA ApartJobs ==
  ASSUME TypeOK, OneUrl, NEW h \in Holders, NEW u \in Urls, Apart(h, u),
         NEW w \in Workers, SweepStep(w) \/ PassStep(w) \/ Crash(w)
  PROVE  Apart(h, u)'
<1>1. UNCHANGED rowVars /\ queue' \subseteq queue
  BY DEF SweepStep, PassStep, Crash, Claim, DeleteNext, DeleteFails, Settle,
     SettleFails, ClaimRun, RunGc, ReadReferences, MisreadReferences,
     ListObjects, RecordSightings, Collect, CollectFails, ForgetSightings,
     queueVars
<1>2. SUFFICES /\ PathOf[u] \in bucket' \ aged'
               /\ \A k \in Workers : u \notin sweep'[k].todo
               /\ \A k \in Workers : pass'[k].at \in {"record", "collect"} =>
                    PathOf[u] \notin pass'[k].paths
  BY <1>1 DEF Apart, rowVars
<1>3. sweep[w] \in Sweeps /\ pass[w] \in Passes
  BY DEF TypeOK
<1>4. PathOf[u] \in Paths /\ PathOf[u] \in bucket /\ PathOf[u] \notin aged
  BY DEF Apart, TypeOK
<1>5. CASE SweepStep(w)
  <2>1. pass' = pass
    BY <1>5 DEF SweepStep, Claim, DeleteNext, DeleteFails, Settle, SettleFails
  <2>2. CASE Claim(w)
    <3>1. \A k \in Workers : u \notin sweep'[k].todo
      BY <1>3, <2>2 DEF Claim, Claimable, Apart, TypeOK, Sweeps
    <3> QED
      BY <2>1, <2>2, <3>1 DEF Claim, objectVars, Apart
  <2>3. ASSUME NEW v \in Urls, DeleteNext(w, v)
        PROVE  /\ PathOf[u] \in bucket' \ aged'
               /\ \A k \in Workers : u \notin sweep'[k].todo
    <3>1. u # v
      BY <2>3 DEF DeleteNext, Apart
    <3>2. PathOf[u] # PathOf[v]
      BY <1>4, <3>1, Constants DEF OneUrl
    <3>3. \A k \in Workers : sweep'[k].todo = sweep[k].todo
      BY <1>3, <2>3 DEF DeleteNext, TypeOK, Sweeps
    <3> QED
      BY <1>4, <2>3, <3>2, <3>3 DEF DeleteNext, Apart
  <2>4. ASSUME NEW v \in Urls, DeleteFails(w, v)
        PROVE  /\ PathOf[u] \in bucket' \ aged'
               /\ \A k \in Workers : u \notin sweep'[k].todo
    <3>1. \A k \in Workers : sweep'[k].todo = sweep[k].todo
      BY <1>3, <2>4 DEF DeleteFails, TypeOK, Sweeps
    <3> QED
      BY <2>4, <3>1 DEF DeleteFails, Apart, objectVars
  <2>5. CASE Settle(w) \/ SettleFails(w)
    <3>1. Onward(sweep[w]).todo \subseteq sweep[w].todo
      BY DEF Onward, NoSweep
    <3>2. \A k \in Workers : sweep'[k].todo \subseteq sweep[k].todo
      BY <2>5, <3>1 DEF Settle, SettleFails, TypeOK
    <3> QED
      BY <2>1, <2>5, <3>2 DEF Settle, SettleFails, Apart, objectVars
  <2> QED
    BY <1>5, <2>1, <2>2, <2>3, <2>4, <2>5 DEF SweepStep, Apart
<1>6. CASE PassStep(w)
  <2>1. sweep' = sweep
    BY <1>6 DEF PassStep, ClaimRun, RunGc, ReadReferences, MisreadReferences,
       ListObjects, RecordSightings, Collect, CollectFails, ForgetSightings
  <2>2. \A k \in Workers \ {w} : pass'[k] = pass[k]
    BY <1>6 DEF PassStep, ClaimRun, RunGc, ReadReferences, MisreadReferences,
       Surveyed, ListObjects, RecordSightings, Collect, CollectFails,
       ForgetSightings, TypeOK
  <2>3. ASSUME pass'[w].at \in {"record", "collect"}
        PROVE  PathOf[u] \notin pass'[w].paths
    <3>1. CASE ClaimRun(w) \/ \E apply \in BOOLEAN : RunGc(w, apply)
      <4>0. Idle(w)
        BY <3>1 DEF ClaimRun, RunGc
      <4>1. pass[w].at = "none"
        BY <4>0 DEF Idle, NoPass
      <4>2. pass'[w].at \in {"none", "survey"}
        BY <3>1, <4>1 DEF ClaimRun, RunGc, NoPass, TypeOK
      <4> QED
        BY <2>3, <4>2
    <3>2. CASE ReadReferences(w) \/ MisreadReferences(w)
      <4>1. PICK urls : Surveyed(w, urls)
        BY <3>2 DEF ReadReferences, MisreadReferences
      <4>2. pass'[w].at \in {"none", "list"}
        BY <1>3, <4>1 DEF Surveyed, NoPass, TypeOK, Passes
      <4> QED
        BY <2>3, <4>2
    <3>3. CASE ListObjects(w)
      BY <1>3, <1>4, <3>3 DEF ListObjects, Candidates, TypeOK, Passes
    <3>4. CASE RecordSightings(w)
      <4>1. PathOf[u] \notin pass[w].paths
        BY <3>4 DEF RecordSightings, Apart
      <4>2. PathOf[u] \notin Confirmed(Remembered(pass[w].paths))
        BY <1>4, <4>1 DEF Confirmed, Remembered
      <4> QED
        BY <1>3, <3>4, <4>2 DEF RecordSightings, NoPass, TypeOK, Passes
    <3>5. ASSUME NEW p \in Paths, Collect(w, p) \/ CollectFails(w, p)
          PROVE  PathOf[u] \notin pass'[w].paths
      <4>1. PathOf[u] \notin pass[w].paths
        BY <3>5 DEF Collect, CollectFails, Apart
      <4>2. pass'[w].paths = pass[w].paths \ {p}
        BY <1>3, <3>5 DEF Collect, CollectFails, TypeOK, Passes
      <4> QED
        BY <4>1, <4>2
    <3>6. CASE ForgetSightings(w)
      BY <2>3, <3>6 DEF ForgetSightings, TypeOK, NoPass
    <3> QED
      BY <1>6, <3>1, <3>2, <3>3, <3>4, <3>5, <3>6 DEF PassStep
  <2>4. PathOf[u] \in bucket' \ aged'
    <3>1. ASSUME NEW p \in Paths, Collect(w, p)
          PROVE  PathOf[u] \in bucket' \ aged'
      <4>1. PathOf[u] \notin pass[w].paths
        BY <3>1 DEF Collect, Apart
      <4> QED
        BY <1>4, <3>1, <4>1 DEF Collect
    <3> QED
      BY <1>4, <1>6, <3>1 DEF PassStep, ClaimRun, RunGc, ReadReferences,
         MisreadReferences, ListObjects, RecordSightings, CollectFails,
         ForgetSightings, objectVars
  <2> QED
    BY <2>1, <2>2, <2>3, <2>4 DEF Apart
<1>7. CASE Crash(w)
  BY <1>4, <1>7 DEF Crash, Apart, TypeOK, NoSweep, NoPass, objectVars
<1> QED
  BY <1>5, <1>6, <1>7

LEMMA UploadsInit == Init => UploadsApart
BY DEF Init, UploadsApart

LEMMA UploadsNext ==
  ASSUME OneUrl
  PROVE  TypeOK /\ NamesUsed /\ UploadsApart /\ [Next]_vars => UploadsApart'
<1> SUFFICES ASSUME TypeOK, NamesUsed, UploadsApart, [Next]_vars,
                    NEW h \in Holders, NEW u, u = upload'[h], u # NoUrl
             PROVE  Apart(h, u)'
  BY DEF UploadsApart
<1>1. u \in Urls
  BY TypesNext DEF TypeOK, MaybeUrl
<1>2. upload[h] = u \/ Upload(h, u)
  <2>1. ASSUME NEW g \in Holders, StaffStep(g)
        PROVE  upload[h] = u \/ Upload(h, u)
    <3>1. ASSUME NEW v \in Urls, Upload(g, v)
          PROVE  upload[h] = u \/ Upload(h, u)
      <4>1. CASE g = h
        BY <3>1, <4>1 DEF Upload, TypeOK
      <4>2. CASE g # h
        BY <3>1, <4>2 DEF Upload, TypeOK
      <4> QED
        BY <4>1, <4>2
    <3>2. CASE UploadDies(g) \/ Committed(g) \/ Rollback(g)
      BY <3>2 DEF UploadDies, Committed, Rollback, TypeOK
    <3>3. CASE DeleteInline(g) \/ \E new \in MaybeUrl : Execute(g, new)
      BY <3>3 DEF DeleteInline, Execute
    <3> QED
      BY <2>1, <3>1, <3>2, <3>3 DEF StaffStep, Commit, CommitRoute
  <2>2. CASE UNCHANGED upload
    BY <2>2
  <2> QED
    BY <2>1, <2>2 DEF Next, SweepStep, PassStep, Clock, Claim, DeleteNext,
       DeleteFails, Settle, SettleFails, ClaimRun, RunGc, ReadReferences,
       MisreadReferences, ListObjects, RecordSightings, Collect, CollectFails,
       ForgetSightings, Crash, Age, Ripen, WeekPasses, rowVars, vars
<1>3. CASE Upload(h, u)
  BY <1>1, <1>3, NewApart
<1>4. CASE upload[h] = u
  <2>1. Apart(h, u)
    BY <1>4 DEF UploadsApart
  <2>2. ASSUME NEW p \in Paths, Age(p) PROVE Apart(h, u)'
    <3>1. p # PathOf[u]
      BY <1>4, <2>2 DEF Age
    <3> QED
      BY <2>1, <2>2, <3>1 DEF Age, Apart, rowVars, queueVars, jobVars
  <2>3. CASE WeekPasses \/ \E p \in Paths : Ripen(p)
    BY <2>1, <2>3
       DEF WeekPasses, Ripen, Apart, rowVars, objectVars, queueVars, jobVars
  <2>4. CASE UNCHANGED vars
    BY <2>1, <2>4
       DEF vars, Apart, rowVars, objectVars, queueVars, jobVars
  <2>5. ASSUME NEW g \in Holders, StaffStep(g) PROVE Apart(h, u)'
    BY <1>1, <1>4, <2>1, <2>5, ApartStaff
  <2>6. ASSUME NEW w \in Workers, SweepStep(w) \/ PassStep(w) \/ Crash(w)
        PROVE  Apart(h, u)'
    BY <1>1, <2>1, <2>6, ApartJobs
  <2> QED
    BY <2>2, <2>3, <2>4, <2>5, <2>6 DEF Next, Clock
<1> QED
  BY <1>2, <1>3, <1>4

-----------------------------------------------------------------------------
(* Pictures in use *)

LEMMA UsedInit == Init => UsedIsSafe
<1> SUFFICES ASSUME Init, NEW u \in References PROVE Safe(u)
  BY DEF UsedIsSafe
<1>1. Shows(u)
  BY ObjectsOf, ObjectsOfAll DEF Init, Shows
<1>2. Objects({NoUrl}) = {}
  BY ObjectsOf
<1> QED
  BY <1>1, <1>2 DEF Init, Safe, Spared, NoSweep, NoPass

(* What a commit shows for the first time is safe already: an upload as    *)
(* nobody else knows it, a pasted URL as no job has it in hand.            *)
LEMMA NewIsSafe ==
  ASSUME TypeOK, OneUrl, CarefulStaff, UploadsApart, NEW h \in Holders,
         Commit(h) \/ CommitRoute(h), NEW u, u = edit[h].to, u # NoUrl
  PROVE  Safe(u)
<1>1. Commit(h)
  BY DEF CommitRoute
<1>2. u \in MaybeUrl
  <2>1. edit[h] \in Edits
    BY DEF TypeOK
  <2> QED
    BY <2>1 DEF Edits
<1>3. CASE u = upload[h]
  <2>1. Apart(h, u)
    BY <1>3 DEF UploadsApart
  <2>2. Shows(u) /\ \A p \in Objects({u}) : p = PathOf[u] /\ p \notin aged
    BY <2>1, ObjectsOf DEF Apart, Shows
  <2>3. \A k \in Holders : Objects({inline[k]}) \cap Objects({u}) = {}
    <3>1. \A k \in Holders : inline[k] # u /\ inline[k] \in MaybeUrl
      BY <2>1 DEF Apart, TypeOK
    <3> QED
      BY <1>2, <3>1, SameObject
  <2>4. ASSUME NEW w \in Workers PROVE Spared(u, w)
    <3>1. /\ u \notin sweep[w].todo
          /\ pass[w].at \in {"record", "collect"} => PathOf[u] \notin pass[w].paths
      BY <2>1 DEF Apart
    <3> QED
      BY <2>2, <3>1 DEF Spared
  <2> QED
    BY <2>2, <2>3, <2>4 DEF Safe
<1>4. CASE u # upload[h]
  <2>1. Shows(u) /\ ~InHand(u)
    BY <1>1, <1>4 DEF Commit, CarefulStaff
  <2>2. \A k \in Holders : Objects({inline[k]}) \cap Objects({u}) = {}
    BY <2>1 DEF InHand
  <2>3. ASSUME NEW w \in Workers PROVE Spared(u, w)
    <3>1. /\ u \notin sweep[w].todo
          /\ pass[w].at = "list" => Objects({u}) \subseteq pass[w].paths
          /\ pass[w].at \in {"record", "collect"} =>
               Objects({u}) \cap pass[w].paths = {}
      BY <2>1 DEF InHand
    <3> QED
      BY <3>1 DEF Spared
  <2> QED
    BY <2>1, <2>2, <2>3 DEF Safe
<1> QED
  BY <1>3, <1>4

LEMMA SafeStaff ==
  ASSUME TypeOK, OneUrl, CarefulStaff, NEW u \in Urls, Safe(u),
         NEW g \in Holders, StaffStep(g), u \in References'
  PROVE  Safe(u)'
<1>1. ASSUME bucket \subseteq bucket', aged' = aged,
             UNCHANGED <<inline, sweep, pass, sighting>>
      PROVE  Safe(u)'
  BY <1>1 DEF Safe, Shows, Spared
<1>2. CASE (\E v \in Urls : Upload(g, v)) \/ UploadDies(g) \/ Rollback(g)
             \/ \E new \in MaybeUrl : Execute(g, new)
  BY <1>1, <1>2 DEF Upload, UploadDies, Rollback, Execute, objectVars,
     jobVars, passVars
<1>3. CASE Commit(g)
  BY <1>1, <1>3 DEF Commit, Committed, objectVars, jobVars, passVars
<1>4. CASE CommitRoute(g)
  <2>1. pic' = [pic EXCEPT ![g] = NoUrl] /\ u # NoUrl
    BY <1>4, Constants DEF CommitRoute, Committed
  <2>2. PICK k \in Holders \ {g} : u = pic[k]
    BY <2>1 DEF References, TypeOK
  <2>3. pic[g] # u
    BY <1>4, <2>2 DEF CommitRoute, CarefulStaff
  <2>4. Objects({pic[g]}) \cap Objects({u}) = {}
    BY <2>3, SameObject DEF TypeOK, MaybeUrl
  <2>5. \A j \in Holders : Objects({inline'[j]}) \cap Objects({u}) = {}
    BY <1>4, <2>4 DEF CommitRoute, Safe, TypeOK
  <2> QED
    BY <1>4, <2>5 DEF CommitRoute, Committed, Safe, Shows, Spared, objectVars,
       jobVars, passVars
<1>5. CASE DeleteInline(g)
  <2>1. Objects({inline[g]}) \cap Objects({u}) = {}
    BY DEF Safe
  <2>2. Shows(u)' /\ aged' \subseteq aged
    BY <1>5, <2>1 DEF DeleteInline, Safe, Shows
  <2>3. Objects({NoUrl}) = {}
    BY ObjectsOf
  <2>4. \A j \in Holders : Objects({inline'[j]}) \cap Objects({u}) = {}
    BY <1>5, <2>3 DEF DeleteInline, Safe, TypeOK
  <2> QED
    BY <1>5, <2>2, <2>4 DEF DeleteInline, Safe, Spared, jobVars, passVars
<1> QED
  BY <1>2, <1>3, <1>4, <1>5 DEF StaffStep

LEMMA SafeSweep ==
  ASSUME TypeOK, OneUrl, NEW u \in References, u \in Urls, Safe(u),
         NEW w \in Workers, SweepStep(w) \/ Crash(w)
  PROVE  Safe(u)'
<1>1. sweep[w] \in Sweeps
  BY DEF TypeOK
<1>2. UNCHANGED <<inline, sighting>>
  BY DEF SweepStep, Crash, Claim, DeleteNext, DeleteFails, Settle,
     SettleFails, rowVars, passVars
<1>3. ASSUME NEW k \in Workers PROVE u \notin sweep'[k].todo
  <2>1. \/ sweep'[k].todo \subseteq sweep[k].todo
        \/ sweep'[k].todo \subseteq Claimable
    <3>1. CASE Claim(w)
      BY <1>1, <3>1 DEF Claim, TypeOK, Sweeps
    <3>2. ASSUME NEW v \in Urls, DeleteNext(w, v)
          PROVE  sweep'[k].todo \subseteq sweep[k].todo
      BY <1>1, <3>2 DEF DeleteNext, TypeOK, Sweeps
    <3>3. ASSUME NEW v \in Urls, DeleteFails(w, v)
          PROVE  sweep'[k].todo \subseteq sweep[k].todo
      BY <1>1, <3>3 DEF DeleteFails, TypeOK, Sweeps
    <3>4. CASE Settle(w) \/ SettleFails(w) \/ Crash(w)
      BY <3>4 DEF Settle, SettleFails, Crash, TypeOK, Onward, NoSweep
    <3> QED
      BY <3>1, <3>2, <3>3, <3>4 DEF SweepStep
  <2>2. u \notin Claimable
    BY DEF Claimable, Cancelled
  <2> QED
    BY <2>1, <2>2 DEF Safe, Spared
<1>4. Shows(u)' /\ aged' \subseteq aged
  <2>1. ASSUME NEW v \in Urls, DeleteNext(w, v)
        PROVE  Shows(u)' /\ aged' \subseteq aged
    <3>1. v # u
      BY <2>1 DEF DeleteNext, Safe, Spared
    <3>2. PathOf[v] \notin Objects({u})
      BY <3>1, ObjectsOf DEF OneUrl
    <3> QED
      BY <2>1, <3>2 DEF DeleteNext, Safe, Shows
  <2> QED
    BY <2>1 DEF SweepStep, Crash, Claim, DeleteFails, Settle, SettleFails,
       objectVars, Safe, Shows
<1>5. \A k \in Workers : pass'[k] = pass[k] \/ pass'[k].at = "none"
  <2>1. CASE SweepStep(w)
    BY <2>1 DEF SweepStep, Claim, DeleteNext, DeleteFails, Settle, SettleFails
  <2>2. CASE Crash(w)
    BY <2>2 DEF Crash, TypeOK, NoPass
  <2> QED
    BY <2>1, <2>2
<1>6. ASSUME NEW k \in Workers PROVE Spared(u, k)'
  <2>1. Spared(u, k)
    BY DEF Safe
  <2> QED
    BY <1>2, <1>3, <1>4, <1>5, <2>1 DEF Spared
<1> QED
  BY <1>2, <1>4, <1>6 DEF Safe

(* A pass spares u at its next stage, if it does at this one; what it      *)
(* records makes no object ripe.                                           *)
LEMMA SafePass ==
  ASSUME TypeOK, NEW u \in References, u \in Urls, Safe(u),
         NEW w \in Workers, PassStep(w)
  PROVE  Safe(u)'
<1>1. pass[w] \in Passes /\ Spared(u, w)
  BY DEF TypeOK, Safe
<1>2. UNCHANGED <<inline, sweep>>
  BY DEF PassStep, ClaimRun, RunGc, ReadReferences, MisreadReferences,
     ListObjects, RecordSightings, Collect, CollectFails, ForgetSightings,
     rowVars
<1>3. \A k \in Workers \ {w} : pass'[k] = pass[k]
  BY DEF PassStep, ClaimRun, RunGc, ReadReferences, MisreadReferences,
     Surveyed, ListObjects, RecordSightings, Collect, CollectFails,
     ForgetSightings, TypeOK
<1>4. Objects({u}) \subseteq Paths
  BY ObjectsArePaths DEF MaybeUrl
<1>5. \A p \in Paths : sighting'[p] = "ripe" => sighting[p] = "ripe"
  BY DEF PassStep, ClaimRun, RunGc, ReadReferences, MisreadReferences,
     ListObjects, RecordSightings, Remembered, Collect, CollectFails,
     ForgetSightings, TypeOK, passVars
<1>6. Shows(u)' /\ aged' \subseteq aged
  <2>1. ASSUME NEW p \in Paths, Collect(w, p)
        PROVE  Shows(u)' /\ aged' \subseteq aged
    <3>1. p \notin Objects({u})
      BY <1>1, <2>1 DEF Collect, Spared
    <3> QED
      BY <2>1, <3>1 DEF Collect, Safe, Shows
  <2> QED
    BY <2>1 DEF PassStep, ClaimRun, RunGc, ReadReferences, MisreadReferences,
       ListObjects, RecordSightings, CollectFails, ForgetSightings,
       objectVars, Safe, Shows
<1>7. ASSUME NEW k \in Workers \ {w} PROVE Spared(u, k)'
  <2>1. Spared(u, k)
    BY DEF Safe
  <2> QED
    BY <1>2, <1>3, <1>4, <1>5, <1>6, <2>1 DEF Spared
<1>8. Spared(u, w)'
  <2>1. u \notin sweep'[w].todo
    BY <1>1, <1>2 DEF Spared
  <2>2. ASSUME pass'[w].at \in {"none", "survey"} PROVE Spared(u, w)'
    BY <2>1, <2>2 DEF Spared
  <2>3. CASE ClaimRun(w) \/ \E apply \in BOOLEAN : RunGc(w, apply)
    <3>1. Idle(w)
      BY <2>3 DEF ClaimRun, RunGc
    <3>2. pass[w].at = "none"
      BY <3>1 DEF Idle, NoPass
    <3>3. pass'[w].at \in {"none", "survey"}
      BY <2>3, <3>2 DEF ClaimRun, RunGc, NoPass, TypeOK
    <3> QED
      BY <2>2, <3>3
  <2>4. ASSUME NEW urls, Surveyed(w, urls), sighting' = sighting,
               \A p \in Objects({u}) : p \in Objects(urls) \/ sighting[p] # "ripe"
        PROVE  Spared(u, w)'
    <3>1. \/ pass'[w] = NoPass
          \/ pass'[w].at = "list" /\ pass'[w].paths = Objects(urls)
      BY <1>1, <2>4 DEF Surveyed, TypeOK, Passes
    <3>2. CASE pass'[w] = NoPass
      BY <2>2, <3>2 DEF NoPass
    <3>3. CASE pass'[w].at = "list" /\ pass'[w].paths = Objects(urls)
      BY <2>1, <2>4, <3>3 DEF Spared
    <3> QED
      BY <3>1, <3>2, <3>3
  <2>5. CASE ReadReferences(w)
    <3>1. \A p \in Objects({u}) : p \in Objects(References)
      BY ObjectsOf, ObjectsOfAll
    <3> QED
      BY <2>4, <2>5, <3>1 DEF ReadReferences, passVars
  <2>6. CASE MisreadReferences(w)
    <3>1. PICK urls \in SUBSET References :
            /\ \A p \in Objects(References \ urls) : sighting[p] = "none"
            /\ Surveyed(w, urls)
      BY <2>6 DEF MisreadReferences
    <3>2. ASSUME NEW p \in Objects({u}), p \notin Objects(urls)
          PROVE  p \in Objects(References \ urls)
      <4>1. u # NoUrl /\ p = PathOf[u] /\ p # NoPath
        BY <3>2, ObjectsOf
      <4>2. u \notin urls
        BY <3>2, <4>1, ObjectsOfAll
      <4> QED
        BY <4>1, <4>2, ObjectsOfAll
    <3> QED
      BY <2>4, <2>6, <3>1, <3>2 DEF MisreadReferences, passVars
  <2>7. CASE ListObjects(w)
    <3>1. pass'[w].at = "record" /\ pass'[w].paths = aged \ pass[w].paths
      BY <1>1, <2>7 DEF ListObjects, Candidates, TypeOK, Passes
    <3>2. pass[w].at = "list" /\ sighting' = sighting
      BY <2>7 DEF ListObjects, passVars
    <3> QED
      BY <1>1, <2>1, <3>1, <3>2 DEF Spared
  <2>8. CASE RecordSightings(w)
    <3> DEFINE found == Confirmed(Remembered(pass[w].paths))
    <3>1. \/ pass'[w] = NoPass
          \/ pass'[w].at = "collect" /\ pass'[w].paths = found
      BY <1>1, <2>8 DEF RecordSightings, TypeOK, Passes
    <3>2. \A p \in Objects({u}) : p \notin found
      <4>1. \A p \in Objects({u}) :
              p \notin pass[w].paths \/ sighting[p] # "ripe"
        BY <1>1, <2>8 DEF RecordSightings, Spared
      <4> QED
        BY <1>4, <4>1 DEF Confirmed, Remembered
    <3>3. CASE pass'[w] = NoPass
      BY <2>2, <3>3 DEF NoPass
    <3>4. CASE pass'[w].at = "collect" /\ pass'[w].paths = found
      BY <2>1, <3>2, <3>4 DEF Spared
    <3> QED
      BY <3>1, <3>3, <3>4
  <2>9. ASSUME NEW p \in Paths, Collect(w, p) \/ CollectFails(w, p)
        PROVE  Spared(u, w)'
    <3>1. /\ pass[w].at = "collect" /\ pass'[w].at = "collect"
          /\ pass'[w].paths \subseteq pass[w].paths
      <4>1. CASE Collect(w, p)
        BY <1>1, <4>1 DEF Collect, TypeOK, Passes
      <4>2. CASE CollectFails(w, p)
        BY <1>1, <4>2 DEF CollectFails, TypeOK, Passes
      <4> QED
        BY <2>9, <4>1, <4>2
    <3> QED
      BY <1>1, <2>1, <3>1 DEF Spared
  <2>10. CASE ForgetSightings(w)
    <3>1. pass'[w] = NoPass
      BY <2>10 DEF ForgetSightings, TypeOK
    <3> QED
      BY <2>2, <3>1 DEF NoPass
  <2> QED
    BY <2>3, <2>5, <2>6, <2>7, <2>8, <2>9, <2>10 DEF PassStep
<1> QED
  BY <1>2, <1>6, <1>7, <1>8 DEF Safe

LEMMA UsedNext ==
  ASSUME OneUrl, CarefulStaff
  PROVE  TypeOK /\ UploadsApart /\ UsedIsSafe /\ [Next]_vars => UsedIsSafe'
<1> SUFFICES ASSUME TypeOK, UploadsApart, UsedIsSafe, [Next]_vars,
                    NEW u, u \in References'
             PROVE  Safe(u)'
  BY DEF UsedIsSafe
<1>1. u \in Urls
  BY TypesNext DEF TypeOK, References, MaybeUrl
<1>2. ASSUME NEW g \in Holders, StaffStep(g) PROVE Safe(u)'
  <2>1. CASE u \in References
    BY <1>1, <1>2, <2>1, SafeStaff DEF UsedIsSafe
  <2>2. CASE u \notin References
    <3>1. pic' # pic
      BY <2>2 DEF References
    <3>2. Commit(g) \/ CommitRoute(g)
      BY <1>2, <3>1 DEF StaffStep, Upload, UploadDies, Execute, Rollback,
         DeleteInline
    <3>3. pic' = [pic EXCEPT ![g] = edit[g].to]
      BY <3>2 DEF Commit, CommitRoute, Committed
    <3>4. u = edit[g].to
      BY <2>2, <3>3 DEF References, TypeOK
    <3>5. u # NoUrl
      BY <1>1, Constants
    <3>6. Safe(u)
      BY <3>2, <3>4, <3>5, NewIsSafe
    <3> QED
      BY <1>1, <1>2, <3>6, SafeStaff
  <2> QED
    BY <2>1, <2>2
<1>3. ASSUME UNCHANGED pic PROVE u \in References /\ Safe(u)
  BY <1>3 DEF References, UsedIsSafe
<1>4. ASSUME NEW w \in Workers, SweepStep(w) \/ PassStep(w) \/ Crash(w)
      PROVE  Safe(u)'
  <2>1. UNCHANGED pic
    BY <1>4 DEF SweepStep, PassStep, Crash, Claim, DeleteNext, DeleteFails,
       Settle, SettleFails, ClaimRun, RunGc, ReadReferences,
       MisreadReferences, ListObjects, RecordSightings, Collect, CollectFails,
       ForgetSightings, rowVars
  <2> QED
    BY <1>1, <1>3, <1>4, <2>1, SafeSweep, SafePass
<1>5. ASSUME NEW p \in Paths, Age(p) PROVE Safe(u)'
  <2>1. Safe(u)
    BY <1>3, <1>5 DEF Age, rowVars
  <2>2. \A w \in Workers : pass[w].at # "list"
    BY <1>5 DEF Age
  <2> QED
    BY <1>5, <2>1, <2>2
       DEF Age, rowVars, jobVars, passVars, Safe, Shows, Spared
<1>6. ASSUME NEW p \in Paths, Ripen(p) PROVE Safe(u)'
  <2>1. Safe(u)
    BY <1>3, <1>6 DEF Ripen, rowVars
  <2>2. \A w \in Workers : pass[w].at \notin {"list", "record"}
    BY <1>6 DEF Ripen
  <2> QED
    BY <1>6, <2>1, <2>2
       DEF Ripen, rowVars, objectVars, jobVars, Safe, Shows, Spared
<1>7. CASE WeekPasses \/ UNCHANGED vars
  <2>1. Safe(u)
    BY <1>3, <1>7 DEF WeekPasses, vars, rowVars
  <2> QED
    BY <1>7, <2>1 DEF WeekPasses, vars, rowVars, objectVars, jobVars,
       passVars, Safe, Shows, Spared
<1> QED
  BY <1>2, <1>4, <1>5, <1>6, <1>7 DEF Next, Clock

-----------------------------------------------------------------------------
(* Theorems *)

(* No counter of the queue passes p_give_up, and every name in the bucket  *)
(* was given out (claim_storage_gc, uploadImage).                          *)
THEOREM StorageTypes == Spec => []TypeOK
<1> QED
  BY TypesInit, TypesNext, PTL DEF Spec

(* A URL leaves the queue only when its object is gone or in use, whatever *)
(* failed or crashed between the deletion and settle_storage_gc.           *)
THEOREM QueueKeeps == Spec => QueueForgetsNothing
<1> DEFINE Inv == TypeOK /\ NamesUsed /\ GoneIsGone
<1>1. Init => Inv
  BY TypesInit, NamesInit DEF Init, GoneIsGone, NoSweep
<1>2. Inv /\ [Next]_vars => Inv'
  BY TypesNext, NamesNext, GoneNext
<1>3. Inv /\ [Next]_vars =>
        [\A u \in queue \ queue' :
           PathOf[u] \notin bucket' \/ u \in References]_vars
  <2> SUFFICES ASSUME Inv, Next, NEW u \in queue \ queue'
               PROVE  PathOf[u] \notin bucket' \/ u \in References
    BY DEF vars, queueVars
  <2>1. u \in Urls
    BY DEF TypeOK
  <2>2. PICK w \in Workers : Claim(w) \/ Settle(w)
    BY DEF Next, StaffStep, SweepStep, PassStep, Clock, Upload, UploadDies,
       Execute, Commit, CommitRoute, Committed, Rollback, DeleteInline,
       DeleteNext, DeleteFails, SettleFails, ClaimRun, RunGc, ReadReferences,
       MisreadReferences, ListObjects, RecordSightings, Collect, CollectFails,
       ForgetSightings, Crash, Age, Ripen, WeekPasses, queueVars
  <2>3. CASE Claim(w)
    BY <2>3 DEF Claim, Cancelled
  <2>4. CASE Settle(w)
    <3>1. u \in Dropped(sweep[w]) /\ bucket' = bucket
      BY <2>4 DEF Settle, objectVars
    <3>2. u = sweep[w].done /\ sweep[w].gone
      BY <3>1 DEF Dropped
    <3>3. u # NoUrl /\ \A p \in Objects({u}) : p \notin bucket
      BY <3>2 DEF GoneIsGone
    <3>4. PathOf[u] = NoPath => PathOf[u] \notin bucket
      BY Constants DEF TypeOK
    <3> QED
      BY <3>1, <3>3, <3>4, ObjectsOf
  <2> QED
    BY <2>2, <2>3, <2>4
<1> QED
  BY <1>1, <1>2, <1>3, PTL DEF Spec, QueueForgetsNothing

(* The invariant that the next rests on.                                   *)
THEOREM StorageInvariant ==
  ASSUME OneUrl, CarefulStaff
  PROVE  Spec => []IInv
<1>1. Init => IInv
  BY TypesInit, NamesInit, UploadsInit, UsedInit DEF IInv
<1>2. IInv /\ [Next]_vars => IInv'
  BY TypesNext, NamesNext, UploadsNext, UsedNext DEF IInv
<1> QED
  BY <1>1, <1>2, PTL DEF Spec

(* No row shows an object that a job or a route has deleted, with any      *)
(* number of workers, bad readings and crashes (sweepStorage,              *)
(* reconcileStorage, the image route).                                     *)
THEOREM PicturesStay ==
  ASSUME OneUrl, CarefulStaff
  PROVE  Spec => []NoBrokenImage
<1>1. IInv => NoBrokenImage
  BY DEF IInv, UsedIsSafe, Safe, NoBrokenImage
<1> QED
  BY <1>1, StorageInvariant, PTL

=============================================================================
