----------------------------- MODULE Background -----------------------------
(***************************************************************************)
(* Work done off the request: bulk imports of products                     *)
(* (product-import.service), thumbnails of attached images                 *)
(* (asset-derivative.service) and mail (mail.dispatcher), each handed to a *)
(* worker through a queue after the database write that asks for it.       *)
(*                                                                         *)
(* The queue is BullMQ, external: a job that throws is delivered again     *)
(* until its attempts are spent, one whose worker died is delivered again  *)
(* once.                                                                   *)
(***************************************************************************)
EXTENDS Naturals, Sequences, FiniteSets

CONSTANTS
  Imports, Images, Letters,   \* ids of rows, and of the one job for each
  Products,                   \* SKUs
  Files,                      \* the files that are uploaded: sequences of SKUs
  Tries                       \* attempts of a job: job-options.ts

ASSUME TriesAssumption == Tries \in Nat \ {0}
ASSUME FilesAssumption == \A file \in Files : file \in Seq(Products)
\* Each queue has job ids of its own.
ASSUME QueuesAssumption ==
  /\ Imports \cap Images = {} /\ Imports \cap Letters = {} /\ Images \cap Letters = {}
  /\ {"hand", "nobody"} \cap Imports = {}

Jobs == Imports \cup Images \cup Letters

VARIABLES
  job,         \* each job's state in its queue, the attempts made, and whether
               \* its worker ever died
  upload,      \* the catalog_import_jobs rows
  progress,    \* how far a worker is through each file, and what it read there
  sku,         \* who made each product and who wrote it last, or nobody
  asset,       \* the product_assets and template_assets rows of images
  object,      \* what is stored for each
  drawn,       \* how many of its two pictures a worker has stored
  removal,     \* how far each asset's removal is
  delivered,   \* how often each letter was sent
  outage       \* history: the database could not be reached to record a failure

backgroundVars ==
  <<job, upload, progress, sku, asset, object, drawn, removal, delivered, outage>>

NoUpload == [status |-> "NONE", results |-> <<>>]
NoAsset == [status |-> "NONE"]
Unmade == [madeBy |-> "nobody", writtenBy |-> "nobody"]
Outcomes == {"created", "updated", "skipped", "failed"}
Unread == "unread"

Job == [state : {"none", "waiting", "active", "completed", "failed"}, made : 0..Tries,
        stalled : BOOLEAN]
Upload == [status : {"QUEUED", "RUNNING", "COMPLETED", "FAILED"}, dryRun : BOOLEAN,
           updateExisting : BOOLEAN, file : Files, results : Seq(Outcomes)]
Progress == [results : Seq(Outcomes), read : {Unread, "new", "known"}]
Sku == [madeBy : Imports \cup {"hand"}, writtenBy : Imports \cup {"hand"}]
Asset == [status : {"PENDING", "READY", "FAILED"}, target : {"PRODUCT", "TEMPLATE"},
          huge : BOOLEAN]

BackgroundTypeOK ==
  /\ job \in [Jobs -> Job]
  /\ upload \in [Imports -> Upload \cup {NoUpload}]
  /\ progress \in [Imports -> Progress]
  /\ sku \in [Products -> Sku \cup {Unmade}]
  /\ asset \in [Images -> Asset \cup {NoAsset}]
  /\ object \in [Images -> SUBSET {"original", "thumb", "preview"}]
  /\ drawn \in [Images -> 0..2]
  /\ removal \in [Images -> {"none", "row", "objects", "done"}]
  /\ delivered \in [Letters -> 0..2]
  /\ outage \in BOOLEAN

AtStart == [results |-> <<>>, read |-> Unread]

BackgroundInit ==
  /\ job = [j \in Jobs |-> [state |-> "none", made |-> 0, stalled |-> FALSE]]
  /\ upload = [i \in Imports |-> NoUpload]
  /\ progress = [i \in Imports |-> AtStart]
  /\ sku = [p \in Products |-> Unmade]
  /\ asset = [g \in Images |-> NoAsset]
  /\ object = [g \in Images |-> {}]
  /\ drawn = [g \in Images |-> 0]
  /\ removal = [g \in Images |-> "none"]
  /\ delivered = [l \in Letters |-> 0]
  /\ outage = FALSE

importVars == <<upload, progress, sku>>
imageVars == <<asset, object, drawn, removal>>

-----------------------------------------------------------------------------
(***************************************************************************)
(* The queue.                                                              *)
(***************************************************************************)
Add(j) == job[j].state = "none" /\ job' = [job EXCEPT ![j].state = "waiting"]
Active(j) == job[j].state = "active"
Take(j) == job[j].state = "waiting" /\ job' = [job EXCEPT ![j].state = "active"]
Done(j) == job' = [job EXCEPT ![j].state = "completed"]

Throw(j) ==
  job' = [job EXCEPT ![j].made = @ + 1,
                     ![j].state = IF job[j].made + 1 < Tries THEN "waiting" ELSE "failed"]

\* A worker dies; a job that has stalled before is given up.
Stall(j) ==
  /\ Active(j)
  /\ job' = [job EXCEPT ![j].stalled = TRUE,
                        ![j].state = IF job[j].stalled THEN "failed" ELSE "waiting"]
  /\ UNCHANGED <<importVars, imageVars, delivered, outage>>

-----------------------------------------------------------------------------
(***************************************************************************)
(* Imports, one at a time.                                                 *)
(***************************************************************************)
OthersIdle == <<imageVars, delivered, outage>>

\* enqueue: the row, and in a call of its own its job, or a crash between.
SubmitImport(i, file, dryRun, updateExisting) ==
  /\ upload[i] = NoUpload
  /\ upload' = [upload EXCEPT ![i] =
       [status |-> "QUEUED", dryRun |-> dryRun, updateExisting |-> updateExisting,
        file |-> file, results |-> <<>>]]
  /\ UNCHANGED <<job, progress, sku, OthersIdle>>

QueueImport(i) ==
  /\ upload[i].status = "QUEUED"
  /\ Add(i)
  /\ UNCHANGED <<importVars, OthersIdle>>

OnlyWhileQueued(status) == status # "QUEUED"         \* mutant: RUNNING is left alone
UnlessCompleted(status) == status = "COMPLETED"      \* mutant: FAILED starts over
alreadyFinished(status) == status \in {"COMPLETED", "FAILED"}

\* run, up to its first row.
StartImport(i) ==
  /\ job[i].state = "waiting"
  /\ \A k \in Imports : ~Active(k)
  /\ \/ /\ alreadyFinished(upload[i].status)
        /\ Done(i)
        /\ UNCHANGED <<upload, progress>>
     \/ /\ ~alreadyFinished(upload[i].status)
        /\ Take(i)
        /\ upload' = [upload EXCEPT ![i].status = "RUNNING"]
        /\ progress' = [progress EXCEPT ![i] = AtStart]
  /\ UNCHANGED <<sku, OthersIdle>>

Row(i) == Len(progress[i].results) + 1
RowSku(i) == upload[i].file[Row(i)]
Working(i) == Active(i) /\ Row(i) <= Len(upload[i].file)
Tell(i, outcome) ==
  progress' = [progress EXCEPT ![i] = [results |-> Append(@.results, outcome), read |-> Unread]]

\* applyRows: a row that is malformed or names no category.
RefuseRow(i) ==
  /\ Working(i)
  /\ progress[i].read = Unread
  /\ Tell(i, "failed")
  /\ UNCHANGED <<job, upload, sku, OthersIdle>>

\* What is there already is skipped unless it may be updated; a dry run says
\* what it would do.
ReadRow(i) ==
  /\ Working(i)
  /\ progress[i].read = Unread
  /\ LET known == sku[RowSku(i)] # Unmade
     IN  \/ /\ known /\ ~upload[i].updateExisting
            /\ Tell(i, "skipped")
         \/ /\ ~known \/ upload[i].updateExisting
            /\ upload[i].dryRun
            /\ Tell(i, IF known THEN "updated" ELSE "created")
         \/ /\ ~known \/ upload[i].updateExisting
            /\ ~upload[i].dryRun
            /\ progress' = [progress EXCEPT ![i].read = IF known THEN "known" ELSE "new"]
  /\ UNCHANGED <<job, upload, sku, OthersIdle>>

WriteOver(i) ==                          \* mutant: an upsert
  /\ Working(i)
  /\ progress[i].read # Unread
  /\ sku' = [sku EXCEPT ![RowSku(i)] =
       [madeBy |-> IF @ = Unmade THEN i ELSE @.madeBy, writtenBy |-> i]]
  /\ Tell(i, IF progress[i].read = "new" THEN "created" ELSE "updated")
  /\ UNCHANGED <<job, upload, OthersIdle>>
\* Someone may have made it meanwhile: the index on sku refuses the row, or any
\* other error does.
WriteRow(i) ==
  /\ Working(i)
  /\ progress[i].read # Unread
  /\ LET p == RowSku(i)
     IN  \/ /\ progress[i].read = "new" /\ sku[p] = Unmade
            /\ sku' = [sku EXCEPT ![p] = [madeBy |-> i, writtenBy |-> i]]
            /\ Tell(i, "created")
         \/ /\ progress[i].read = "known"
            /\ sku' = [sku EXCEPT ![p].writtenBy = i]
            /\ Tell(i, "updated")
         \/ /\ Tell(i, "failed")
            /\ UNCHANGED sku
  /\ UNCHANGED <<job, upload, OthersIdle>>

FinishImport(i) ==
  /\ Active(i)
  /\ Row(i) > Len(upload[i].file)
  /\ upload' = [upload EXCEPT ![i].status = "COMPLETED", ![i].results = progress[i].results]
  /\ Done(i)
  /\ UNCHANGED <<progress, sku, OthersIdle>>

\* A query fails between rows: recorded if the database can be, and rethrown.
FailImport(i) ==
  /\ Active(i)
  /\ \/ /\ upload' = [upload EXCEPT ![i].status = "FAILED"]
        /\ UNCHANGED outage
     \/ /\ outage' = TRUE
        /\ UNCHANGED upload
  /\ Throw(i)
  /\ UNCHANGED <<progress, sku, imageVars, delivered>>

\* products.create, in the meantime.
CreateByHand(p) ==
  /\ sku[p] = Unmade
  /\ sku' = [sku EXCEPT ![p] = [madeBy |-> "hand", writtenBy |-> "hand"]]
  /\ UNCHANGED <<job, upload, progress, OthersIdle>>

-----------------------------------------------------------------------------
(***************************************************************************)
(* Images.                                                                 *)
(***************************************************************************)
OthersStill == <<importVars, delivered>>

\* attachAsset, of a file that was uploaded.
AttachAsset(g, target, huge) ==
  /\ asset[g] = NoAsset
  /\ removal[g] = "none"
  /\ asset' = [asset EXCEPT ![g] = [status |-> "PENDING", target |-> target, huge |-> huge]]
  /\ object' = [object EXCEPT ![g] = {"original"}]
  /\ UNCHANGED <<job, drawn, removal, outage, OthersStill>>

\* enqueue: its failure is logged and forgotten.
QueueImage(g) ==
  /\ object[g] # {}
  /\ Add(g)
  /\ UNCHANGED <<imageVars, outage, OthersStill>>

\* generate: of a row that is still there and not too big to decode.
StartImage(g) ==
  /\ job[g].state = "waiting"
  /\ \/ /\ asset[g] = NoAsset
        /\ Done(g)
        /\ UNCHANGED asset
     \/ /\ asset[g] # NoAsset
        /\ asset[g].huge
        /\ asset' = [asset EXCEPT ![g].status = "FAILED"]
        /\ Done(g)
     \/ /\ asset[g] # NoAsset
        /\ ~asset[g].huge
        /\ Take(g)
        /\ UNCHANGED asset
  /\ drawn' = [drawn EXCEPT ![g] = 0]
  /\ UNCHANGED <<object, removal, outage, OthersStill>>

\* The original is read, and each picture stored in turn.
PutObject(g) ==
  /\ Active(g)
  /\ \/ drawn[g] = 0 /\ "original" \in object[g] /\ object' = [object EXCEPT ![g] = @ \cup {"thumb"}]
     \/ drawn[g] = 1 /\ object' = [object EXCEPT ![g] = @ \cup {"preview"}]
  /\ drawn' = [drawn EXCEPT ![g] = @ + 1]
  /\ UNCHANGED <<job, asset, removal, outage, OthersStill>>

DrawnOne(g) == drawn[g] >= 1             \* mutant: READY with the first of the two
DrawnAll(g) == drawn[g] = 2

FinishImage(g) ==
  /\ Active(g)
  /\ DrawnAll(g)
  /\ asset[g] # NoAsset
  /\ asset' = [asset EXCEPT ![g].status = "READY"]
  /\ Done(g)
  /\ UNCHANGED <<object, drawn, removal, outage, OthersStill>>

\* fail, and rethrown; a row removed meanwhile can only be rethrown about.
FailImage(g) ==
  /\ Active(g)
  /\ \/ /\ asset[g] # NoAsset
        /\ asset' = [asset EXCEPT ![g].status = "FAILED"]
        /\ UNCHANGED outage
     \/ /\ asset[g] = NoAsset
        /\ UNCHANGED <<asset, outage>>
     \/ /\ outage' = TRUE
        /\ UNCHANGED asset
  /\ Throw(g)
  /\ UNCHANGED <<object, drawn, removal, OthersStill>>

\* removeAsset: the row, and for a product then what is stored, as far as it can
\* be and as far as the row that was read says it is there.
RemoveAsset(g) ==
  /\ \/ /\ asset[g] # NoAsset
        /\ asset' = [asset EXCEPT ![g] = NoAsset]
        /\ removal' = [removal EXCEPT ![g] =
             IF asset[g].target = "TEMPLATE" THEN "done"
             ELSE IF asset[g].status = "READY" THEN "objects" ELSE "row"]
        /\ UNCHANGED object
     \/ /\ removal[g] \in {"row", "objects"}
        /\ \E gone \in SUBSET IF removal[g] = "row" THEN {"original"} ELSE object[g] :
             object' = [object EXCEPT ![g] = @ \ gone]
        /\ removal' = [removal EXCEPT ![g] = "done"]
        /\ UNCHANGED asset
  /\ UNCHANGED <<job, drawn, outage, OthersStill>>

-----------------------------------------------------------------------------
(***************************************************************************)
(* Mail.                                                                   *)
(***************************************************************************)
QueueLetter(l) == Add(l) /\ UNCHANGED <<delivered, importVars, imageVars, outage>>
TakeLetter(l) == Take(l) /\ UNCHANGED <<delivered, importVars, imageVars, outage>>

\* process: the letter is out before the queue hears of it; a worker that dies
\* in between is one whose job stalls.
SendLetter(l) ==
  /\ Active(l)
  /\ delivered[l] < 2
  /\ delivered' = [delivered EXCEPT ![l] = @ + 1]
  /\ \/ Done(l)
     \/ job' = [job EXCEPT ![l].stalled = TRUE,
                           ![l].state = IF job[l].stalled THEN "failed" ELSE "waiting"]
  /\ UNCHANGED <<importVars, imageVars, outage>>

FailLetter(l) ==
  /\ Active(l)
  /\ Throw(l)
  /\ UNCHANGED <<delivered, importVars, imageVars, outage>>

-----------------------------------------------------------------------------
ImportStep(i) == StartImport(i) \/ ReadRow(i) \/ WriteRow(i) \/ FinishImport(i)
ImageStep(g) == StartImage(g) \/ PutObject(g) \/ FinishImage(g) \/ FailImage(g)
LetterStep(l) == TakeLetter(l) \/ SendLetter(l) \/ FailLetter(l)

BackgroundNext ==
  \/ \E i \in Imports :
       \/ \E file \in Files, dryRun, updateExisting \in BOOLEAN :
            SubmitImport(i, file, dryRun, updateExisting)
       \/ QueueImport(i) \/ RefuseRow(i) \/ FailImport(i) \/ Stall(i) \/ ImportStep(i)
  \/ \E p \in Products : CreateByHand(p)
  \/ \E g \in Images :
       \/ \E target \in {"PRODUCT", "TEMPLATE"}, huge \in BOOLEAN : AttachAsset(g, target, huge)
       \/ QueueImage(g) \/ RemoveAsset(g) \/ Stall(g) \/ ImageStep(g)
  \/ \E l \in Letters : QueueLetter(l) \/ Stall(l) \/ LetterStep(l)

\* The workers keep polling their queues (BullMQ), so a job that can be taken or
\* carried on is, in the end; nothing is assumed of requests, errors or crashes.
Workers ==
  /\ \A i \in Imports : WF_backgroundVars(ImportStep(i))
  /\ \A g \in Images : WF_backgroundVars(ImageStep(g))
  /\ \A l \in Letters : WF_backgroundVars(LetterStep(l))

BackgroundSpec == BackgroundInit /\ [][BackgroundNext]_backgroundVars /\ Workers

-----------------------------------------------------------------------------
(***************************************************************************)
(* Work that reached a queue comes to an end that is on record: an import  *)
(* is reported on, an image leaves PENDING or is removed, a letter is sent *)
(* or given up.  Not if a worker dies on it twice, which leaves an import  *)
(* "visibly stuck" (product-import.service.ts:154), or the database is     *)
(* away when the failure is to be recorded.                                *)
(***************************************************************************)
GivenUp(j) == job[j].state = "failed" /\ job[j].stalled
EverythingEnds ==
  /\ \A i \in Imports :
       job[i].state = "waiting"
         ~> (upload[i].status \in {"COMPLETED", "FAILED"} \/ GivenUp(i) \/ outage)
  /\ \A g \in Images :
       job[g].state = "waiting" ~> (asset[g].status # "PENDING" \/ GivenUp(g) \/ outage)
  /\ \A l \in Letters : job[l].state = "waiting" ~> job[l].state \in {"completed", "failed"}

(***************************************************************************)
(* An import tells the truth about the catalogue: a finished one that was  *)
(* delivered once made exactly the products it says it made, whoever else  *)
(* was making them; none ever writes a product it did not make unless told *)
(* it may, and a preview writes nothing (product-import.service.ts:58).    *)
(***************************************************************************)
ReportsTellCatalogue ==
  \A i \in Imports, p \in Products :
    LET u == upload[i]
        says(outcome) == \E n \in DOMAIN u.results :
                           u.file[n] = p /\ u.results[n] = outcome
    IN  /\ u.status = "COMPLETED" /\ ~u.dryRun /\ ~job[i].stalled /\ ~outage =>
             (says("created") <=> sku[p] # Unmade /\ sku[p].madeBy = i)
        /\ sku[p] # Unmade /\ sku[p].writtenBy = i =>
             ~u.dryRun /\ (u.updateExisting \/ sku[p].madeBy = i)

(***************************************************************************)
(* A picture that is offered is there: whatever the worker and a removal   *)
(* do at once, a READY row has every object it names (generate,            *)
(* asset-derivative.service.ts; removeAsset, products.service.ts).         *)
(***************************************************************************)
ReadyHasPictures ==
  \A g \in Images : asset[g].status = "READY" => object[g] = {"original", "thumb", "preview"}

(***************************************************************************)
(* Uploading a file yields one report (ImportReport): whatever retries,    *)
(* stalls and crashes the queue makes of the job.                          *)
(***************************************************************************)
Reported == INSTANCE ImportReport WITH
  Uploads <- Imports,
  status <- [i \in Imports |-> upload[i].status],
  results <- [i \in Imports |-> upload[i].results]
KeepsReports == Reported!ReportSpec

(***************************************************************************)
(* What the portal says of finished work is so: a report names the         *)
(* products its import made, and a picture offered is stored               *)
(* (product-import.service.ts, asset-derivative.service.ts).               *)
(***************************************************************************)
RecordsTellTruth == ReportsTellCatalogue /\ ReadyHasPictures
=============================================================================
