-------------------------- MODULE BackgroundProofs --------------------------
(***************************************************************************)
(* Proofs about work done off the request, for any number of imports,      *)
(* images and letters, files of any length and any number of attempts: the *)
(* safety part of what Background promises, and that it implements         *)
(* ImportReport; and about reports over any number of orders, branches,    *)
(* viewers and queries.  That work comes to an end stays with TLC.         *)
(***************************************************************************)
EXTENDS Background, Reports, Sums

\* A job that may still run has an attempt left.
AttemptsLeft == \A j \in Jobs : job[j].state \in {"none", "waiting", "active"} => job[j].made < Tries

\* What an import says of its rows is what it made.
Tells(i, results) ==
  \A p \in Products :
    (\E n \in DOMAIN results : upload[i].file[n] = p /\ results[n] = "created")
      <=> sku[p].madeBy = i

\* An import's worker and its row in step.  It is RUNNING while its job is
\* active, and only a death or a failure nobody could record parts them.
InStep(i) ==
  /\ job[i].state # "none" => upload[i] # NoUpload
  /\ Active(i) => upload[i].status = "RUNNING"
  /\ upload[i].status = "RUNNING" /\ ~job[i].stalled /\ ~outage => Active(i)

\* What a row was read to be still is, and the import may write it.
ReadIsSo(i) ==
  progress[i].read # Unread =>
    /\ upload[i] # NoUpload /\ ~upload[i].dryRun
    /\ progress[i].read = "known" =>
         /\ upload[i].updateExisting
         /\ Row(i) <= Len(upload[i].file) /\ sku[RowSku(i)] # Unmade

TellsSoFar(i) ==
  /\ upload[i].status \in {"NONE", "QUEUED"} =>
       \A p \in Products : sku[p].madeBy # i /\ sku[p].writtenBy # i
  /\ upload[i].status = "RUNNING" /\ ~upload[i].dryRun /\ ~job[i].stalled /\ ~outage =>
       Tells(i, progress[i].results)
  /\ upload[i].status = "COMPLETED" /\ ~upload[i].dryRun /\ ~job[i].stalled /\ ~outage =>
       Tells(i, upload[i].results)
  /\ \A p \in Products :
       sku[p].writtenBy = i =>
         ~upload[i].dryRun /\ (upload[i].updateExisting \/ sku[p].madeBy = i)

ImportInv(i) == InStep(i) /\ ReadIsSo(i) /\ TellsSoFar(i)

\* A picture was stored for each that was drawn, and nothing stored is removed
\* while the row is there; a row removed does not come back.
ImageInv(g) ==
  /\ asset[g] # NoAsset =>
       /\ removal[g] = "none" /\ "original" \in object[g]
       /\ drawn[g] >= 1 => "thumb" \in object[g]
       /\ drawn[g] = 2 => "preview" \in object[g]
  /\ asset[g].status = "READY" => {"thumb", "preview"} \subseteq object[g]
  /\ asset[g] = NoAsset /\ removal[g] = "none" =>
       object[g] = {} /\ drawn[g] = 0 /\ job[g].state = "none"

BackgroundInv ==
  /\ BackgroundTypeOK /\ AttemptsLeft
  /\ \A i \in Imports : ImportInv(i)
  /\ \A g \in Images : ImageInv(g)

-----------------------------------------------------------------------------
(***************************************************************************)
(* Rows and jobs.                                                          *)
(***************************************************************************)
LEMMA BackgroundRows ==
  ASSUME BackgroundTypeOK
  PROVE  /\ NoUpload \notin Upload /\ NoAsset \notin Asset /\ Unmade \notin Sku
         /\ \A i \in Imports : upload[i] # NoUpload <=> upload[i] \in Upload
         /\ \A i \in Imports : upload[i].status = "NONE" <=> upload[i] = NoUpload
         /\ \A g \in Images : asset[g] # NoAsset <=> asset[g] \in Asset
         /\ \A p \in Products : sku[p] # Unmade <=> sku[p] \in Sku
<1>1. NoUpload \notin Upload /\ NoAsset \notin Asset
  BY DEF NoUpload, Upload, NoAsset, Asset
<1>2. Unmade \notin Sku
  BY QueuesAssumption DEF Unmade, Sku
<1>3. \A i \in Imports : upload[i].status = "NONE" <=> upload[i] = NoUpload
  BY DEF BackgroundTypeOK, NoUpload, Upload
<1> QED
  BY <1>1, <1>2, <1>3 DEF BackgroundTypeOK

\* One job moves, the others stay.
LEMMA JobMoves ==
  ASSUME BackgroundTypeOK, AttemptsLeft, NEW j \in Jobs, NEW new \in Job,
         job' = [job EXCEPT ![j] = new],
         new.state \in {"none", "waiting", "active"} => new.made < Tries
  PROVE  /\ job' \in [Jobs -> Job] /\ AttemptsLeft'
         /\ job'[j] = new
         /\ \A k \in Jobs : k # j => job'[k] = job[k]
<1>1. job' \in [Jobs -> Job] /\ \A k \in Jobs : job'[k] = IF k = j THEN new ELSE job[k]
  BY DEF BackgroundTypeOK
<1> QED
  BY <1>1 DEF AttemptsLeft

Kept(j) ==
  /\ job' \in [Jobs -> Job] /\ AttemptsLeft'
  /\ \A k \in Jobs : k # j => job'[k] = job[k]

LEMMA AddMoves ==
  ASSUME BackgroundTypeOK, AttemptsLeft, NEW j \in Jobs, Add(j)
  PROVE  Kept(j) /\ job'[j].state = "waiting" /\ job'[j].stalled = job[j].stalled
<1> DEFINE old == job[j]
           new == [old EXCEPT !.state = "waiting"]
<1>0. old \in Job /\ (old.state \in {"none", "waiting", "active"} => old.made < Tries)
  BY DEF BackgroundTypeOK, AttemptsLeft
<1>1. /\ new \in Job /\ new.made = old.made /\ new.state = "waiting"
      /\ new.stalled = old.stalled /\ old.state = "none"
  BY <1>0 DEF Job, Add
<1>2. job' = [job EXCEPT ![j] = new]
  BY DEF BackgroundTypeOK, Add
<1>3. new.made < Tries
  BY <1>0, <1>1
<1> HIDE DEF new
<1> QED
  BY <1>1, <1>2, <1>3, JobMoves DEF Kept

LEMMA TakeMoves ==
  ASSUME BackgroundTypeOK, AttemptsLeft, NEW j \in Jobs, Take(j)
  PROVE  Kept(j) /\ job'[j].state = "active" /\ job'[j].stalled = job[j].stalled
<1> DEFINE old == job[j]
           new == [old EXCEPT !.state = "active"]
<1>0. old \in Job /\ (old.state \in {"none", "waiting", "active"} => old.made < Tries)
  BY DEF BackgroundTypeOK, AttemptsLeft
<1>1. /\ new \in Job /\ new.made = old.made /\ new.state = "active"
      /\ new.stalled = old.stalled /\ old.state = "waiting"
  BY <1>0 DEF Job, Take
<1>2. job' = [job EXCEPT ![j] = new]
  BY DEF BackgroundTypeOK, Take
<1>3. new.made < Tries
  BY <1>0, <1>1
<1> HIDE DEF new
<1> QED
  BY <1>1, <1>2, <1>3, JobMoves DEF Kept

LEMMA DoneMoves ==
  ASSUME BackgroundTypeOK, AttemptsLeft, NEW j \in Jobs, Done(j)
  PROVE  Kept(j) /\ job'[j].state = "completed" /\ job'[j].stalled = job[j].stalled
<1> DEFINE old == job[j]
           new == [old EXCEPT !.state = "completed"]
<1>0. old \in Job
  BY DEF BackgroundTypeOK
<1>1. /\ new \in Job /\ new.state = "completed" /\ new.stalled = old.stalled
  BY <1>0 DEF Job
<1>2. job' = [job EXCEPT ![j] = new]
  BY DEF BackgroundTypeOK, Done
<1> HIDE DEF new
<1> QED
  BY <1>1, <1>2, JobMoves DEF Kept

LEMMA ThrowMoves ==
  ASSUME BackgroundTypeOK, AttemptsLeft, NEW j \in Jobs, Active(j), Throw(j)
  PROVE  Kept(j) /\ job'[j].state \in {"waiting", "failed"} /\ job'[j].stalled = job[j].stalled
<1> DEFINE old == job[j]
           new == [old EXCEPT !.made = @ + 1,
                     !.state = IF old.made + 1 < Tries THEN "waiting" ELSE "failed"]
<1>0. old \in Job /\ old.made < Tries
  BY DEF BackgroundTypeOK, AttemptsLeft, Active
<1>1. old.made \in Nat /\ old.made + 1 \in 0..Tries
  BY <1>0, TriesAssumption DEF Job
<1>2. /\ new \in Job /\ new.made = old.made + 1 /\ new.stalled = old.stalled
      /\ new.state = IF old.made + 1 < Tries THEN "waiting" ELSE "failed"
  BY <1>0, <1>1 DEF Job
<1>3. job' = [job EXCEPT ![j] = new]
  BY DEF BackgroundTypeOK, Throw
<1>4. /\ new.state \in {"none", "waiting", "active"} => new.made < Tries
      /\ new.state \in {"waiting", "failed"}
  BY <1>2
<1> HIDE DEF new
<1> QED
  BY <1>2, <1>3, <1>4, JobMoves DEF Kept

Dies(j) ==
  job' = [job EXCEPT ![j].stalled = TRUE,
                     ![j].state = IF job[j].stalled THEN "failed" ELSE "waiting"]
LEMMA DeathMoves ==
  ASSUME BackgroundTypeOK, AttemptsLeft, NEW j \in Jobs, Active(j), Dies(j)
  PROVE  Kept(j) /\ job'[j].state \in {"waiting", "failed"} /\ job'[j].stalled
<1> DEFINE old == job[j]
           new == [old EXCEPT !.stalled = TRUE,
                     !.state = IF old.stalled THEN "failed" ELSE "waiting"]
<1>0. old \in Job /\ old.made < Tries
  BY DEF BackgroundTypeOK, AttemptsLeft, Active
<1>1. /\ new \in Job /\ new.made = old.made /\ new.stalled = TRUE
      /\ new.state \in {"waiting", "failed"}
  BY <1>0 DEF Job
<1>2. job' = [job EXCEPT ![j] = new]
  BY DEF BackgroundTypeOK, Dies
<1>3. new.made < Tries
  BY <1>0, <1>1
<1> HIDE DEF new
<1> QED
  BY <1>1, <1>2, <1>3, JobMoves DEF Kept

-----------------------------------------------------------------------------
(***************************************************************************)
(* What one step leaves of the others.                                     *)
(***************************************************************************)
LEMMA JobsStay ==
  ASSUME BackgroundTypeOK, AttemptsLeft, UNCHANGED job, NEW j \in Jobs
  PROVE  Kept(j)
BY DEF Kept, BackgroundTypeOK, AttemptsLeft

\* A worker's next row is one of its file.
LEMMA RowIsOfFile ==
  ASSUME BackgroundTypeOK, NEW i \in Imports, upload[i] # NoUpload, Row(i) <= Len(upload[i].file)
  PROVE  RowSku(i) \in Products
<1>1. upload[i] \in Upload /\ progress[i] \in Progress
  BY BackgroundRows DEF BackgroundTypeOK
<1>2. upload[i].file \in Seq(Products)
  BY <1>1, FilesAssumption DEF Upload
<1>3. progress[i].results \in Seq(Outcomes)
  BY <1>1 DEF Progress
<1>4. Row(i) \in 1..Len(upload[i].file)
  BY <1>2, <1>3 DEF Row
<1> QED
  BY <1>2, <1>4 DEF RowSku

\* A row of the catalogue is at most made, or written by another import.
LEMMA OtherImport ==
  ASSUME BackgroundTypeOK, NEW k \in Imports, ImportInv(k),
         job'[k] = job[k], upload'[k] = upload[k], progress'[k] = progress[k],
         outage => outage',
         \A p \in Products : /\ sku'[p].madeBy = k <=> sku[p].madeBy = k
                             /\ sku'[p].writtenBy = k => sku[p].writtenBy = k
                             /\ sku[p] # Unmade => sku'[p] # Unmade
  PROVE  ImportInv(k)'
<1>1. InStep(k)'
  BY DEF ImportInv, InStep, Active
<1>2. ReadIsSo(k)'
  BY RowIsOfFile DEF ImportInv, ReadIsSo, Row, RowSku
<1>3. \A results : Tells(k, results) => Tells(k, results)'
  BY DEF Tells
<1>4. TellsSoFar(k)'
  BY <1>3 DEF ImportInv, TellsSoFar, Tells
<1> QED
  BY <1>1, <1>2, <1>4 DEF ImportInv

LEMMA OneImportMoves ==
  ASSUME BackgroundInv, NEW i \in Imports, Kept(i),
         upload' \in [Imports -> Upload \cup {NoUpload}],
         \A k \in Imports : k # i => upload'[k] = upload[k],
         progress' \in [Imports -> Progress],
         \A k \in Imports : k # i => progress'[k] = progress[k],
         sku' \in [Products -> Sku \cup {Unmade}],
         \A p \in Products :
           sku'[p] = sku[p] \/ /\ sku'[p] # Unmade /\ sku'[p].writtenBy = i
                               /\ sku'[p].madeBy \in {sku[p].madeBy, i}
                               /\ sku'[p].madeBy = i => sku[p].madeBy \in {i, "nobody"},
         UNCHANGED <<imageVars, delivered>>, outage' \in BOOLEAN, outage => outage',
         ImportInv(i)'
  PROVE  BackgroundInv'
<1>1. BackgroundTypeOK' /\ AttemptsLeft'
  BY DEF BackgroundInv, BackgroundTypeOK, Kept, imageVars
<1>2. \A k \in Imports : ImportInv(k)'
  <2> SUFFICES ASSUME NEW k \in Imports, k # i PROVE ImportInv(k)'
    OBVIOUS
  <2>1. \A p \in Products : /\ sku'[p].madeBy = k <=> sku[p].madeBy = k
                            /\ sku'[p].writtenBy = k => sku[p].writtenBy = k
                            /\ sku[p] # Unmade => sku'[p] # Unmade
    BY QueuesAssumption
  <2>2. job'[k] = job[k] /\ ImportInv(k) /\ BackgroundTypeOK
    BY DEF Kept, Jobs, BackgroundInv
  <2> QED
    BY <2>1, <2>2, OtherImport
<1>3. \A g \in Images : ImageInv(g)'
  <2> SUFFICES ASSUME NEW g \in Images PROVE ImageInv(g)'
    OBVIOUS
  <2>1. job'[g] = job[g] /\ ImageInv(g)
    BY QueuesAssumption DEF Kept, Jobs, BackgroundInv
  <2> QED
    BY <2>1 DEF ImageInv, imageVars
<1> QED
  BY <1>1, <1>2, <1>3 DEF BackgroundInv

LEMMA OneImageMoves ==
  ASSUME BackgroundInv, NEW g \in Images, Kept(g),
         asset' \in [Images -> Asset \cup {NoAsset}],
         object' \in [Images -> SUBSET {"original", "thumb", "preview"}],
         drawn' \in [Images -> 0..2],
         removal' \in [Images -> {"none", "row", "objects", "done"}],
         \A k \in Images : k # g => /\ asset'[k] = asset[k] /\ object'[k] = object[k]
                                    /\ drawn'[k] = drawn[k] /\ removal'[k] = removal[k],
         UNCHANGED <<importVars, delivered>>, outage' \in BOOLEAN, outage => outage',
         ImageInv(g)'
  PROVE  BackgroundInv'
<1>1. BackgroundTypeOK' /\ AttemptsLeft'
  BY DEF BackgroundInv, BackgroundTypeOK, Kept, importVars
<1>2. \A k \in Imports : ImportInv(k)'
  <2> SUFFICES ASSUME NEW k \in Imports PROVE ImportInv(k)'
    OBVIOUS
  <2>1. job'[k] = job[k] /\ ImportInv(k) /\ BackgroundTypeOK
    BY QueuesAssumption DEF Kept, Jobs, BackgroundInv
  <2>2. UNCHANGED upload /\ UNCHANGED progress /\ UNCHANGED sku
    BY DEF importVars
  <2> QED
    BY <2>1, <2>2, OtherImport
<1>3. \A k \in Images : ImageInv(k)'
  <2> SUFFICES ASSUME NEW k \in Images, k # g PROVE ImageInv(k)'
    OBVIOUS
  <2>1. job'[k] = job[k] /\ ImageInv(k)
    BY DEF Kept, Jobs, BackgroundInv
  <2> QED
    BY <2>1 DEF ImageInv
<1> QED
  BY <1>1, <1>2, <1>3 DEF BackgroundInv

LEMMA OneLetterMoves ==
  ASSUME BackgroundInv, NEW l \in Letters, Kept(l), delivered' \in [Letters -> 0..2],
         UNCHANGED <<importVars, imageVars, outage>>
  PROVE  BackgroundInv'
<1>0. /\ UNCHANGED upload /\ UNCHANGED progress /\ UNCHANGED sku
      /\ UNCHANGED asset /\ UNCHANGED object /\ UNCHANGED drawn /\ UNCHANGED removal
  BY DEF importVars, imageVars
<1>1. BackgroundTypeOK' /\ AttemptsLeft'
  BY <1>0 DEF BackgroundInv, BackgroundTypeOK, Kept
<1>2. \A k \in Imports : ImportInv(k)'
  <2> SUFFICES ASSUME NEW k \in Imports PROVE ImportInv(k)'
    OBVIOUS
  <2>1. job'[k] = job[k] /\ ImportInv(k) /\ BackgroundTypeOK
    BY QueuesAssumption DEF Kept, Jobs, BackgroundInv
  <2> QED
    BY <1>0, <2>1, OtherImport
<1>3. \A k \in Images : ImageInv(k)'
  <2> SUFFICES ASSUME NEW k \in Images PROVE ImageInv(k)'
    OBVIOUS
  <2>1. job'[k] = job[k] /\ ImageInv(k)
    BY QueuesAssumption DEF Kept, Jobs, BackgroundInv
  <2> QED
    BY <1>0, <2>1 DEF ImageInv
<1> QED
  BY <1>1, <1>2, <1>3 DEF BackgroundInv

-----------------------------------------------------------------------------
(***************************************************************************)
(* Letters.                                                                *)
(***************************************************************************)
LEMMA LetterStepKeeps ==
  ASSUME BackgroundInv, NEW l \in Letters,
         QueueLetter(l) \/ Stall(l) \/ LetterStep(l)
  PROVE  BackgroundInv'
<1>0. /\ BackgroundTypeOK /\ AttemptsLeft /\ l \in Jobs /\ delivered \in [Letters -> 0..2]
      /\ UNCHANGED <<importVars, imageVars, outage>>
  BY DEF BackgroundInv, BackgroundTypeOK, Jobs, QueueLetter, Stall, LetterStep, TakeLetter,
         SendLetter, FailLetter
<1>1. Kept(l)
  <2>1. CASE QueueLetter(l)
    BY <1>0, <2>1, AddMoves DEF QueueLetter
  <2>2. CASE Stall(l)
    BY <1>0, <2>2, DeathMoves DEF Stall, Dies
  <2>3. CASE TakeLetter(l)
    BY <1>0, <2>3, TakeMoves DEF TakeLetter
  <2>4. CASE SendLetter(l)
    BY <1>0, <2>4, DoneMoves, DeathMoves DEF SendLetter, Dies
  <2>5. CASE FailLetter(l)
    BY <1>0, <2>5, ThrowMoves DEF FailLetter
  <2> QED
    BY <2>1, <2>2, <2>3, <2>4, <2>5 DEF LetterStep
<1>2. delivered' \in [Letters -> 0..2]
  <2>1. CASE SendLetter(l)
    <3>1. delivered[l] + 1 \in 0..2
      BY <1>0, <2>1 DEF SendLetter
    <3> QED
      BY <1>0, <2>1, <3>1 DEF SendLetter
  <2>2. CASE ~SendLetter(l)
    BY <1>0, <2>2 DEF QueueLetter, Stall, LetterStep, TakeLetter, FailLetter
  <2> QED
    BY <2>1, <2>2
<1> QED
  BY <1>0, <1>1, <1>2, OneLetterMoves

-----------------------------------------------------------------------------
(***************************************************************************)
(* Images.                                                                 *)
(***************************************************************************)
ImageTypes ==
  /\ asset' \in [Images -> Asset \cup {NoAsset}]
  /\ object' \in [Images -> SUBSET {"original", "thumb", "preview"}]
  /\ drawn' \in [Images -> 0..2]
  /\ removal' \in [Images -> {"none", "row", "objects", "done"}]
OtherImagesStay(g) ==
  \A k \in Images : k # g => /\ asset'[k] = asset[k] /\ object'[k] = object[k]
                             /\ drawn'[k] = drawn[k] /\ removal'[k] = removal[k]
ImageMoved(g) ==
  /\ Kept(g) /\ ImageTypes /\ OtherImagesStay(g) /\ UNCHANGED <<importVars, delivered>>
  /\ outage' \in BOOLEAN /\ (outage => outage') /\ ImageInv(g)'

\* What a worker writes of a row is its status.
LEMMA StatusOfAsset ==
  ASSUME BackgroundTypeOK, NEW g \in Images, asset[g] # NoAsset,
         NEW status \in {"PENDING", "READY", "FAILED"},
         asset' = [asset EXCEPT ![g].status = status]
  PROVE  /\ asset' \in [Images -> Asset \cup {NoAsset}]
         /\ asset'[g] \in Asset /\ asset'[g].status = status
         /\ \A k \in Images : k # g => asset'[k] = asset[k]
<1> DEFINE new == [asset[g] EXCEPT !.status = status]
<1>1. asset \in [Images -> Asset \cup {NoAsset}] /\ asset[g] \in Asset
  BY BackgroundRows DEF BackgroundTypeOK
<1>2. new \in Asset /\ new.status = status
  BY <1>1 DEF Asset
<1>3. asset' = [asset EXCEPT ![g] = new]
  BY <1>1
<1> HIDE DEF new
<1> QED
  BY <1>1, <1>2, <1>3

LEMMA NoAssetStatus ==
  ASSUME BackgroundTypeOK
  PROVE  NoAsset \notin Asset /\ NoAsset.status = "NONE"
BY BackgroundRows DEF NoAsset

LEMMA AttachAssetKeeps ==
  ASSUME BackgroundInv, NEW g \in Images, NEW target \in {"PRODUCT", "TEMPLATE"},
         NEW huge \in BOOLEAN, AttachAsset(g, target, huge)
  PROVE  ImageMoved(g)
<1> DEFINE new == [status |-> "PENDING", target |-> target, huge |-> huge]
<1>0. BackgroundTypeOK /\ AttemptsLeft /\ g \in Jobs /\ ImageInv(g)
  BY DEF BackgroundInv, Jobs
<1>1. new \in Asset /\ new.status = "PENDING" /\ NoAsset \notin Asset
  BY <1>0, BackgroundRows DEF Asset
<1>2. asset' = [asset EXCEPT ![g] = new] /\ object' = [object EXCEPT ![g] = {"original"}]
  BY DEF AttachAsset
<1> HIDE DEF new
<1>3. /\ asset'[g] = new /\ object'[g] = {"original"} /\ drawn'[g] = drawn[g]
      /\ removal'[g] = removal[g]
  BY <1>0, <1>2 DEF BackgroundTypeOK, AttachAsset
<1>4. ImageInv(g)'
  BY <1>0, <1>1, <1>3 DEF ImageInv, AttachAsset
<1>5. ImageTypes /\ OtherImagesStay(g)
  BY <1>0, <1>1, <1>2 DEF BackgroundTypeOK, AttachAsset, ImageTypes, OtherImagesStay
<1> QED
  BY <1>0, <1>4, <1>5, JobsStay DEF AttachAsset, OthersStill, ImageMoved, BackgroundTypeOK

LEMMA ImageFacts ==
  ASSUME BackgroundInv, NEW g \in Images
  PROVE  /\ BackgroundTypeOK /\ AttemptsLeft /\ g \in Jobs /\ ImageInv(g)
         /\ asset \in [Images -> Asset \cup {NoAsset}]
         /\ object \in [Images -> SUBSET {"original", "thumb", "preview"}]
         /\ drawn \in [Images -> 0..2]
         /\ removal \in [Images -> {"none", "row", "objects", "done"}]
         /\ outage \in BOOLEAN
BY DEF BackgroundInv, Jobs, BackgroundTypeOK

LEMMA QueueImageKeeps ==
  ASSUME BackgroundInv, NEW g \in Images, QueueImage(g)
  PROVE  ImageMoved(g)
<1>0. Kept(g) /\ UNCHANGED <<imageVars, outage, OthersStill>>
  BY ImageFacts, AddMoves DEF QueueImage
<1>1. ImageInv(g)'
  BY <1>0, ImageFacts DEF ImageInv, imageVars, QueueImage
<1> QED
  BY <1>0, <1>1, ImageFacts DEF ImageMoved, ImageTypes, OtherImagesStay, imageVars, OthersStill

LEMMA ImageWorkerDies ==
  ASSUME BackgroundInv, NEW g \in Images, Stall(g)
  PROVE  ImageMoved(g)
<1>0. Kept(g) /\ UNCHANGED <<importVars, imageVars, delivered, outage>>
  BY ImageFacts, DeathMoves DEF Stall, Dies
<1>1. ImageInv(g)'
  BY <1>0, ImageFacts DEF ImageInv, imageVars, Stall, Active
<1> QED
  BY <1>0, <1>1, ImageFacts DEF ImageMoved, ImageTypes, OtherImagesStay, imageVars

LEMMA StartImageKeeps ==
  ASSUME BackgroundInv, NEW g \in Images, StartImage(g)
  PROVE  ImageMoved(g)
<1>0. /\ drawn' = [drawn EXCEPT ![g] = 0] /\ drawn'[g] = 0 /\ job[g].state = "waiting"
      /\ UNCHANGED <<object, removal, outage, OthersStill>>
  BY ImageFacts DEF StartImage
<1>1. Kept(g)
  BY ImageFacts, DoneMoves, TakeMoves DEF StartImage
<1>2. /\ asset' \in [Images -> Asset \cup {NoAsset}]
      /\ \A k \in Images : k # g => asset'[k] = asset[k]
      /\ asset'[g] # NoAsset <=> asset[g] # NoAsset
      /\ asset'[g].status = asset[g].status \/ asset'[g].status = "FAILED"
  <2>1. CASE asset[g] # NoAsset /\ asset' = [asset EXCEPT ![g].status = "FAILED"]
    BY <2>1, ImageFacts, StatusOfAsset, NoAssetStatus
  <2>2. CASE UNCHANGED asset
    BY <2>2, ImageFacts
  <2> QED
    BY <2>1, <2>2 DEF StartImage
<1>3. ImageInv(g)'
  BY <1>0, <1>2, ImageFacts DEF ImageInv
<1> QED
  BY <1>0, <1>1, <1>2, <1>3, ImageFacts
  DEF ImageMoved, ImageTypes, OtherImagesStay, OthersStill

LEMMA PutObjectKeeps ==
  ASSUME BackgroundInv, NEW g \in Images, PutObject(g)
  PROVE  ImageMoved(g)
<1>0. /\ drawn' = [drawn EXCEPT ![g] = @ + 1] /\ drawn[g] \in {0, 1}
      /\ UNCHANGED <<job, asset, removal, outage, OthersStill>> /\ job[g].state = "active"
  BY ImageFacts DEF PutObject, Active
<1>1. drawn'[g] = drawn[g] + 1 /\ drawn' \in [Images -> 0..2]
  BY <1>0, ImageFacts
<1>2. \/ /\ drawn[g] = 0 /\ "original" \in object[g]
         /\ object' = [object EXCEPT ![g] = @ \cup {"thumb"}]
      \/ drawn[g] = 1 /\ object' = [object EXCEPT ![g] = @ \cup {"preview"}]
  BY DEF PutObject
<1>3. /\ object' \in [Images -> SUBSET {"original", "thumb", "preview"}]
      /\ \A k \in Images : k # g => object'[k] = object[k]
      /\ object[g] \subseteq object'[g]
      /\ drawn[g] = 0 => "thumb" \in object'[g]
      /\ drawn[g] = 1 => "preview" \in object'[g]
  BY <1>2, ImageFacts
<1>4. ImageInv(g)'
  BY <1>0, <1>1, <1>3, ImageFacts DEF ImageInv
<1> QED
  BY <1>0, <1>1, <1>3, <1>4, ImageFacts, JobsStay
  DEF ImageMoved, ImageTypes, OtherImagesStay, OthersStill

LEMMA FinishImageKeeps ==
  ASSUME BackgroundInv, NEW g \in Images, FinishImage(g)
  PROVE  ImageMoved(g)
<1>0. Kept(g) /\ UNCHANGED <<object, drawn, removal, outage, OthersStill>>
  BY ImageFacts, DoneMoves DEF FinishImage
<1>1. /\ asset' \in [Images -> Asset \cup {NoAsset}]
      /\ \A k \in Images : k # g => asset'[k] = asset[k]
      /\ asset[g] # NoAsset /\ asset'[g] # NoAsset /\ drawn[g] = 2
  BY ImageFacts, StatusOfAsset, NoAssetStatus DEF FinishImage, DrawnAll
<1>2. ImageInv(g)'
  BY <1>0, <1>1, ImageFacts DEF ImageInv
<1> QED
  BY <1>0, <1>1, <1>2, ImageFacts DEF ImageMoved, ImageTypes, OtherImagesStay, OthersStill

LEMMA FailImageKeeps ==
  ASSUME BackgroundInv, NEW g \in Images, FailImage(g)
  PROVE  ImageMoved(g)
<1>0. Kept(g) /\ job[g].state = "active" /\ UNCHANGED <<object, drawn, removal, OthersStill>>
  BY ImageFacts, ThrowMoves DEF FailImage, Active
<1>1. /\ asset' \in [Images -> Asset \cup {NoAsset}]
      /\ \A k \in Images : k # g => asset'[k] = asset[k]
      /\ asset'[g] # NoAsset <=> asset[g] # NoAsset
      /\ asset'[g].status = asset[g].status \/ asset'[g].status = "FAILED"
  <2>1. CASE asset[g] # NoAsset /\ asset' = [asset EXCEPT ![g].status = "FAILED"]
    BY <2>1, ImageFacts, StatusOfAsset, NoAssetStatus
  <2>2. CASE UNCHANGED asset
    BY <2>2, ImageFacts
  <2> QED
    BY <2>1, <2>2 DEF FailImage
<1>2. outage' \in BOOLEAN /\ (outage => outage')
  <2>1. CASE UNCHANGED outage
    BY <2>1, ImageFacts
  <2>2. CASE outage' = TRUE
    BY <2>2
  <2> QED
    BY <2>1, <2>2 DEF FailImage
<1>3. ImageInv(g)'
  BY <1>0, <1>1, ImageFacts DEF ImageInv
<1> QED
  BY <1>0, <1>1, <1>2, <1>3, ImageFacts
  DEF ImageMoved, ImageTypes, OtherImagesStay, OthersStill

LEMMA RemoveAssetKeeps ==
  ASSUME BackgroundInv, NEW g \in Images, RemoveAsset(g)
  PROVE  ImageMoved(g)
<1>0. UNCHANGED <<job, drawn, outage, OthersStill>>
  BY DEF RemoveAsset
<1>1. /\ asset' \in [Images -> Asset \cup {NoAsset}] /\ asset'[g] = NoAsset
      /\ \A k \in Images : k # g => asset'[k] = asset[k]
  BY ImageFacts DEF RemoveAsset, ImageInv
<1>2. \E to \in {"row", "objects", "done"} : removal' = [removal EXCEPT ![g] = to]
  BY DEF RemoveAsset
<1>3. /\ removal' \in [Images -> {"none", "row", "objects", "done"}] /\ removal'[g] # "none"
      /\ \A k \in Images : k # g => removal'[k] = removal[k]
  BY <1>2, ImageFacts
<1>4. /\ object' \in [Images -> SUBSET {"original", "thumb", "preview"}]
      /\ \A k \in Images : k # g => object'[k] = object[k]
  BY ImageFacts DEF RemoveAsset
<1>5. ImageInv(g)'
  BY <1>1, <1>3, NoAssetStatus, ImageFacts DEF ImageInv
<1> QED
  BY <1>0, <1>1, <1>3, <1>4, <1>5, ImageFacts, JobsStay
  DEF ImageMoved, ImageTypes, OtherImagesStay, OthersStill

LEMMA ImageStepKeeps ==
  ASSUME BackgroundInv, NEW g \in Images,
         \/ \E target \in {"PRODUCT", "TEMPLATE"}, huge \in BOOLEAN : AttachAsset(g, target, huge)
         \/ QueueImage(g) \/ RemoveAsset(g) \/ Stall(g) \/ ImageStep(g)
  PROVE  BackgroundInv'
<1>1. ImageMoved(g)
  BY AttachAssetKeeps, QueueImageKeeps, RemoveAssetKeeps, ImageWorkerDies, StartImageKeeps,
     PutObjectKeeps, FinishImageKeeps, FailImageKeeps DEF ImageStep
<1> QED
  BY <1>1, OneImageMoves DEF ImageMoved, ImageTypes, OtherImagesStay

-----------------------------------------------------------------------------
(***************************************************************************)
(* Imports.                                                                *)
(***************************************************************************)
UploadMoved(i) ==
  /\ upload' \in [Imports -> Upload \cup {NoUpload}]
  /\ \A k \in Imports : k # i => upload'[k] = upload[k]
ProgressMoved(i) ==
  /\ progress' \in [Imports -> Progress]
  /\ \A k \in Imports : k # i => progress'[k] = progress[k]
SkuMoved(i) ==
  /\ sku' \in [Products -> Sku \cup {Unmade}]
  /\ \A p \in Products :
       sku'[p] = sku[p] \/ /\ sku'[p] # Unmade /\ sku'[p].writtenBy = i
                           /\ sku'[p].madeBy \in {sku[p].madeBy, i}
                           /\ sku'[p].madeBy = i => sku[p].madeBy \in {i, "nobody"}
ImportMoved(i) ==
  /\ Kept(i) /\ UploadMoved(i) /\ ProgressMoved(i) /\ SkuMoved(i)
  /\ UNCHANGED <<imageVars, delivered>> /\ outage' \in BOOLEAN /\ (outage => outage')
  /\ ImportInv(i)'

LEMMA ImportFacts ==
  ASSUME BackgroundInv, NEW i \in Imports
  PROVE  /\ BackgroundTypeOK /\ AttemptsLeft /\ i \in Jobs
         /\ InStep(i) /\ ReadIsSo(i) /\ TellsSoFar(i)
         /\ upload \in [Imports -> Upload \cup {NoUpload}]
         /\ progress \in [Imports -> Progress] /\ progress[i] \in Progress
         /\ sku \in [Products -> Sku \cup {Unmade}]
         /\ outage \in BOOLEAN
BY DEF BackgroundInv, ImportInv, Jobs, BackgroundTypeOK

LEMMA UploadStays ==
  ASSUME BackgroundTypeOK, NEW i \in Imports
  PROVE  /\ UNCHANGED upload => UploadMoved(i)
         /\ UNCHANGED progress => ProgressMoved(i)
         /\ UNCHANGED sku => SkuMoved(i)
BY DEF BackgroundTypeOK, UploadMoved, ProgressMoved, SkuMoved

\* What a worker writes of an upload is its status, and at the end its results.
LEMMA StatusOfUpload ==
  ASSUME BackgroundTypeOK, NEW i \in Imports, upload[i] # NoUpload,
         NEW status \in {"RUNNING", "COMPLETED", "FAILED"},
         NEW results \in Seq(Outcomes),
         upload' = [upload EXCEPT ![i].status = status, ![i].results = results]
  PROVE  /\ UploadMoved(i)
         /\ upload'[i] \in Upload /\ upload'[i].status = status /\ upload'[i].results = results
         /\ upload'[i].dryRun = upload[i].dryRun /\ upload'[i].file = upload[i].file
         /\ upload'[i].updateExisting = upload[i].updateExisting
<1> DEFINE new == [upload[i] EXCEPT !.status = status, !.results = results]
<1>1. upload \in [Imports -> Upload \cup {NoUpload}] /\ upload[i] \in Upload
  BY BackgroundRows DEF BackgroundTypeOK
<1>2. /\ new \in Upload /\ new.status = status /\ new.results = results
      /\ new.dryRun = upload[i].dryRun /\ new.file = upload[i].file
      /\ new.updateExisting = upload[i].updateExisting
  BY <1>1 DEF Upload
<1>3. upload' = [upload EXCEPT ![i] = new]
  BY <1>1
<1> HIDE DEF new
<1> QED
  BY <1>1, <1>2, <1>3 DEF UploadMoved

LEMMA StatusOnlyOfUpload ==
  ASSUME BackgroundTypeOK, NEW i \in Imports, upload[i] # NoUpload,
         NEW status \in {"RUNNING", "COMPLETED", "FAILED"},
         upload' = [upload EXCEPT ![i].status = status]
  PROVE  /\ UploadMoved(i)
         /\ upload'[i] \in Upload /\ upload'[i].status = status
         /\ upload'[i].results = upload[i].results
         /\ upload'[i].dryRun = upload[i].dryRun /\ upload'[i].file = upload[i].file
         /\ upload'[i].updateExisting = upload[i].updateExisting
<1> DEFINE new == [upload[i] EXCEPT !.status = status]
<1>1. upload \in [Imports -> Upload \cup {NoUpload}] /\ upload[i] \in Upload
  BY BackgroundRows DEF BackgroundTypeOK
<1>2. /\ new \in Upload /\ new.status = status /\ new.results = upload[i].results
      /\ new.dryRun = upload[i].dryRun /\ new.file = upload[i].file
      /\ new.updateExisting = upload[i].updateExisting
  BY <1>1 DEF Upload
<1>3. upload' = [upload EXCEPT ![i] = new]
  BY <1>1
<1> HIDE DEF new
<1> QED
  BY <1>1, <1>2, <1>3 DEF UploadMoved

LEMMA TellMoves ==
  ASSUME BackgroundTypeOK, NEW i \in Imports, NEW outcome \in Outcomes, Tell(i, outcome)
  PROVE  /\ ProgressMoved(i)
         /\ progress'[i].results = Append(progress[i].results, outcome)
         /\ progress'[i].read = Unread
<1> DEFINE new == [results |-> Append(progress[i].results, outcome), read |-> Unread]
<1>1. progress \in [Imports -> Progress] /\ progress[i].results \in Seq(Outcomes)
  BY DEF BackgroundTypeOK, Progress
<1>2. new \in Progress
  BY <1>1 DEF Progress
<1>3. progress' = [progress EXCEPT ![i] = new]
  BY DEF Tell
<1>4. new.results = Append(progress[i].results, outcome) /\ new.read = Unread
  OBVIOUS
<1> HIDE DEF new
<1> QED
  BY <1>1, <1>2, <1>3, <1>4 DEF ProgressMoved

\* An outcome that names no new product leaves what is told as it is.
LEMMA TellsTheSame ==
  ASSUME BackgroundTypeOK, NEW i \in Imports, NEW outcome \in Outcomes \ {"created"},
         Tell(i, outcome), upload'[i].file = upload[i].file,
         \A p \in Products : sku'[p].madeBy = i <=> sku[p].madeBy = i,
         Tells(i, progress[i].results)
  PROVE  Tells(i, progress[i].results)'
<1> DEFINE old == progress[i].results
<1>1. progress'[i].results = Append(old, outcome)
  BY TellMoves
<1>2. old \in Seq(Outcomes)
  BY DEF BackgroundTypeOK, Progress
<1>3. /\ DOMAIN old = 1..Len(old) /\ DOMAIN Append(old, outcome) = 1..(Len(old) + 1)
      /\ Append(old, outcome)[Len(old) + 1] = outcome
      /\ \A n \in 1..Len(old) : Append(old, outcome)[n] = old[n]
      /\ Len(old) \in Nat
  BY <1>2
<1>4. \A n \in DOMAIN Append(old, outcome) :
        Append(old, outcome)[n] = "created" => n \in DOMAIN old /\ old[n] = "created"
  BY <1>3
<1>5. \A n \in DOMAIN old : n \in DOMAIN Append(old, outcome) /\ Append(old, outcome)[n] = old[n]
  BY <1>3
<1> HIDE DEF old
<1>6. \A p \in Products :
        (\E n \in DOMAIN Append(old, outcome) :
            upload[i].file[n] = p /\ Append(old, outcome)[n] = "created")
          <=> sku[p].madeBy = i
  BY <1>4, <1>5 DEF Tells, old
<1> QED
  BY <1>1, <1>6 DEF Tells

\* A product made at a row and told of there.
LEMMA TellsOneMore ==
  ASSUME BackgroundTypeOK, NEW i \in Imports, Tell(i, "created"), UNCHANGED upload,
         RowSku(i) \in Products, sku[RowSku(i)] = Unmade,
         sku' = [sku EXCEPT ![RowSku(i)] = [madeBy |-> i, writtenBy |-> i]],
         Tells(i, progress[i].results)
  PROVE  Tells(i, progress[i].results)'
<1> DEFINE old == progress[i].results
           more == Append(old, "created")
<1>1. progress'[i].results = more
  BY TellMoves DEF Outcomes
<1>2. old \in Seq(Outcomes)
  BY DEF BackgroundTypeOK, Progress
<1>3. /\ DOMAIN old = 1..Len(old) /\ DOMAIN more = 1..(Len(old) + 1)
      /\ more[Len(old) + 1] = "created" /\ Row(i) = Len(old) + 1
      /\ \A n \in 1..Len(old) : more[n] = old[n]
      /\ Len(old) \in Nat
  BY <1>2 DEF Row
<1>4. \A n \in DOMAIN more : n = Row(i) \/ (n \in DOMAIN old /\ more[n] = old[n])
  BY <1>3
<1>5. /\ \A n \in DOMAIN old : n \in DOMAIN more /\ more[n] = old[n]
      /\ Row(i) \in DOMAIN more /\ more[Row(i)] = "created"
  BY <1>3
<1>6. \A p \in Products :
        sku'[p].madeBy = i <=> p = upload[i].file[Row(i)] \/ sku[p].madeBy = i
  BY DEF BackgroundTypeOK, RowSku
<1> HIDE DEF old, more
<1>7. \A p \in Products :
        (\E n \in DOMAIN more : upload[i].file[n] = p /\ more[n] = "created")
          <=> sku'[p].madeBy = i
  BY <1>4, <1>5, <1>6 DEF Tells, old
<1> QED
  BY <1>1, <1>7 DEF Tells

LEMMA SubmitImportKeeps ==
  ASSUME BackgroundInv, NEW i \in Imports, NEW file \in Files, NEW dryRun \in BOOLEAN,
         NEW updateExisting \in BOOLEAN, SubmitImport(i, file, dryRun, updateExisting)
  PROVE  ImportMoved(i)
<1> DEFINE new == [status |-> "QUEUED", dryRun |-> dryRun, updateExisting |-> updateExisting,
                   file |-> file, results |-> <<>>]
<1>0. /\ upload[i] = NoUpload /\ upload[i].status = "NONE" /\ upload' = [upload EXCEPT ![i] = new]
      /\ UNCHANGED job /\ UNCHANGED progress /\ UNCHANGED sku /\ UNCHANGED OthersIdle
  BY DEF SubmitImport, NoUpload
<1>1. new \in Upload /\ new.status = "QUEUED" /\ NoUpload \notin Upload
  BY ImportFacts, BackgroundRows DEF Upload
<1> HIDE DEF new
<1>2. upload'[i] = new /\ UploadMoved(i)
  BY <1>0, <1>1, ImportFacts DEF UploadMoved
<1>3. InStep(i)'
  BY <1>0, <1>1, <1>2, ImportFacts DEF InStep, Active
<1>4. ReadIsSo(i)' /\ TellsSoFar(i)'
  BY <1>0, <1>1, <1>2, ImportFacts DEF ReadIsSo, TellsSoFar
<1> QED
  BY <1>0, <1>2, <1>3, <1>4, ImportFacts, UploadStays, JobsStay
  DEF ImportMoved, ImportInv, OthersIdle

\* A job that moves takes nothing of what its import told with it.
LEMMA OnlyTheJob ==
  ASSUME BackgroundInv, NEW i \in Imports, Kept(i), job[i].stalled => job'[i].stalled,
         UNCHANGED <<importVars, imageVars, delivered>>,
         outage' \in BOOLEAN, outage => outage', InStep(i)'
  PROVE  ImportMoved(i)
<1>0. UNCHANGED upload /\ UNCHANGED progress /\ UNCHANGED sku
  BY DEF importVars
<1>1. ReadIsSo(i)' /\ TellsSoFar(i)'
  <2>1. Tells(i, progress[i].results) => Tells(i, progress[i].results)'
    BY <1>0 DEF Tells
  <2>2. Tells(i, upload[i].results) => Tells(i, upload[i].results)'
    BY <1>0 DEF Tells
  <2>3. TellsSoFar(i)'
    BY <1>0, <2>1, <2>2, ImportFacts DEF TellsSoFar
  <2>4. ReadIsSo(i)'
    BY <1>0, ImportFacts DEF ReadIsSo, Row, RowSku
  <2> QED
    BY <2>3, <2>4
<1> QED
  BY <1>0, <1>1, ImportFacts, UploadStays DEF ImportMoved, ImportInv

LEMMA QueueImportKeeps ==
  ASSUME BackgroundInv, NEW i \in Imports, QueueImport(i)
  PROVE  ImportMoved(i)
<1>0. /\ UNCHANGED <<importVars, imageVars, delivered>> /\ UNCHANGED outage /\ UNCHANGED upload
      /\ upload[i].status = "QUEUED" /\ upload[i] # NoUpload
  BY DEF QueueImport, OthersIdle, importVars, NoUpload
<1>1. Kept(i) /\ job'[i].state = "waiting" /\ job'[i].stalled = job[i].stalled
  BY ImportFacts, AddMoves DEF QueueImport
<1>2. InStep(i)'
  BY <1>0, <1>1, ImportFacts DEF InStep, Active
<1> QED
  BY <1>0, <1>1, <1>2, ImportFacts, OnlyTheJob

LEMMA ImportWorkerDies ==
  ASSUME BackgroundInv, NEW i \in Imports, Stall(i)
  PROVE  ImportMoved(i)
<1>0. UNCHANGED <<importVars, imageVars, delivered>> /\ UNCHANGED outage /\ UNCHANGED upload
  BY DEF Stall, importVars
<1>1. Kept(i) /\ job'[i].state \in {"waiting", "failed"} /\ job'[i].stalled
  BY ImportFacts, DeathMoves DEF Stall, Dies
<1>2. InStep(i)'
  BY <1>0, <1>1, ImportFacts DEF InStep, Active, Stall
<1> QED
  BY <1>0, <1>1, <1>2, ImportFacts, OnlyTheJob

LEMMA StartImportKeeps ==
  ASSUME BackgroundInv, NEW i \in Imports, StartImport(i)
  PROVE  ImportMoved(i)
<1>0. /\ job[i].state = "waiting" /\ UNCHANGED sku /\ UNCHANGED OthersIdle /\ upload[i] # NoUpload
  BY ImportFacts DEF StartImport, InStep
<1>1. CASE alreadyFinished(upload[i].status) /\ Done(i) /\ UNCHANGED <<upload, progress>>
  <2>1. Kept(i) /\ job'[i].state = "completed" /\ job'[i].stalled = job[i].stalled
    BY <1>1, ImportFacts, DoneMoves
  <2>2. InStep(i)'
    BY <1>0, <1>1, <2>1, ImportFacts DEF InStep, Active, alreadyFinished
  <2> QED
    BY <1>0, <1>1, <2>1, <2>2, ImportFacts, OnlyTheJob DEF OthersIdle, importVars
<1>2. CASE /\ ~alreadyFinished(upload[i].status)
           /\ Take(i)
           /\ upload' = [upload EXCEPT ![i].status = "RUNNING"]
           /\ progress' = [progress EXCEPT ![i] = AtStart]
  <2>1. Kept(i) /\ job'[i].state = "active" /\ job'[i].stalled = job[i].stalled
    BY <1>2, ImportFacts, TakeMoves
  <2>2. /\ UploadMoved(i) /\ upload'[i] \in Upload /\ upload'[i].status = "RUNNING"
        /\ upload'[i].dryRun = upload[i].dryRun
        /\ upload'[i].updateExisting = upload[i].updateExisting
    BY <1>0, <1>2, ImportFacts, StatusOnlyOfUpload
  <2>3. ProgressMoved(i) /\ progress'[i].read = Unread /\ progress'[i].results = <<>>
    <3>1. AtStart \in Progress /\ AtStart.read = Unread /\ AtStart.results = <<>>
      BY DEF AtStart, Progress, Outcomes
    <3> HIDE DEF AtStart
    <3> QED
      BY <1>2, <3>1, ImportFacts DEF ProgressMoved
  <2>4. InStep(i)'
    BY <2>1, <2>2, ImportFacts, BackgroundRows DEF InStep, Active
  <2>5. ReadIsSo(i)'
    BY <2>3 DEF ReadIsSo
  <2>6. ~job'[i].stalled /\ ~outage' => upload[i].status = "QUEUED"
    <3>1. upload[i].status \in {"QUEUED", "RUNNING"}
      BY <1>0, <1>2, ImportFacts, BackgroundRows DEF alreadyFinished, Upload
    <3> QED
      BY <1>0, <2>1, <3>1, ImportFacts DEF InStep, Active, OthersIdle
  <2>7. upload[i].status = "QUEUED" => Tells(i, progress[i].results)'
    BY <1>0, <2>3, ImportFacts DEF TellsSoFar, Tells
  <2>8. TellsSoFar(i)'
    BY <1>0, <2>2, <2>6, <2>7, ImportFacts DEF TellsSoFar
  <2> QED
    BY <1>0, <2>1, <2>2, <2>3, <2>4, <2>5, <2>8, ImportFacts, UploadStays
    DEF ImportMoved, ImportInv, OthersIdle
<1> QED
  BY <1>1, <1>2 DEF StartImport

\* A worker at a row: it is RUNNING, and the row is one of its file.
LEMMA WorkingFacts ==
  ASSUME BackgroundInv, NEW i \in Imports, Active(i)
  PROVE  upload[i].status = "RUNNING" /\ upload[i] # NoUpload /\ upload[i] \in Upload
<1>1. upload[i].status = "RUNNING" /\ upload[i] # NoUpload
  BY ImportFacts DEF InStep, NoUpload
<1> QED
  BY <1>1, ImportFacts, BackgroundRows

\* A row that makes no product, told of.
LEMMA ToldAndNotMade ==
  ASSUME BackgroundInv, NEW i \in Imports, Active(i), UNCHANGED <<job, upload, OthersIdle>>,
         NEW outcome \in Outcomes, Tell(i, outcome), UNCHANGED sku,
         outcome # "created" \/ upload[i].dryRun
  PROVE  ImportMoved(i)
<1>0. UNCHANGED job /\ UNCHANGED upload /\ UNCHANGED OthersIdle /\ upload[i].status = "RUNNING"
  BY WorkingFacts
<1>1. ProgressMoved(i) /\ progress'[i].read = Unread
  BY ImportFacts, TellMoves
<1>2. InStep(i)' /\ ReadIsSo(i)'
  BY <1>0, <1>1, ImportFacts DEF InStep, Active, ReadIsSo
<1>3. ~upload[i].dryRun /\ Tells(i, progress[i].results) => Tells(i, progress[i].results)'
  BY <1>0, ImportFacts, TellsTheSame
<1>4. TellsSoFar(i)'
  BY <1>0, <1>3, ImportFacts DEF TellsSoFar, OthersIdle
<1> QED
  BY <1>0, <1>1, <1>2, <1>4, ImportFacts, UploadStays, JobsStay
  DEF ImportMoved, ImportInv, OthersIdle

LEMMA RefuseRowKeeps ==
  ASSUME BackgroundInv, NEW i \in Imports, RefuseRow(i)
  PROVE  ImportMoved(i)
<1>1. "failed" \in Outcomes
  BY DEF Outcomes
<1> QED
  BY <1>1, ToldAndNotMade DEF RefuseRow, Working

LEMMA ReadRowKeeps ==
  ASSUME BackgroundInv, NEW i \in Imports, ReadRow(i)
  PROVE  ImportMoved(i)
<1> DEFINE known == sku[RowSku(i)] # Unmade
<1>0. /\ Active(i) /\ Row(i) <= Len(upload[i].file) /\ progress[i].read = Unread
      /\ UNCHANGED <<job, upload, OthersIdle>> /\ UNCHANGED sku
      /\ "skipped" \in Outcomes /\ "updated" \in Outcomes /\ "created" \in Outcomes
  BY DEF ReadRow, Working, Outcomes
<1>1. CASE known /\ ~upload[i].updateExisting /\ Tell(i, "skipped")
  BY <1>0, <1>1, ToldAndNotMade
<1>2. CASE upload[i].dryRun /\ Tell(i, IF known THEN "updated" ELSE "created")
  <2>1. (IF known THEN "updated" ELSE "created") \in Outcomes
    BY <1>0
  <2> QED
    BY <1>0, <1>2, <2>1, ToldAndNotMade
<1>3. CASE /\ ~known \/ upload[i].updateExisting
           /\ ~upload[i].dryRun
           /\ progress' = [progress EXCEPT ![i].read = IF known THEN "known" ELSE "new"]
  <2> DEFINE new == [progress[i] EXCEPT !.read = IF known THEN "known" ELSE "new"]
  <2>1. /\ new \in Progress /\ new.results = progress[i].results
        /\ new.read = IF known THEN "known" ELSE "new"
    BY ImportFacts DEF Progress
  <2>2. progress' = [progress EXCEPT ![i] = new]
    BY <1>3, ImportFacts
  <2> HIDE DEF new
  <2>3. ProgressMoved(i) /\ progress'[i] = new
    BY <2>1, <2>2, ImportFacts DEF ProgressMoved
  <2>4. UNCHANGED job /\ UNCHANGED upload /\ UNCHANGED OthersIdle /\ upload[i] # NoUpload
        /\ upload[i].status = "RUNNING"
    BY <1>0, WorkingFacts
  <2>5. InStep(i)'
    BY <2>4, ImportFacts, <1>0 DEF InStep, Active
  <2>6. Row(i)' = Row(i) /\ RowSku(i)' = RowSku(i)
    BY <2>1, <2>3, <2>4 DEF Row, RowSku
  <2>7. ReadIsSo(i)'
    BY <1>0, <1>3, <2>1, <2>3, <2>4, <2>6 DEF ReadIsSo
  <2>8. Tells(i, progress[i].results) => Tells(i, progress[i].results)'
    BY <1>0, <2>1, <2>3, <2>4 DEF Tells
  <2>9. TellsSoFar(i)'
    BY <1>0, <2>4, <2>8, ImportFacts DEF TellsSoFar, OthersIdle
  <2> QED
    BY <1>0, <2>3, <2>4, <2>5, <2>7, <2>9, ImportFacts, UploadStays, JobsStay
    DEF ImportMoved, ImportInv, OthersIdle
<1> QED
  BY <1>1, <1>2, <1>3 DEF ReadRow

LEMMA ToldWhileRunning ==
  ASSUME NEW i \in Imports, TellsSoFar(i), upload[i].status = "RUNNING", ~upload[i].dryRun,
         UNCHANGED upload, UNCHANGED job, UNCHANGED outage,
         Tells(i, progress[i].results) => Tells(i, progress[i].results)',
         \A q \in Products :
           sku'[q].writtenBy = i => (upload[i].updateExisting \/ sku'[q].madeBy = i)
  PROVE  TellsSoFar(i)'
BY DEF TellsSoFar

LEMMA WriteRowKeeps ==
  ASSUME BackgroundInv, NEW i \in Imports, WriteRow(i)
  PROVE  ImportMoved(i)
<1> DEFINE p == RowSku(i)
<1>0. /\ Active(i) /\ Row(i) <= Len(upload[i].file) /\ progress[i].read # Unread
      /\ UNCHANGED <<job, upload, OthersIdle>>
      /\ UNCHANGED job /\ UNCHANGED upload /\ UNCHANGED OthersIdle
      /\ "failed" \in Outcomes /\ "updated" \in Outcomes /\ "created" \in Outcomes
      /\ i # "nobody"
  BY QueuesAssumption DEF WriteRow, Working, Outcomes
<1>1. /\ upload[i].status = "RUNNING" /\ upload[i] # NoUpload /\ p \in Products
      /\ ~upload[i].dryRun
  BY <1>0, WorkingFacts, ImportFacts, RowIsOfFile DEF ReadIsSo
<1>2. CASE Tell(i, "failed") /\ UNCHANGED sku
  BY <1>0, <1>2, ToldAndNotMade
<1>3. CASE /\ sku[p] = Unmade
           /\ sku' = [sku EXCEPT ![p] = [madeBy |-> i, writtenBy |-> i]]
           /\ Tell(i, "created")
  <2> DEFINE new == [madeBy |-> i, writtenBy |-> i]
  <2>1. new \in Sku /\ new.madeBy = i /\ new.writtenBy = i /\ new # Unmade
    BY ImportFacts, BackgroundRows DEF Sku
  <2>2. sku' = [sku EXCEPT ![p] = new] /\ sku[p].madeBy = "nobody"
    BY <1>3 DEF Unmade
  <2>3. Tells(i, progress[i].results) => Tells(i, progress[i].results)'
    BY <1>0, <1>1, <1>3, ImportFacts, TellsOneMore
  <2> HIDE DEF new, p
  <2>4. SkuMoved(i)
    BY <1>1, <2>1, <2>2, ImportFacts DEF SkuMoved
  <2>5. ProgressMoved(i) /\ progress'[i].read = Unread
    BY <1>0, <1>3, ImportFacts, TellMoves
  <2>6. InStep(i)' /\ ReadIsSo(i)'
    BY <1>0, <1>1, <2>5, ImportFacts DEF InStep, Active, ReadIsSo
  <2>7. \A q \in Products : sku'[q].writtenBy = i => sku'[q].madeBy = i \/ sku'[q] = sku[q]
    BY <1>1, <2>1, <2>2, ImportFacts
  <2>8. TellsSoFar(i)'
    <3>1. \A q \in Products :
            sku'[q].writtenBy = i => (upload[i].updateExisting \/ sku'[q].madeBy = i)
      BY <2>7, ImportFacts DEF TellsSoFar
    <3> QED
      BY <1>0, <1>1, <2>3, <3>1, ImportFacts, ToldWhileRunning DEF OthersIdle
  <2> QED
    BY <1>0, <2>4, <2>5, <2>6, <2>8, ImportFacts, UploadStays, JobsStay
    DEF ImportMoved, ImportInv, OthersIdle
<1>4. CASE /\ progress[i].read = "known"
           /\ sku' = [sku EXCEPT ![p].writtenBy = i]
           /\ Tell(i, "updated")
  <2> DEFINE new == [sku[p] EXCEPT !.writtenBy = i]
  <2>1. upload[i].updateExisting /\ sku[p] \in Sku
    BY <1>1, <1>4, ImportFacts, BackgroundRows DEF ReadIsSo, Unread
  <2>2. new \in Sku /\ new.madeBy = sku[p].madeBy /\ new.writtenBy = i /\ new # Unmade
    BY <2>1, ImportFacts, BackgroundRows DEF Sku
  <2>3. sku' = [sku EXCEPT ![p] = new]
    BY <1>4, ImportFacts
  <2> HIDE DEF new, p
  <2>4. /\ SkuMoved(i)
        /\ \A q \in Products : sku'[q].madeBy = i <=> sku[q].madeBy = i
        /\ \A q \in Products : sku'[q].madeBy = sku[q].madeBy
    BY <1>1, <2>2, <2>3, ImportFacts DEF SkuMoved
  <2>5. ProgressMoved(i) /\ progress'[i].read = Unread
    BY <1>0, <1>4, ImportFacts, TellMoves
  <2>6. InStep(i)' /\ ReadIsSo(i)'
    BY <1>0, <1>1, <2>5, ImportFacts DEF InStep, Active, ReadIsSo
  <2>7. Tells(i, progress[i].results) => Tells(i, progress[i].results)'
    BY <1>0, <1>4, <2>4, ImportFacts, TellsTheSame
  <2>8. TellsSoFar(i)'
    BY <1>0, <1>1, <2>1, <2>7, ImportFacts, ToldWhileRunning DEF OthersIdle
  <2> QED
    BY <1>0, <2>4, <2>5, <2>6, <2>8, ImportFacts, UploadStays, JobsStay
    DEF ImportMoved, ImportInv, OthersIdle
<1> QED
  BY <1>2, <1>3, <1>4 DEF WriteRow

LEMMA FinishImportKeeps ==
  ASSUME BackgroundInv, NEW i \in Imports, FinishImport(i)
  PROVE  ImportMoved(i)
<1>0. /\ Active(i) /\ UNCHANGED progress /\ UNCHANGED sku /\ UNCHANGED OthersIdle
      /\ upload' = [upload EXCEPT ![i].status = "COMPLETED", ![i].results = progress[i].results]
  BY DEF FinishImport
<1>1. upload[i].status = "RUNNING" /\ upload[i] # NoUpload /\ progress[i].results \in Seq(Outcomes)
  BY <1>0, WorkingFacts, ImportFacts DEF Progress
<1>2. Kept(i) /\ job'[i].state = "completed" /\ job'[i].stalled = job[i].stalled
  BY ImportFacts, DoneMoves DEF FinishImport
<1>3. /\ UploadMoved(i) /\ upload'[i] \in Upload /\ upload'[i].status = "COMPLETED"
      /\ upload'[i].results = progress[i].results
      /\ upload'[i].dryRun = upload[i].dryRun /\ upload'[i].file = upload[i].file
      /\ upload'[i].updateExisting = upload[i].updateExisting
  BY <1>0, <1>1, ImportFacts, StatusOfUpload
<1>4. InStep(i)'
  BY <1>2, <1>3, ImportFacts, BackgroundRows DEF InStep, Active
<1>5. ReadIsSo(i)'
  BY <1>0, <1>3, ImportFacts, BackgroundRows DEF ReadIsSo, Row, RowSku
<1>6. Tells(i, progress[i].results) => Tells(i, upload[i].results)'
  BY <1>0, <1>3 DEF Tells
<1>7. TellsSoFar(i)'
  BY <1>0, <1>1, <1>2, <1>3, <1>6, ImportFacts DEF TellsSoFar, OthersIdle
<1> QED
  BY <1>0, <1>2, <1>3, <1>4, <1>5, <1>7, ImportFacts, UploadStays
  DEF ImportMoved, ImportInv, OthersIdle

LEMMA FailImportKeeps ==
  ASSUME BackgroundInv, NEW i \in Imports, FailImport(i)
  PROVE  ImportMoved(i)
<1>0. /\ Active(i) /\ UNCHANGED progress /\ UNCHANGED sku /\ UNCHANGED <<imageVars, delivered>>
      /\ upload[i].status = "RUNNING" /\ upload[i] # NoUpload
  BY WorkingFacts DEF FailImport
<1>1. Kept(i) /\ job'[i].state \in {"waiting", "failed"} /\ job'[i].stalled = job[i].stalled
  BY ImportFacts, ThrowMoves DEF FailImport
<1>2. CASE upload' = [upload EXCEPT ![i].status = "FAILED"] /\ UNCHANGED outage
  <2>1. /\ UploadMoved(i) /\ upload'[i] \in Upload /\ upload'[i].status = "FAILED"
        /\ upload'[i].dryRun = upload[i].dryRun /\ upload'[i].file = upload[i].file
        /\ upload'[i].updateExisting = upload[i].updateExisting
    BY <1>0, <1>2, ImportFacts, StatusOnlyOfUpload
  <2>2. InStep(i)'
    BY <1>1, <2>1, ImportFacts, BackgroundRows DEF InStep, Active
  <2>3. ReadIsSo(i)'
    BY <1>0, <2>1, ImportFacts, BackgroundRows DEF ReadIsSo, Row, RowSku
  <2>4. TellsSoFar(i)'
    BY <1>0, <2>1, ImportFacts DEF TellsSoFar
  <2> QED
    BY <1>0, <1>1, <1>2, <2>1, <2>2, <2>3, <2>4, ImportFacts, UploadStays
    DEF ImportMoved, ImportInv
<1>3. CASE outage' = TRUE /\ UNCHANGED upload
  <2>1. InStep(i)'
    BY <1>0, <1>1, <1>3, ImportFacts DEF InStep, Active
  <2> QED
    BY <1>0, <1>1, <1>3, <2>1, OnlyTheJob DEF importVars
<1> QED
  BY <1>2, <1>3 DEF FailImport

LEMMA ImportStepKeeps ==
  ASSUME BackgroundInv, NEW i \in Imports,
         \/ \E file \in Files, dryRun, updateExisting \in BOOLEAN :
              SubmitImport(i, file, dryRun, updateExisting)
         \/ QueueImport(i) \/ RefuseRow(i) \/ FailImport(i) \/ Stall(i) \/ ImportStep(i)
  PROVE  BackgroundInv'
<1>1. ImportMoved(i)
  BY SubmitImportKeeps, QueueImportKeeps, RefuseRowKeeps, FailImportKeeps, ImportWorkerDies,
     StartImportKeeps, ReadRowKeeps, WriteRowKeeps, FinishImportKeeps DEF ImportStep
<1> QED
  BY <1>1, OneImportMoves DEF ImportMoved, UploadMoved, ProgressMoved, SkuMoved

LEMMA CreateByHandKeeps ==
  ASSUME BackgroundInv, NEW p \in Products, CreateByHand(p)
  PROVE  BackgroundInv'
<1> DEFINE new == [madeBy |-> "hand", writtenBy |-> "hand"]
<1>0. /\ UNCHANGED job /\ UNCHANGED upload /\ UNCHANGED progress /\ UNCHANGED OthersIdle
      /\ sku[p] = Unmade /\ sku' = [sku EXCEPT ![p] = new]
      /\ BackgroundTypeOK /\ AttemptsLeft /\ sku \in [Products -> Sku \cup {Unmade}]
  BY DEF CreateByHand, BackgroundInv, BackgroundTypeOK
<1>1. /\ new \in Sku /\ new # Unmade /\ new.madeBy = "hand" /\ new.writtenBy = "hand"
      /\ Unmade.madeBy = "nobody" /\ Unmade.writtenBy = "nobody"
  BY <1>0, BackgroundRows DEF Sku, Unmade
<1> HIDE DEF new
<1>2. BackgroundTypeOK' /\ AttemptsLeft'
  BY <1>0, <1>1 DEF BackgroundTypeOK, AttemptsLeft, OthersIdle, imageVars
<1>3. \A k \in Imports : ImportInv(k)'
  <2> SUFFICES ASSUME NEW k \in Imports PROVE ImportInv(k)'
    OBVIOUS
  <2>1. \A q \in Products : /\ sku'[q].madeBy = k <=> sku[q].madeBy = k
                            /\ sku'[q].writtenBy = k => sku[q].writtenBy = k
                            /\ sku[q] # Unmade => sku'[q] # Unmade
    BY <1>0, <1>1, QueuesAssumption
  <2> QED
    BY <1>0, <2>1, OtherImport DEF BackgroundInv, OthersIdle
<1>4. \A g \in Images : ImageInv(g)'
  BY <1>0 DEF BackgroundInv, ImageInv, OthersIdle, imageVars
<1> QED
  BY <1>2, <1>3, <1>4 DEF BackgroundInv

-----------------------------------------------------------------------------
LEMMA BackgroundStarts == BackgroundInit => BackgroundInv
<1> SUFFICES ASSUME BackgroundInit PROVE BackgroundInv
  OBVIOUS
<1>1. BackgroundTypeOK /\ AttemptsLeft
  <2>1. /\ [state |-> "none", made |-> 0, stalled |-> FALSE] \in Job
        /\ AtStart \in Progress
    BY TriesAssumption DEF Job, AtStart, Progress
  <2>2. job \in [Jobs -> Job] /\ progress \in [Imports -> Progress] /\ AttemptsLeft
    BY <2>1, TriesAssumption DEF BackgroundInit, AttemptsLeft
  <2>3. /\ upload \in [Imports -> Upload \cup {NoUpload}]
        /\ sku \in [Products -> Sku \cup {Unmade}]
        /\ asset \in [Images -> Asset \cup {NoAsset}]
    BY DEF BackgroundInit
  <2>4. /\ object \in [Images -> SUBSET {"original", "thumb", "preview"}]
        /\ drawn \in [Images -> 0..2]
        /\ removal \in [Images -> {"none", "row", "objects", "done"}]
        /\ delivered \in [Letters -> 0..2]
    BY DEF BackgroundInit
  <2>5. outage \in BOOLEAN
    BY DEF BackgroundInit
  <2> QED
    BY <2>2, <2>3, <2>4, <2>5 DEF BackgroundTypeOK
<1>2. \A i \in Imports :
        /\ job[i].state = "none" /\ upload[i] = NoUpload /\ upload[i].status = "NONE"
        /\ progress[i].read = Unread
        /\ \A p \in Products : sku[p].madeBy = "nobody" /\ sku[p].writtenBy = "nobody"
        /\ i # "nobody"
  BY QueuesAssumption DEF BackgroundInit, Jobs, NoUpload, AtStart, Unmade
<1>3. \A i \in Imports : ImportInv(i)
  BY <1>2 DEF ImportInv, InStep, ReadIsSo, TellsSoFar, Active
<1>4. \A g \in Images : ImageInv(g)
  BY DEF BackgroundInit, Jobs, ImageInv, NoAsset
<1> QED
  BY <1>1, <1>3, <1>4 DEF BackgroundInv

LEMMA BackgroundKeeps == BackgroundInv /\ [BackgroundNext]_backgroundVars => BackgroundInv'
<1> SUFFICES ASSUME BackgroundInv, [BackgroundNext]_backgroundVars PROVE BackgroundInv'
  OBVIOUS
<1>1. CASE UNCHANGED backgroundVars
  <2>1. /\ UNCHANGED job /\ UNCHANGED upload /\ UNCHANGED progress /\ UNCHANGED sku
        /\ UNCHANGED asset /\ UNCHANGED object /\ UNCHANGED drawn /\ UNCHANGED removal
        /\ UNCHANGED delivered /\ UNCHANGED outage
    BY <1>1 DEF backgroundVars
  <2>2. BackgroundTypeOK' /\ AttemptsLeft'
    BY <2>1 DEF BackgroundInv, BackgroundTypeOK, AttemptsLeft
  <2>3. \A i \in Imports : ImportInv(i)'
    BY <2>1, OtherImport DEF BackgroundInv
  <2>4. \A g \in Images : ImageInv(g)'
    BY <2>1 DEF BackgroundInv, ImageInv
  <2> QED
    BY <2>2, <2>3, <2>4 DEF BackgroundInv
<1>2. CASE BackgroundNext
  BY <1>2, ImportStepKeeps, CreateByHandKeeps, ImageStepKeeps, LetterStepKeeps
  DEF BackgroundNext
<1> QED
  BY <1>1, <1>2

(***************************************************************************)
(* Every row, job and record of an import is of its shape, whatever the    *)
(* queue does (product-import.service, asset-derivative.service,           *)
(* mail.dispatcher).                                                       *)
(***************************************************************************)
THEOREM BackgroundTypeCorrect == BackgroundSpec => []BackgroundTypeOK
<1>1. BackgroundInv => BackgroundTypeOK
  BY DEF BackgroundInv
<1> QED
  BY <1>1, BackgroundStarts, BackgroundKeeps, PTL DEF BackgroundSpec

(***************************************************************************)
(* What is said of finished work is so: an import that was delivered once  *)
(* made what its report says and nothing else, none writes what it may     *)
(* not, and a picture that is offered is stored, whoever else creates      *)
(* products or removes images meanwhile.                                   *)
(***************************************************************************)
THEOREM FinishedWorkIsSo == BackgroundSpec => []RecordsTellTruth
<1>1. BackgroundInv => RecordsTellTruth
  <2> SUFFICES ASSUME BackgroundInv PROVE RecordsTellTruth
    OBVIOUS
  <2>1. ReportsTellCatalogue
    <3> SUFFICES ASSUME NEW i \in Imports, NEW p \in Products
                 PROVE  LET u == upload[i]
                            says(outcome) == \E n \in DOMAIN u.results :
                                               u.file[n] = p /\ u.results[n] = outcome
                        IN  /\ u.status = "COMPLETED" /\ ~u.dryRun /\ ~job[i].stalled /\ ~outage =>
                                 (says("created") <=> sku[p] # Unmade /\ sku[p].madeBy = i)
                            /\ sku[p] # Unmade /\ sku[p].writtenBy = i =>
                                 ~u.dryRun /\ (u.updateExisting \/ sku[p].madeBy = i)
      BY DEF ReportsTellCatalogue
    <3>1. sku[p].madeBy = i => sku[p] # Unmade
      BY QueuesAssumption DEF Unmade
    <3>2. TellsSoFar(i)
      BY ImportFacts
    <3> QED
      BY <3>1, <3>2 DEF TellsSoFar, Tells
  <2>2. ReadyHasPictures
    <3> SUFFICES ASSUME NEW g \in Images, asset[g].status = "READY"
                 PROVE  object[g] = {"original", "thumb", "preview"}
      BY DEF ReadyHasPictures
    <3>1. asset[g] # NoAsset
      BY DEF NoAsset
    <3> QED
      BY <3>1, ImageFacts DEF ImageInv
  <2> QED
    BY <2>1, <2>2 DEF RecordsTellTruth
<1> QED
  BY <1>1, BackgroundStarts, BackgroundKeeps, PTL DEF BackgroundSpec

-----------------------------------------------------------------------------
(***************************************************************************)
(* Imports implement ImportReport.                                         *)
(***************************************************************************)
ReportStatus == [i \in Imports |-> upload[i].status]
ReportResults == [i \in Imports |-> upload[i].results]

LEMMA ReportsStart == BackgroundInit => Reported!ReportInit
BY DEF BackgroundInit, Reported!ReportInit, NoUpload

\* Most steps write no upload.
LEMMA ReportsUntouched ==
  ASSUME UNCHANGED upload
  PROVE  UNCHANGED <<ReportStatus, ReportResults>>
BY DEF ReportStatus, ReportResults

LEMMA ReportMoves ==
  ASSUME BackgroundInv, NEW i \in Imports, UploadMoved(i)
  PROVE  /\ ReportStatus' = [ReportStatus EXCEPT ![i] = upload'[i].status]
         /\ ReportResults' = [ReportResults EXCEPT ![i] = upload'[i].results]
         /\ ReportStatus[i] = upload[i].status
         /\ ReportResults[i] = upload[i].results
         /\ upload'[i].results = upload[i].results => UNCHANGED ReportResults
BY DEF UploadMoved, ReportStatus, ReportResults

LEMMA SubmitIsAccept ==
  ASSUME BackgroundInv, NEW i \in Imports, NEW file \in Files, NEW dryRun \in BOOLEAN,
         NEW updateExisting \in BOOLEAN, SubmitImport(i, file, dryRun, updateExisting)
  PROVE  Reported!Accept(i)
<1> DEFINE new == [status |-> "QUEUED", dryRun |-> dryRun, updateExisting |-> updateExisting,
                   file |-> file, results |-> <<>>]
<1>0. /\ new.status = "QUEUED" /\ new.results = <<>>
      /\ NoUpload.status = "NONE" /\ NoUpload.results = <<>>
      /\ upload[i] = NoUpload /\ upload' = [upload EXCEPT ![i] = new]
  BY DEF SubmitImport, NoUpload
<1> HIDE DEF new
<1>1. /\ upload[i].status = "NONE" /\ upload[i].results = <<>> /\ UploadMoved(i)
      /\ upload'[i].status = "QUEUED" /\ upload'[i].results = <<>>
  BY <1>0, SubmitImportKeeps, ImportFacts DEF ImportMoved
<1>2. /\ ReportStatus' = [ReportStatus EXCEPT ![i] = "QUEUED"] /\ UNCHANGED ReportResults
      /\ ReportStatus[i] = "NONE"
  BY <1>1, ReportMoves
<1> QED
  BY <1>2 DEF Reported!Accept, Reported!MoveTo, ReportStatus, ReportResults

\* A job that is delivered again finds its import under way already.
LEMMA StartIsUnderWay ==
  ASSUME BackgroundInv, NEW i \in Imports, StartImport(i)
  PROVE  Reported!UnderWay(i) \/ UNCHANGED <<ReportStatus, ReportResults>>
<1>1. CASE UNCHANGED upload
  BY <1>1, ReportsUntouched
<1>2. CASE /\ ~alreadyFinished(upload[i].status)
           /\ upload' = [upload EXCEPT ![i].status = "RUNNING"]
  <2>1. upload[i] # NoUpload /\ upload[i].status \in {"QUEUED", "RUNNING"}
    BY <1>2, ImportFacts, BackgroundRows DEF StartImport, InStep, alreadyFinished, Upload
  <2>2. UploadMoved(i) /\ upload'[i].status = "RUNNING" /\ upload'[i].results = upload[i].results
    BY <1>2, <2>1, ImportFacts, StatusOnlyOfUpload
  <2>3. /\ ReportStatus' = [ReportStatus EXCEPT ![i] = "RUNNING"] /\ UNCHANGED ReportResults
        /\ ReportStatus[i] = upload[i].status
    BY <2>2, ReportMoves
  <2>4. ReportStatus[i] = "RUNNING" => UNCHANGED ReportStatus
    BY <2>3 DEF ReportStatus
  <2> QED
    BY <2>1, <2>3, <2>4
    DEF Reported!UnderWay, Reported!MoveTo, ReportStatus, ReportResults
<1> QED
  BY <1>1, <1>2 DEF StartImport

LEMMA FinishIsReport ==
  ASSUME BackgroundInv, NEW i \in Imports, FinishImport(i)
  PROVE  Reported!Report(i)
<1>0. /\ Active(i)
      /\ upload' = [upload EXCEPT ![i].status = "COMPLETED", ![i].results = progress[i].results]
  BY DEF FinishImport
<1>1. upload[i].status = "RUNNING" /\ upload[i] # NoUpload /\ progress[i].results \in Seq(Outcomes)
  BY <1>0, WorkingFacts, ImportFacts DEF Progress
<1>2. UploadMoved(i) /\ upload'[i].status = "COMPLETED" /\ upload'[i].results \in Seq(Outcomes)
  BY <1>0, <1>1, ImportFacts, StatusOfUpload
<1>3. /\ ReportStatus' = [ReportStatus EXCEPT ![i] = "COMPLETED"] /\ ReportStatus[i] = "RUNNING"
      /\ ReportResults' = [ReportResults EXCEPT ![i] = upload'[i].results]
  BY <1>1, <1>2, ReportMoves
<1>4. ReportResults'[i] = upload'[i].results
  BY DEF ReportResults
<1> QED
  BY <1>2, <1>3, <1>4 DEF Reported!Report, Reported!MoveTo, ReportStatus, ReportResults

LEMMA FailureIsReport ==
  ASSUME BackgroundInv, NEW i \in Imports, FailImport(i)
  PROVE  Reported!Report(i) \/ UNCHANGED <<ReportStatus, ReportResults>>
<1>1. CASE UNCHANGED upload
  BY <1>1, ReportsUntouched
<1>2. CASE upload' = [upload EXCEPT ![i].status = "FAILED"]
  <2>1. upload[i].status = "RUNNING" /\ upload[i] # NoUpload
    BY WorkingFacts DEF FailImport
  <2>2. UploadMoved(i) /\ upload'[i].status = "FAILED" /\ upload'[i].results = upload[i].results
    BY <1>2, <2>1, ImportFacts, StatusOnlyOfUpload
  <2>3. /\ ReportStatus' = [ReportStatus EXCEPT ![i] = "FAILED"] /\ UNCHANGED ReportResults
        /\ ReportStatus[i] = "RUNNING"
    BY <2>1, <2>2, ReportMoves
  <2> QED
    BY <2>3 DEF Reported!Report, Reported!MoveTo, ReportStatus, ReportResults
<1> QED
  BY <1>1, <1>2 DEF FailImport

LEMMA ReportsStep ==
  BackgroundInv /\ [BackgroundNext]_backgroundVars
    => [Reported!ReportNext]_<<ReportStatus, ReportResults>>
<1> SUFFICES ASSUME BackgroundInv, [BackgroundNext]_backgroundVars
             PROVE  \/ \E i \in Imports : \/ Reported!Accept(i)
                                          \/ Reported!UnderWay(i)
                                          \/ Reported!Report(i)
                    \/ UNCHANGED <<ReportStatus, ReportResults>>
  BY DEF Reported!ReportNext
<1>1. CASE UNCHANGED upload
  BY <1>1, ReportsUntouched
<1>2. ASSUME NEW i \in Imports, NEW file \in Files, NEW dryRun \in BOOLEAN,
             NEW updateExisting \in BOOLEAN, SubmitImport(i, file, dryRun, updateExisting)
      PROVE  Reported!Accept(i)
  BY <1>2, SubmitIsAccept
<1>3. ASSUME NEW i \in Imports, StartImport(i)
      PROVE  Reported!UnderWay(i) \/ UNCHANGED <<ReportStatus, ReportResults>>
  BY <1>3, StartIsUnderWay
<1>4. ASSUME NEW i \in Imports, FinishImport(i) \/ FailImport(i)
      PROVE  Reported!Report(i) \/ UNCHANGED <<ReportStatus, ReportResults>>
  BY <1>4, FinishIsReport, FailureIsReport
<1>5. ASSUME NEW i \in Imports, QueueImport(i) \/ RefuseRow(i) \/ ReadRow(i) \/ WriteRow(i)
      PROVE  UNCHANGED upload
  BY <1>5 DEF QueueImport, RefuseRow, ReadRow, WriteRow, importVars
<1>6. ASSUME NEW j \in Jobs, Stall(j)
      PROVE  UNCHANGED upload
  BY <1>6 DEF Stall, importVars
<1>7. ASSUME NEW p \in Products, CreateByHand(p)
      PROVE  UNCHANGED upload
  BY <1>7 DEF CreateByHand
<1>8. ASSUME NEW g \in Images, QueueImage(g) \/ RemoveAsset(g) \/ ImageStep(g)
      PROVE  UNCHANGED upload
  BY <1>8 DEF QueueImage, RemoveAsset, ImageStep, StartImage, PutObject, FinishImage, FailImage,
              OthersStill, importVars
<1>9. ASSUME NEW g \in Images, NEW target, NEW huge, AttachAsset(g, target, huge)
      PROVE  UNCHANGED upload
  BY <1>9 DEF AttachAsset, OthersStill, importVars
<1>10. ASSUME NEW l \in Letters, QueueLetter(l) \/ LetterStep(l)
       PROVE  UNCHANGED upload
  BY <1>10 DEF QueueLetter, LetterStep, TakeLetter, SendLetter, FailLetter, importVars
<1>11. CASE UNCHANGED backgroundVars
  BY <1>1, <1>11 DEF backgroundVars
<1> HIDE DEF ReportStatus, ReportResults
<1>12. CASE BackgroundNext
  BY <1>12, <1>1, <1>2, <1>3, <1>4, <1>5, <1>6, <1>7, <1>8, <1>9, <1>10
  DEF BackgroundNext, ImportStep, Jobs
<1> QED
  BY <1>11, <1>12

(***************************************************************************)
(* An upload yields one report, and it is final, however often the queue   *)
(* delivers the job and whoever dies on it: the imports implement          *)
(* ImportReport.                                                           *)
(***************************************************************************)
THEOREM ImportsAreReportedOnce == BackgroundSpec => KeepsReports
BY ReportsStart, ReportsStep, BackgroundStarts, BackgroundKeeps, PTL
DEF BackgroundSpec, KeepsReports, Reported!ReportSpec, ReportStatus, ReportResults
-----------------------------------------------------------------------------
(***************************************************************************)
(* Reports.  What a report is about is settled when it is asked for, and   *)
(* unless an order changed in between, each figure is what its query would *)
(* answer still.  A report that is kept says under which key.              *)
(***************************************************************************)
SalesInv ==
  /\ now \in 0..Horizon
  /\ \A o \in Sales :
       \/ sale[o] = Unsold
       \/ sale[o] \in [status : Status, site : {SiteOf[o]}, at : 0..Horizon]

Granularity == {"day", "week", "month"}
FigureNames ==
  {"current", "branches", "before", "trend", "trendBefore", "byStatus", "queue", "sites"}

IsAsked(caller, query, of) ==
  /\ of.firm = resolveAccount(caller, query)
  /\ of.site = query.site
  /\ of.topSites = query.topSites
  /\ query.from # NotGiven => of.range.from = query.from
  /\ query.granularity # NotGiven => of.granularity = query.granularity
  /\ of.range.from \in Int /\ of.range.to \in Int /\ of.range.from < of.range.to
  /\ IsDated(of.range.from)
  /\ of.granularity \in Granularity

MayAsk(caller, query) ==
  caller \in Callers /\ query \in Queries /\ (query.scope = Platform => caller.admin)

\* Its branches are those of the account it is about.
OwnSites(of, figures) ==
  "sites" \in DOMAIN figures =>
    \A s \in DOMAIN figures.sites : of.firm \in {Platform, FirmOf[s]}

IsComputing(k) ==
  /\ k = [op |-> "computing", caller |-> k.caller, query |-> k.query, of |-> k.of,
          figures |-> k.figures, torn |-> k.torn]
  /\ MayAsk(k.caller, k.query) /\ IsAsked(k.caller, k.query, k.of)
  /\ k.torn \in BOOLEAN
  /\ DOMAIN k.figures \subseteq FigureNames
  /\ k.figures = [p \in DOMAIN k.figures |-> k.figures[p]]
  /\ OwnSites(k.of, k.figures)

AsRead(v) ==
  view[v].op = "computing" /\ ~view[v].torn =>
    \A p \in DOMAIN view[v].figures : view[v].figures[p] = Figure(p, view[v].of)

IsFor(report, key) ==
  /\ report.kind = key.kind
  /\ report.of.firm = key.firm
  /\ report.of.site = key.site
  /\ report.of.topSites = key.limit
  /\ key.from # NotGiven => report.of.range.from = key.from
  /\ key.granularity # NotGiven => report.of.granularity = key.granularity
  /\ OwnSites(report.of, report.figures)
  /\ report.kind = "dashboard" /\ ~report.torn => FiguresAgree(report)

IsShown(k) ==
  MayAsk(k.caller, k.query) /\ IsFor(k.report, cacheKey(k.caller, k.query))

ReportsInv ==
  /\ SalesInv
  /\ DOMAIN sale = Sales /\ DOMAIN view = Viewers
  /\ \A v \in Viewers :
       /\ AsRead(v)
       /\ view[v].op \in {"away", "computing", "shown"}
       /\ view[v].op = "computing" => IsComputing(view[v])
       /\ view[v].op = "shown" => IsShown(view[v])
  /\ \A key \in DOMAIN cache : IsFor(cache[key].report, key)

(***************************************************************************)
(* The calendar.  A moment of a range that is not cut falls in one of its  *)
(* buckets.                                                                *)
(***************************************************************************)
LEMMA BucketIs ==
  ASSUME NEW g \in Granularity, NEW at, IsDated(at)
  PROVE  /\ bucketOf(at, g) \in Starts[g]
         /\ bucketOf(at, g) <= at
         /\ \A t \in Starts[g] : t <= at => t <= bucketOf(at, g)
<1> DEFINE B == {s \in Starts[g] : s <= at}
<1>1. DOMAIN Starts = Granularity /\ Starts[g] \subseteq Int
  BY CalendarAssumption DEF Granularity
<1>2. PICK s \in Starts[g] : s <= at /\ \A t \in Starts[g] : t <= at => t <= s
  BY <1>1 DEF IsDated
<1>3. s \in B /\ \A t \in B : s >= t
  BY <1>1, <1>2
<1>4. Max(B) \in B /\ \A t \in B : Max(B) >= t
  BY <1>3 DEF Max
<1>5. bucketOf(at, g) = Max(B)
  BY DEF bucketOf
<1> QED
  BY <1>1, <1>4, <1>5

LEMMA BucketsFinite ==
  ASSUME NEW g \in Granularity, NEW low \in Int, NEW high \in Int
  PROVE  IsFiniteSet({s \in Starts[g] : low <= s /\ s < high})
<1>1. Starts[g] \subseteq Int
  BY CalendarAssumption DEF Granularity
<1>2. {s \in Starts[g] : low <= s /\ s < high} \subseteq low..high
  BY <1>1
<1>3. IsFiniteSet(low..high)
  BY FS_Interval
<1> QED
  BY <1>2, <1>3, FS_Subset

\* A chart of fewer buckets than are allowed was not cut.
LEMMA ChartIsWhole ==
  ASSUME NEW all \in SUBSET Int, IsFiniteSet(all), NEW s \in all,
         Cardinality({t \in all : t < s}) >= MaxBuckets
  PROVE  Cardinality({b \in all : Cardinality({t \in all : t < b}) < MaxBuckets}) >= MaxBuckets
<1> DEFINE before(b) == {t \in all : t < b}
           kept == {b \in all : Cardinality(before(b)) < MaxBuckets}
           late == {n \in Nat : \E b \in all : n = Cardinality(before(b)) /\ n >= MaxBuckets}
<1>1. \A b \in all : IsFiniteSet(before(b)) /\ Cardinality(before(b)) \in Nat
  BY FS_Subset, FS_CardinalityType
<1>2. PICK n \in late : \A m \in late : n <= m
  <2>1. late \in SUBSET Nat /\ late # {}
    BY <1>1
  <2> HIDE DEF late
  <2> QED
    BY <2>1, LeastNumber
<1>3. PICK b \in all : n = Cardinality(before(b)) /\ n >= MaxBuckets
  OBVIOUS
<1>4. before(b) \subseteq kept
  <2> SUFFICES ASSUME NEW t \in before(b), t \notin kept
               PROVE  FALSE
    OBVIOUS
  <2>1. t \in all /\ t < b /\ Cardinality(before(t)) >= MaxBuckets
    BY <1>1, BoundsAssumption
  <2>2. Cardinality(before(t)) \in late
    BY <1>1, <2>1
  <2>3. before(t) \subseteq before(b) /\ t \in before(b) /\ t \notin before(t)
    <3>1. \A u \in all : u \in Int
      OBVIOUS
    <3>2. ASSUME NEW u \in before(t) PROVE u \in before(b)
      BY <2>1, <3>1
    <3>3. t \in before(b)
      OBVIOUS
    <3>4. t \notin before(t)
      <4>1. t \in Int
        BY <2>1, <3>1
      <4>2. ~(t < t)
        BY <4>1
      <4> QED
        BY <4>2
    <3> HIDE DEF before
    <3> QED
      BY <3>2, <3>3, <3>4
  <2>4. Cardinality(before(t)) < Cardinality(before(b))
    <3>1. before(t) # before(b)
      BY <2>3
    <3>2. IsFiniteSet(before(b)) /\ IsFiniteSet(before(t))
      BY <1>1, <2>1
    <3>3. Cardinality(before(b)) \in Nat /\ Cardinality(before(t)) \in Nat
      BY <1>1, <2>1
    <3>4. /\ Cardinality(before(t)) <= Cardinality(before(b))
          /\ Cardinality(before(t)) # Cardinality(before(b))
      <4> HIDE DEF before
      <4> QED
        BY <2>3, <3>1, <3>2, FS_Subset
    <3> QED
      BY <3>3, <3>4
  <2> QED
    BY <1>1, <1>2, <1>3, <2>1, <2>2, <2>4
<1>5. IsFiniteSet(kept)
  BY FS_Subset
<1>6. Cardinality(before(b)) <= Cardinality(kept) /\ Cardinality(kept) \in Nat
  <2> HIDE DEF before, kept
  <2> QED
    BY <1>4, <1>5, FS_Subset, FS_CardinalityType
<1> QED
  BY <1>1, <1>3, <1>6, BoundsAssumption

LEMMA InSomeBucket ==
  ASSUME NEW range, range.from \in Int, range.to \in Int, IsDated(range.from),
         NEW g \in Granularity, Cardinality(bucketsIn(range, g)) < MaxBuckets,
         NEW at \in 0..Horizon, range.from <= at, at < range.to
  PROVE  bucketOf(at, g) \in bucketsIn(range, g)
<1> DEFINE first == bucketOf(range.from, g)
           b == bucketOf(at, g)
           all == {s \in Starts[g] : first <= s /\ s < range.to}
<1>1. IsDated(at) /\ Starts[g] \subseteq Int /\ at \in Int
  BY CalendarAssumption, BoundsAssumption DEF Granularity
<1>2. b \in Starts[g] /\ b <= at /\ \A t \in Starts[g] : t <= at => t <= b
  BY <1>1, BucketIs
<1>3. first \in Starts[g] /\ first <= range.from
  BY BucketIs
<1>4. first <= b /\ b < range.to
  <2>1. first \in Int /\ b \in Int
    BY <1>1, <1>2, <1>3
  <2>2. first <= at
    BY <1>1, <1>3, <2>1
  <2> HIDE DEF first, b
  <2> QED
    BY <1>1, <1>2, <1>3, <2>1, <2>2
<1>5. b \in all /\ IsFiniteSet(all) /\ all \in SUBSET Int
  <2>1. first \in Int
    BY <1>1, <1>3
  <2> HIDE DEF first, b
  <2> QED
    BY <1>1, <1>2, <1>4, <2>1, BucketsFinite
<1>6. bucketsIn(range, g) = {s \in all : Cardinality({t \in all : t < s}) < MaxBuckets}
  BY DEF bucketsIn
<1> HIDE DEF all, b
<1>7. Cardinality({t \in all : t < b}) < MaxBuckets
  <2>1. Cardinality({t \in all : t < b}) \in Nat
    BY <1>5, FS_Subset, FS_CardinalityType
  <2>2. SUFFICES ASSUME Cardinality({t \in all : t < b}) >= MaxBuckets PROVE FALSE
    BY <2>1, BoundsAssumption
  <2>3. Cardinality(bucketsIn(range, g)) >= MaxBuckets
    BY <1>5, <1>6, <2>2, ChartIsWhole
  <2>4. Cardinality(bucketsIn(range, g)) \in Nat
    <3>1. IsFiniteSet(bucketsIn(range, g))
      BY <1>5, <1>6, FS_Subset
    <3> QED
      BY <3>1, FS_CardinalityType
  <2> QED
    BY <2>3, <2>4, BoundsAssumption
<1> QED
  BY <1>5, <1>6, <1>7 DEF b

(***************************************************************************)
(* The figures.                                                            *)
(***************************************************************************)
LEMMA SaleRow ==
  ASSUME SalesInv, NEW o \in Sales, sale[o] # Unsold
  PROVE  /\ sale[o].status \in Status
         /\ sale[o].site = SiteOf[o]
         /\ sale[o].at \in 0..Horizon
  BY DEF SalesInv

LEMMA SomeSales ==
  ASSUME NEW S \in SUBSET Sales
  PROVE  IsFiniteSet(S) /\ Cardinality(S) \in Nat
  BY SalesAssumption, FS_Subset, FS_CardinalityType

LEMMA ImageIsFinite ==
  ASSUME NEW S, IsFiniteSet(S), NEW T, NEW f \in [S -> T], \A t \in T : \E x \in S : f[x] = t
  PROVE  IsFiniteSet(T)
<1>1. f \in Surjection(S, T)
  BY DEF Surjection
<1> QED
  BY <1>1, FS_Surjection

\* Amounts add up, class by class.
LEMMA AmountsAddUp ==
  ASSUME NEW S \in SUBSET Sales, NEW K, IsFiniteSet(K), NEW cls \in [S -> K], NEW rows,
         rows = [k \in K |-> Amount({o \in S : cls[o] = k})]
  PROVE  Total(rows) = Amount(S)
<1> DEFINE cost == [o \in S |-> TotalOf[o]]
           class(k) == {o \in S : cls[o] = k}
<1>1. IsFiniteSet(S) /\ cost \in [S -> Int] /\ \A o \in S : cost[o] = TotalOf[o]
  BY SomeSales, SalesAssumption
<1>2. /\ DOMAIN rows = K
      /\ \A k \in K : rows[k].spend = SumFunction([o \in class(k) |-> TotalOf[o]])
      /\ \A k \in K : rows[k].orders = Cardinality(class(k))
  BY DEF Amount
<1>3. \A k \in K : [o \in class(k) |-> TotalOf[o]] = [o \in class(k) |-> cost[o]]
  OBVIOUS
<1>4. Total(rows).spend = SumFunction([k \in K |-> SumFunction([o \in class(k) |-> cost[o]])])
  <2> HIDE DEF class, cost
  <2> QED
    BY <1>2, <1>3 DEF Total
<1>5. SumFunction([k \in K |-> SumFunction([o \in class(k) |-> cost[o]])]) = SumFunction(cost)
  <2> HIDE DEF cost
  <2> QED
    BY <1>1, SumByClass
<1>6. Total(rows).orders = SumFunction([k \in K |-> Cardinality(class(k))])
  <2> HIDE DEF class, cost
  <2> QED
    BY <1>2 DEF Total
<1>7. SumFunction([k \in K |-> Cardinality(class(k))]) = Cardinality(S)
  BY <1>1, CountByClass
<1>8. Amount(S) = [spend |-> SumFunction(cost), orders |-> Cardinality(S)]
  BY DEF Amount
<1>9. Total(rows) = [spend |-> Total(rows).spend, orders |-> Total(rows).orders]
  BY DEF Total
<1> QED
  <2> HIDE DEF cost, class
  <2> QED
    BY <1>4, <1>5, <1>6, <1>7, <1>8, <1>9

\* Statuses count to the orders that have them.
LEMMA StatusesCount ==
  ASSUME NEW S \in SUBSET Sales, NEW statuses
  PROVE  SumFunction([st \in DOMAIN statusRows(S) \cap statuses |-> statusRows(S)[st]])
           = Cardinality(OfStatus(S, statuses))
<1> DEFINE all == {sale[o].status : o \in S}
           K == all \cap statuses
           T == OfStatus(S, statuses)
           cls == [o \in T |-> sale[o].status]
<1>1. IsFiniteSet(K) /\ IsFiniteSet(T) /\ IsFiniteSet(S)
  <2>1. IsFiniteSet(S)
    BY SomeSales
  <2>2. IsFiniteSet(all)
    <3> DEFINE statusOf == [o \in S |-> sale[o].status]
    <3>1. statusOf \in [S -> all] /\ \A t \in all : \E x \in S : statusOf[x] = t
      OBVIOUS
    <3> HIDE DEF statusOf, all
    <3> QED
      BY <2>1, <3>1, ImageIsFinite
  <2>3. T \in SUBSET S /\ K \in SUBSET all
    BY DEF OfStatus
  <2> HIDE DEF T, K, all
  <2> QED
    BY <2>1, <2>2, <2>3, FS_Subset
<1>2. cls \in [T -> K]
  BY DEF OfStatus
<1>3. \A k \in K : {o \in T : cls[o] = k} = OfStatus(S, {k})
  BY DEF OfStatus
<1>4. DOMAIN statusRows(S) = all /\ \A k \in all : statusRows(S)[k] = Cardinality(OfStatus(S, {k}))
  BY DEF statusRows
<1>5. [st \in DOMAIN statusRows(S) \cap statuses |-> statusRows(S)[st]]
        = [k \in K |-> Cardinality({o \in T : cls[o] = k})]
  <2>1. \A k \in K : statusRows(S)[k] = Cardinality({o \in T : cls[o] = k})
    <3> HIDE DEF cls, T
    <3> QED
      BY <1>3, <1>4
  <2> HIDE DEF cls, T
  <2> QED
    BY <1>4, <2>1
<1> HIDE DEF cls, T, K
<1>6. SumFunction([k \in K |-> Cardinality({o \in T : cls[o] = k})]) = Cardinality(T)
  BY <1>1, <1>2, CountByClass
<1> QED
  BY <1>5, <1>6 DEF T

LEMMA SpendIs ==
  ASSUME SalesInv, NEW of, NEW range
  PROVE  /\ spendWhere(of, range) \in SUBSET Sales
         /\ \A o \in spendWhere(of, range) :
              /\ sale[o].site \in DOMAIN FirmOf
              /\ of.firm \in {Platform, FirmOf[sale[o].site]}
              /\ sale[o].at \in 0..Horizon
              /\ range.from <= sale[o].at /\ sale[o].at < range.to
<1>1. spendWhere(of, range) \in SUBSET Sales
  BY DEF spendWhere, OfStatus, Within, Matching
<1>2. ASSUME NEW o \in spendWhere(of, range)
      PROVE  /\ sale[o].site \in DOMAIN FirmOf
             /\ of.firm \in {Platform, FirmOf[sale[o].site]}
             /\ sale[o].at \in 0..Horizon
             /\ range.from <= sale[o].at /\ sale[o].at < range.to
  <2>1. /\ o \in Sales /\ sale[o] # Unsold
        /\ of.firm \in {Platform, FirmOf[sale[o].site]}
        /\ range.from <= sale[o].at /\ sale[o].at < range.to
    BY DEF spendWhere, OfStatus, Within, Matching
  <2> QED
    BY <2>1, SaleRow, SalesAssumption
<1> QED
  BY <1>1, <1>2

LEMMA ChartAddsUp ==
  ASSUME SalesInv, NEW of, of.range.from \in Int, of.range.to \in Int,
         IsDated(of.range.from), of.granularity \in Granularity,
         Cardinality(bucketsIn(of.range, of.granularity)) < MaxBuckets
  PROVE  Total(Figure("trend", of)) = Figure("current", of)
<1> DEFINE S == spendWhere(of, of.range)
           g == of.granularity
           K == bucketsIn(of.range, g)
           cls == [o \in S |-> bucketOf(sale[o].at, g)]
           rows == Figure("trend", of)
<1>1. S \in SUBSET Sales
  BY SpendIs
<1>2. IsFiniteSet(K)
  <2>1. bucketOf(of.range.from, g) \in Int
    BY BucketIs, CalendarAssumption DEF Granularity
  <2>2. IsFiniteSet({s \in Starts[g] : bucketOf(of.range.from, g) <= s /\ s < of.range.to})
    BY <2>1, BucketsFinite
  <2> QED
    BY <2>2, FS_Subset DEF bucketsIn
<1>3. cls \in [S -> K]
  <2>1. ASSUME NEW o \in S PROVE bucketOf(sale[o].at, g) \in K
    BY SpendIs, InSomeBucket
  <2> HIDE DEF S, K
  <2> QED
    BY <2>1
<1>4. rows = [k \in K |-> Amount({o \in S : cls[o] = k})]
  <2>1. rows = [k \in K |-> Amount({o \in S : bucketOf(sale[o].at, g) = k})]
    BY DEF Figure, bucketise
  <2>2. ASSUME NEW k
        PROVE  {o \in S : bucketOf(sale[o].at, g) = k} = {o \in S : cls[o] = k}
    <3> HIDE DEF S
    <3> QED
      OBVIOUS
  <2> HIDE DEF S, K, rows, cls
  <2> QED
    BY <2>1, <2>2
<1>5. Figure("current", of) = Amount(S)
  BY DEF Figure
<1> HIDE DEF S, K, cls, rows
<1>6. Total(rows) = Amount(S)
  BY <1>1, <1>2, <1>3, <1>4, AmountsAddUp
<1> QED
  BY <1>5, <1>6 DEF rows

LEMMA BranchesAddUp ==
  ASSUME NEW S \in SUBSET Sales
  PROVE  Total(siteSpendRows(S)) = Amount(S)
<1> DEFINE K == SitesOf(S)
           cls == [o \in S |-> sale[o].site]
           rows == siteSpendRows(S)
<1>1. cls \in [S -> K] /\ \A k \in K : \E o \in S : cls[o] = k
  BY DEF SitesOf
<1>2. rows = [k \in K |-> Amount({o \in S : cls[o] = k})]
  <2>1. ASSUME NEW k PROVE {o \in S : sale[o].site = k} = {o \in S : cls[o] = k}
    OBVIOUS
  <2>2. rows = [k \in K |-> Amount({o \in S : sale[o].site = k})]
    BY DEF siteSpendRows
  <2> HIDE DEF K, rows, cls
  <2> QED
    BY <2>1, <2>2
<1> HIDE DEF K, cls, rows
<1>3. IsFiniteSet(K)
  BY <1>1, SomeSales, ImageIsFinite
<1>4. Total(rows) = Amount(S)
  BY <1>1, <1>2, <1>3, AmountsAddUp
<1> QED
  BY <1>4 DEF rows

\* What a branch spent, and on how many orders, is a number.
LEMMA BranchRows ==
  ASSUME NEW S \in SUBSET Sales
  PROVE  /\ DOMAIN siteSpendRows(S) = SitesOf(S)
         /\ IsFiniteSet(SitesOf(S)) /\ Cardinality(SitesOf(S)) \in Nat
         /\ \A s \in SitesOf(S) : /\ siteSpendRows(S)[s].spend \in Nat
                                  /\ siteSpendRows(S)[s].orders \in 0..Cardinality(Sales)
<1>1. DOMAIN siteSpendRows(S) = SitesOf(S)
  BY DEF siteSpendRows
<1>2. IsFiniteSet(SitesOf(S))
  <2> DEFINE cls == [o \in S |-> sale[o].site]
  <2>1. cls \in [S -> SitesOf(S)] /\ \A k \in SitesOf(S) : \E o \in S : cls[o] = k
    BY DEF SitesOf
  <2> HIDE DEF cls
  <2> QED
    BY <2>1, SomeSales, ImageIsFinite
<1>3. ASSUME NEW s \in SitesOf(S)
      PROVE  /\ siteSpendRows(S)[s].spend \in Nat
             /\ siteSpendRows(S)[s].orders \in 0..Cardinality(Sales)
  <2> DEFINE T == {o \in S : sale[o].site = s}
             cost == [o \in T |-> TotalOf[o]]
  <2>1. T \in SUBSET Sales
    OBVIOUS
  <2>2. siteSpendRows(S)[s] = [spend |-> SumFunction(cost), orders |-> Cardinality(T)]
    BY DEF siteSpendRows, Amount
  <2>3. cost \in [T -> Nat]
    BY <2>1, SalesAssumption
  <2> HIDE DEF T, cost
  <2>4. IsFiniteSet(T) /\ Cardinality(T) \in Nat
    BY <2>1, SomeSales
  <2>5. SumFunction(cost) \in Nat
    BY <2>3, <2>4, SumType
  <2>6. Cardinality(T) <= Cardinality(Sales) /\ Cardinality(Sales) \in Nat
    BY <2>1, SalesAssumption, FS_Subset, FS_CardinalityType
  <2> QED
    BY <2>2, <2>4, <2>5, <2>6
<1> QED
  BY <1>1, <1>2, <1>3, FS_CardinalityType

\* The branches listed, of those there are: all of them, or as many as may be and
\* the biggest.
LEMMA TopBranches ==
  ASSUME NEW S \in SUBSET Sales, NEW n \in Nat, NEW top \in topOf(siteSpendRows(S), n)
  PROVE  LET branches == Cardinality(SitesOf(S))
             listed == Cardinality(DOMAIN top)
         IN  IF branches <= n
             THEN listed = branches /\ Total(top) = Amount(S)
             ELSE /\ listed = n
                  /\ Total(top).orders <= Amount(S).orders
                  /\ \A s \in DOMAIN top :
                       Amount(S).spend - Total(top).spend
                         \in 0..((branches - listed) * top[s].spend)
<1> DEFINE rows == siteSpendRows(S)
           K == SitesOf(S)
           spend == [s \in K |-> rows[s].spend]
           orders == [s \in K |-> rows[s].orders]
<1>1. /\ DOMAIN rows = K /\ IsFiniteSet(K) /\ Cardinality(K) \in Nat
      /\ \A s \in K : rows[s].spend \in Nat /\ rows[s].orders \in 0..Cardinality(Sales)
  BY BranchRows
<1>2. rows = [s \in K |-> rows[s]]
  BY DEF siteSpendRows
<1>3. Total(rows) = Amount(S)
  BY BranchesAddUp
<1> HIDE DEF rows, K
<1>4. PICK t \in SUBSET K :
        /\ Cardinality(t) <= n
        /\ t # K => Cardinality(t) = n
        /\ \A s \in t, left \in K \ t : rows[left].spend <= rows[s].spend
        /\ top = [s \in t |-> rows[s]]
  BY <1>1 DEF topOf, rows
<1>5. DOMAIN top = t /\ (\A s \in t : top[s] = rows[s]) /\ Cardinality(t) \in Nat
  BY <1>1, <1>4, FS_Subset, FS_CardinalityType
<1>6. ASSUME Cardinality(K) <= n
      PROVE  Cardinality(t) = Cardinality(K) /\ Total(top) = Amount(S)
  <2>1. t = K
    BY <1>1, <1>4, <1>5, <1>6, FS_Subset
  <2> QED
    BY <1>2, <1>3, <1>4, <2>1
<1>7. ASSUME ~(Cardinality(K) <= n)
      PROVE  /\ Cardinality(t) = n
             /\ Total(top).orders <= Amount(S).orders
             /\ \A s \in t :
                  Amount(S).spend - Total(top).spend
                    \in 0..((Cardinality(K) - Cardinality(t)) * rows[s].spend)
  <2>1. Cardinality(t) = n
    BY <1>4, <1>7
  <2>2. /\ Total(rows).spend = SumFunction([s \in K |-> spend[s]])
        /\ Total(top).spend = SumFunction([s \in t |-> spend[s]])
        /\ Total(rows).orders = SumFunction([s \in K |-> orders[s]])
        /\ Total(top).orders = SumFunction([s \in t |-> orders[s]])
    <3>1. /\ [s \in DOMAIN rows |-> rows[s].spend] = [s \in K |-> spend[s]]
          /\ [s \in DOMAIN top |-> top[s].spend] = [s \in t |-> spend[s]]
          /\ [s \in DOMAIN rows |-> rows[s].orders] = [s \in K |-> orders[s]]
          /\ [s \in DOMAIN top |-> top[s].orders] = [s \in t |-> orders[s]]
      BY <1>1, <1>5
    <3> HIDE DEF spend, orders
    <3> QED
      BY <3>1 DEF Total
  <2>3. \A s \in K : spend[s] = rows[s].spend /\ orders[s] = rows[s].orders
    OBVIOUS
  <2> HIDE DEF spend, orders
  <2>4. ASSUME NEW s \in t
        PROVE  Total(rows).spend - Total(top).spend
                 \in 0..((Cardinality(K) - Cardinality(t)) * rows[s].spend)
    <3>1. rows[s].spend \in Nat /\ (\A x \in K \ t : spend[x] <= rows[s].spend)
      BY <1>1, <1>4, <2>3
    <3>2. \A x \in K : spend[x] \in Nat
      BY <1>1, <2>3
    <3> QED
      BY <1>1, <2>2, <3>1, <3>2, SumOfTheRest
  <2>5. Total(top).orders <= Total(rows).orders
    <3>1. Cardinality(Sales) \in Nat
      BY SomeSales
    <3>2. \A x \in K : orders[x] \in 0..Cardinality(Sales)
      BY <1>1, <2>3
    <3>3. \A x \in K : orders[x] \in Nat /\ orders[x] <= Cardinality(Sales)
      BY <3>1, <3>2
    <3>4. Total(rows).orders - Total(top).orders
            \in 0..((Cardinality(K) - Cardinality(t)) * Cardinality(Sales))
      BY <1>1, <2>2, <3>1, <3>3, SumOfTheRest
    <3>5. Total(rows).orders \in Int /\ Total(top).orders \in Int
      <4>1. orders = [s \in K |-> orders[s]]
        BY DEF orders
      <4>2. [s \in K |-> orders[s]] \in [K -> Int] /\ [s \in t |-> orders[s]] \in [t -> Int]
        BY <3>3
      <4>3. IsFiniteSet(t)
        BY <1>1, FS_Subset
      <4> QED
        BY <1>1, <2>2, <4>2, <4>3, SumType
    <3> QED
      BY <3>4, <3>5
  <2> QED
    BY <1>3, <2>1, <2>4, <2>5
<1> QED
  BY <1>5, <1>6, <1>7 DEF K

\* No status is counted that no order has.
LEMMA StatusesAreHad ==
  ASSUME NEW S \in SUBSET Sales
  PROVE  \A st \in DOMAIN statusRows(S) : statusRows(S)[st] > 0
<1> SUFFICES ASSUME NEW st \in DOMAIN statusRows(S)
             PROVE  statusRows(S)[st] > 0
  OBVIOUS
<1>1. statusRows(S)[st] = Cardinality(OfStatus(S, {st})) /\ \E o \in S : sale[o].status = st
  BY DEF statusRows
<1>2. OfStatus(S, {st}) \in SUBSET Sales /\ OfStatus(S, {st}) # {}
  BY <1>1 DEF OfStatus
<1>3. Cardinality(OfStatus(S, {st})) \in Nat /\ Cardinality(OfStatus(S, {st})) # 0
  BY <1>2, SomeSales, FS_EmptySet
<1> QED
  BY <1>1, <1>3

LEMMA QueueAddsUp ==
  ASSUME NEW of, NEW range
  PROVE  LET queue == queueCounts(of)
             dated == Within(Matching(of), range)
         IN  /\ Cardinality(OfStatus(dated, OPEN_STATUSES)) <= queue.open
             /\ queue.awaitingDispatch + queue.inTransit = queue.inFulfilment
<1> DEFINE M == Matching(of)
           dispatch == OfStatus(M, AWAITING_DISPATCH_STATUSES)
           transit == OfStatus(M, IN_TRANSIT_STATUSES)
           fulfilment == OfStatus(M, IN_FULFILMENT_STATUSES)
<1>1. M \in SUBSET Sales
  BY DEF Matching
<1>2. /\ queueCounts(of).open = Cardinality(OfStatus(M, OPEN_STATUSES))
      /\ queueCounts(of).awaitingDispatch = Cardinality(dispatch)
      /\ queueCounts(of).inTransit = Cardinality(transit)
      /\ queueCounts(of).inFulfilment = Cardinality(fulfilment)
  BY DEF queueCounts
<1>3. Cardinality(OfStatus(Within(M, range), OPEN_STATUSES))
        <= Cardinality(OfStatus(M, OPEN_STATUSES))
  <2>1. OfStatus(Within(M, range), OPEN_STATUSES) \subseteq OfStatus(M, OPEN_STATUSES)
    BY DEF OfStatus, Within
  <2>2. OfStatus(M, OPEN_STATUSES) \in SUBSET Sales
    BY <1>1 DEF OfStatus
  <2> QED
    BY <2>1, <2>2, SomeSales, FS_Subset
<1>4. Cardinality(dispatch) + Cardinality(transit) = Cardinality(fulfilment)
  <2>1. /\ dispatch \in SUBSET Sales /\ transit \in SUBSET Sales
        /\ dispatch \cap transit = {} /\ dispatch \cup transit = fulfilment
    <3> HIDE DEF M
    <3> QED
      BY <1>1 DEF OfStatus, AWAITING_DISPATCH_STATUSES, IN_TRANSIT_STATUSES, IN_FULFILMENT_STATUSES
  <2> HIDE DEF dispatch, transit, fulfilment
  <2>2. /\ IsFiniteSet(dispatch) /\ IsFiniteSet(transit)
        /\ Cardinality(dispatch) \in Nat /\ Cardinality(transit) \in Nat
    BY <2>1, SomeSales
  <2>3. Cardinality(dispatch \cup transit)
          = Cardinality(dispatch) + Cardinality(transit) - Cardinality(dispatch \cap transit)
    BY <2>2, FS_Union
  <2>4. Cardinality(dispatch \cap transit) = 0
    BY <2>1, FS_EmptySet
  <2> QED
    BY <2>1, <2>2, <2>3, <2>4
<1> HIDE DEF M, dispatch, transit, fulfilment
<1> QED
  BY <1>2, <1>3, <1>4 DEF M

\* No order is both in a range and in the one before.
LEMMA CountedOnce ==
  ASSUME SalesInv, NEW of, of.range.from \in Int, of.range.to \in Int
  PROVE  Figure("current", of).orders + Figure("before", of).orders <= Cardinality(Sales)
<1> DEFINE S == spendWhere(of, of.range)
           T == spendWhere(of, previousRange(of.range))
<1>1. S \in SUBSET Sales /\ T \in SUBSET Sales
  BY SpendIs
<1>2. S \cap T = {}
  <2> SUFFICES ASSUME NEW o \in S, o \in T PROVE FALSE
    OBVIOUS
  <2>1. of.range.from <= sale[o].at /\ sale[o].at \in 0..Horizon
    BY SpendIs
  <2>2. sale[o].at < previousRange(of.range).to
    BY SpendIs
  <2>3. previousRange(of.range).to = of.range.from
    BY DEF previousRange
  <2>4. sale[o].at \in Int
    BY <2>1, BoundsAssumption
  <2> HIDE DEF S, T
  <2> QED
    BY <2>1, <2>2, <2>3, <2>4
<1>3. Figure("current", of).orders = Cardinality(S) /\ Figure("before", of).orders = Cardinality(T)
  BY DEF Figure, Amount
<1> HIDE DEF S, T
<1>4. /\ IsFiniteSet(S) /\ IsFiniteSet(T) /\ S \cup T \in SUBSET Sales
      /\ Cardinality(S) \in Nat /\ Cardinality(T) \in Nat
  BY <1>1, SomeSales
<1>5. Cardinality(S \cup T) = Cardinality(S) + Cardinality(T) - Cardinality(S \cap T)
  BY <1>4, FS_Union
<1>6. Cardinality(S \cap T) = 0
  BY <1>2, FS_EmptySet
<1>7. Cardinality(S \cup T) <= Cardinality(Sales)
  BY <1>4, SalesAssumption, FS_Subset
<1> QED
  BY <1>3, <1>4, <1>5, <1>6, <1>7

\* The figures of a dashboard whose orders did not change agree.
LEMMA DashboardAgrees ==
  ASSUME SalesInv, NEW report, NEW of, of.range.from \in Int, of.range.to \in Int,
         IsDated(of.range.from), of.granularity \in Granularity,
         report.of.topSites = of.topSites, of.topSites \in Nat,
         \A p \in Range(Parts["dashboard"]) \ {"sites"} : report.figures[p] = Figure(p, of),
         report.figures.sites \in topOf(Figure("sites", of), of.topSites)
  PROVE  FiguresAgree(report)
<1> DEFINE f == report.figures
           S == spendWhere(of, of.range)
           dated == Within(Matching(of), of.range)
           count(statuses) ==
             SumFunction([st \in DOMAIN f.byStatus \cap statuses |-> f.byStatus[st]])
<1>1. \A p \in {"current", "branches", "before", "trend", "byStatus", "queue"} :
        f[p] = Figure(p, of)
  BY DEF Parts, Range
<1>2. /\ f.current = Figure("current", of)
      /\ f.before = Figure("before", of)
      /\ f.trend = Figure("trend", of)
      /\ f.byStatus = Figure("byStatus", of)
      /\ f.queue = Figure("queue", of)
      /\ f.branches = Figure("branches", of)
  BY <1>1
<1>3. /\ f.current = Amount(S)
      /\ f.byStatus = statusRows(dated)
      /\ f.queue = queueCounts(of)
      /\ f.branches = Cardinality(SitesOf(S))
      /\ f.sites \in topOf(siteSpendRows(IF of.topSites = 0 THEN {} ELSE S), of.topSites)
      /\ DOMAIN f.trend = bucketsIn(of.range, of.granularity)
  BY <1>2 DEF Figure, bucketise
<1>4. S \in SUBSET Sales /\ dated \in SUBSET Sales
  BY SpendIs DEF Within, Matching
<1> HIDE DEF f
<1>5. \A statuses : count(statuses) = Cardinality(OfStatus(dated, statuses))
  BY <1>3, <1>4, StatusesCount
<1>6. OfStatus(dated, COMMITTED_STATUSES) = S
  BY DEF spendWhere
<1>7. f.current.orders = Cardinality(S)
  BY <1>3 DEF Amount
<1>8. Cardinality(DOMAIN f.trend) < MaxBuckets => Total(f.trend) = f.current
  BY <1>2, <1>3, ChartAddsUp
<1>9. LET listed == Cardinality(DOMAIN f.sites)
      IN  IF f.branches <= of.topSites
          THEN listed = f.branches /\ Total(f.sites) = f.current
          ELSE /\ listed = of.topSites
               /\ Total(f.sites).orders <= f.current.orders
               /\ \A s \in DOMAIN f.sites :
                    f.current.spend - Total(f.sites).spend
                      \in 0..((f.branches - listed) * f.sites[s].spend)
  <2>1. CASE of.topSites # 0 \/ S = {}
    <3>1. f.sites \in topOf(siteSpendRows(S), of.topSites)
      BY <1>3, <2>1
    <3> HIDE DEF S
    <3> QED
      BY <1>3, <1>4, <3>1, TopBranches
  <2>2. CASE of.topSites = 0 /\ S # {}
    <3>1. f.sites \in topOf(siteSpendRows({}), 0) /\ SitesOf({}) = {}
      BY <1>3, <2>2 DEF SitesOf
    <3>2. /\ Cardinality(DOMAIN f.sites) = 0 /\ Total(f.sites) = Amount({})
          /\ IsFiniteSet(DOMAIN f.sites)
      <4>1. Cardinality(SitesOf({})) = 0
        BY <3>1, FS_EmptySet
      <4>2. {} \in SUBSET Sales /\ 0 \in Nat
        OBVIOUS
      <4>3. DOMAIN f.sites \subseteq {}
        BY <3>1 DEF topOf, siteSpendRows
      <4>4. Cardinality(DOMAIN f.sites) = Cardinality(SitesOf({})) /\ Total(f.sites) = Amount({})
        BY <3>1, <4>1, <4>2, TopBranches
      <4> QED
        BY <4>1, <4>3, <4>4, FS_EmptySet
    <3>3. DOMAIN f.sites = {}
      BY <3>2, FS_EmptySet
    <3>4. Total(f.sites).orders = 0 /\ f.current.orders \in Nat
      BY <1>3, <1>4, <3>2, SomeSales, FS_EmptySet DEF Amount
    <3>5. f.branches \in Nat /\ f.branches # 0
      <4>1. SitesOf(S) # {} /\ IsFiniteSet(SitesOf(S)) /\ Cardinality(SitesOf(S)) \in Nat
        <5> HIDE DEF S
        <5>1. PICK o \in S : TRUE
          BY <2>2
        <5>2. sale[o].site \in SitesOf(S)
          BY DEF SitesOf
        <5>3. IsFiniteSet(SitesOf(S)) /\ Cardinality(SitesOf(S)) \in Nat
          BY <1>4, BranchRows
        <5> QED
          BY <5>2, <5>3
      <4> QED
        BY <1>3, <4>1, FS_EmptySet
    <3> QED
      BY <2>2, <3>2, <3>3, <3>4, <3>5
  <2> QED
    BY <2>1, <2>2
<1>10. \A st \in DOMAIN f.byStatus : f.byStatus[st] > 0
  BY <1>3, <1>4, StatusesAreHad
<1>11. /\ Cardinality(OfStatus(dated, OPEN_STATUSES)) <= f.queue.open
       /\ f.queue.awaitingDispatch + f.queue.inTransit = f.queue.inFulfilment
  BY <1>3, QueueAddsUp
<1>12. f.current.orders + f.before.orders <= Cardinality(Sales)
  BY <1>2, CountedOnce
<1> HIDE DEF S, dated
<1> QED
  BY <1>5, <1>6, <1>7, <1>8, <1>9, <1>10, <1>11, <1>12 DEF FiguresAgree, f

(***************************************************************************)
(* What each step leaves as it was.                                        *)
(***************************************************************************)
LEMMA SameFigure ==
  ASSUME UNCHANGED sale, NEW p \in FigureNames, NEW of
  PROVE  Figure(p, of)' = Figure(p, of)
<1>1. Matching(of)' = Matching(of)
  BY DEF Matching
<1>2. \A range : spendWhere(of, range)' = spendWhere(of, range)
  BY <1>1 DEF spendWhere, OfStatus, Within
<1>3. queueCounts(of)' = queueCounts(of)
  BY <1>1 DEF queueCounts, OfStatus
<1>4. statusRows(Within(Matching(of), of.range))' = statusRows(Within(Matching(of), of.range))
  BY <1>1 DEF statusRows, OfStatus, Within
<1>5. ASSUME NEW S PROVE siteSpendRows(S)' = siteSpendRows(S) /\ SitesOf(S)' = SitesOf(S)
  <2>1. ASSUME NEW s PROVE {o \in S : sale'[o].site = s} = {o \in S : sale[o].site = s}
    OBVIOUS
  <2>2. {sale'[o].site : o \in S} = {sale[o].site : o \in S}
    OBVIOUS
  <2> QED
    BY <2>1, <2>2 DEF siteSpendRows, SitesOf
<1>6. ASSUME NEW range
      PROVE  bucketise(spendWhere(of, range), range, of.granularity)'
               = bucketise(spendWhere(of, range), range, of.granularity)
  <2>1. PICK S : S = spendWhere(of, range) /\ S = spendWhere(of, range)'
    BY <1>2
  <2>2. bucketise(S, range, of.granularity)' = bucketise(S, range, of.granularity)
    <3>1. ASSUME NEW b
          PROVE  {o \in S : bucketOf(sale'[o].at, of.granularity) = b}
                   = {o \in S : bucketOf(sale[o].at, of.granularity) = b}
      OBVIOUS
    <3> QED
      BY <3>1 DEF bucketise
  <2> QED
    BY <2>1, <2>2
<1>7. CASE p \in {"current", "before"}
  BY <1>2, <1>7 DEF Figure
<1>8. CASE p = "trend"
  BY <1>6, <1>8 DEF Figure
<1>9. CASE p = "trendBefore"
  BY <1>6, <1>9 DEF Figure
<1>10. CASE p \in {"sites", "branches"}
  <2>1. PICK S : S = spendWhere(of, of.range) /\ S = spendWhere(of, of.range)'
    BY <1>2
  <2>2. PICK T : T = IF of.topSites = 0 THEN {} ELSE S
    OBVIOUS
  <2>3. /\ Figure("sites", of) = siteSpendRows(T) /\ Figure("sites", of)' = siteSpendRows(T)'
        /\ Figure("branches", of) = Cardinality(SitesOf(S))
        /\ Figure("branches", of)' = Cardinality(SitesOf(S)')
    BY <2>1, <2>2 DEF Figure
  <2> QED
    BY <1>5, <1>10, <2>3
<1>11. CASE p = "byStatus"
  BY <1>4, <1>11 DEF Figure
<1>12. CASE p = "queue"
  BY <1>3, <1>12 DEF Figure
<1> QED
  BY <1>7, <1>8, <1>9, <1>10, <1>11, <1>12 DEF FigureNames

LEMMA FiguresStart == ReportsInit => ReportsInv
<1> SUFFICES ASSUME ReportsInit PROVE ReportsInv
  OBVIOUS
<1>1. SalesInv
  BY BoundsAssumption DEF ReportsInit, SalesInv
<1>2. DOMAIN sale = Sales /\ DOMAIN view = Viewers /\ DOMAIN cache = {}
  BY DEF ReportsInit
<1>3. \A v \in Viewers : view[v].op = "away"
  BY DEF ReportsInit, Away
<1> QED
  BY <1>1, <1>2, <1>3 DEF ReportsInv, AsRead

\* A step of one viewer leaves the others what they have.
LEMMA ViewersKept ==
  ASSUME ReportsInv, UNCHANGED <<sale, now>>, NEW v \in Viewers, NEW k, At(v, k),
         k.op \in {"away", "computing", "shown"},
         k.op = "computing" =>
           /\ IsComputing(k)
           /\ ~k.torn => \A p \in DOMAIN k.figures : k.figures[p] = Figure(p, k.of),
         k.op = "shown" => IsShown(k),
         \A key \in DOMAIN cache' : IsFor(cache'[key].report, key)
  PROVE  ReportsInv'
<1>1. SalesInv' /\ DOMAIN sale' = Sales /\ DOMAIN view' = Viewers
  BY DEF ReportsInv, SalesInv, At
<1>2. view'[v] = k /\ \A w \in Viewers \ {v} : view'[w] = view[w]
  BY DEF ReportsInv, At
<1>3. ASSUME NEW w \in Viewers
      PROVE  /\ view'[w].op \in {"away", "computing", "shown"}
             /\ view'[w].op = "computing" => IsComputing(view'[w])
             /\ view'[w].op = "shown" => IsShown(view'[w])
  BY <1>2 DEF ReportsInv
<1>4. ASSUME NEW w \in Viewers, view'[w].op = "computing", ~view'[w].torn,
             NEW p \in DOMAIN view'[w].figures
      PROVE  view'[w].figures[p] = Figure(p, view[w].of)'
  <2>1. PICK of : of = view'[w].of
    OBVIOUS
  <2>2. view'[w].figures[p] = Figure(p, of)
    <3>1. CASE w = v
      BY <1>2, <1>4, <2>1, <3>1
    <3>2. CASE w # v
      BY <1>2, <1>4, <2>1, <3>2 DEF ReportsInv, AsRead
    <3> QED
      BY <3>1, <3>2
  <2>3. p \in FigureNames
    BY <1>3, <1>4 DEF IsComputing
  <2>4. Figure(p, of)' = Figure(p, of)
    BY <2>3, SameFigure
  <2> QED
    BY <2>1, <2>2, <2>4
<1>5. ASSUME NEW w \in Viewers PROVE AsRead(w)'
  BY <1>4 DEF AsRead
<1> QED
  BY <1>1, <1>3, <1>5 DEF ReportsInv

\* Nobody's report is shown under a key that is not theirs.
LEMMA KeyIs ==
  ASSUME NEW caller, NEW query
  PROVE  LET key == cacheKey(caller, query)
         IN  /\ key.kind = query.kind
             /\ key.firm = resolveAccount(caller, query)
             /\ key.site = query.site
             /\ key.limit = query.topSites
             /\ key.from = query.from
             /\ key.granularity = query.granularity
  BY DEF cacheKey

LEMMA ServeCachedKeeps ==
  ASSUME ReportsInv, NEW v \in Viewers, NEW caller \in Callers, NEW query \in Queries,
         ServeCached(v, caller, query)
  PROVE  ReportsInv'
<1> DEFINE key == cacheKey(caller, query)
<1>1. /\ key \in DOMAIN cache
      /\ query.scope = Platform => caller.admin
      /\ At(v, Shown(caller, query, cache[key].report))
      /\ UNCHANGED <<sale, now, cache>>
  BY DEF ServeCached, mayAsk
<1>2. PICK k : k = Shown(caller, query, cache[key].report)
  OBVIOUS
<1>3. k.op = "shown" /\ k.caller = caller /\ k.query = query /\ k.report = cache[key].report
  BY <1>2 DEF Shown
<1>4. IsFor(k.report, key)
  BY <1>1, <1>3 DEF ReportsInv
<1>5. IsShown(k)
  BY <1>1, <1>3, <1>4 DEF IsShown, MayAsk
<1>6. \A x \in DOMAIN cache' : IsFor(cache'[x].report, x)
  BY <1>1 DEF ReportsInv
<1> QED
  BY <1>1, <1>2, <1>3, <1>5, <1>6, ViewersKept

LEMMA LeaveKeeps ==
  ASSUME ReportsInv, NEW v \in Viewers, Leave(v)
  PROVE  ReportsInv'
<1>1. At(v, Away) /\ UNCHANGED <<sale, now, cache>> /\ Away.op = "away"
  BY DEF Leave, Away
<1>2. \A x \in DOMAIN cache' : IsFor(cache'[x].report, x)
  BY <1>1 DEF ReportsInv
<1> QED
  BY <1>1, <1>2, ViewersKept

LEMMA RangeIsDated ==
  ASSUME SalesInv, NEW query \in Queries, NEW range, range = resolveRange(query, now)
  PROVE  /\ range.from \in Int /\ range.to \in Int /\ IsDated(range.from)
         /\ query.from # NotGiven => range.from = query.from
<1>1. now \in 0..Horizon
  BY DEF SalesInv
<1>2. startOfNextUtcDay(now) \in Int
  <2> DEFINE later == {s \in Starts["day"] : s > now}
  <2>1. PICK s \in Starts["day"] : s > now /\ \A t \in Starts["day"] : t > now => s <= t
    BY <1>1, CalendarAssumption
  <2>2. s \in later /\ \A t \in later : s <= t
    BY <2>1
  <2>3. Min(later) \in later
    BY <2>2 DEF Min
  <2>4. later \subseteq Int
    BY CalendarAssumption
  <2> QED
    BY <2>3, <2>4 DEF startOfNextUtcDay
<1>3. /\ query.from \in Int \cup {NotGiven}
      /\ query.to \in Int \cup {NotGiven}
      /\ NotGiven \notin Int
  BY AskersAssumption
<1>4. range.to \in Int
  BY <1>2, <1>3 DEF resolveRange
<1>5. /\ range.from \in Int
      /\ query.from # NotGiven => range.from = query.from
  BY <1>2, <1>3, BoundsAssumption DEF resolveRange
<1>6. IsDated(range.from)
  BY <1>1, CalendarAssumption
<1> QED
  BY <1>4, <1>5, <1>6

LEMMA ComputeKeeps ==
  ASSUME ReportsInv, NEW v \in Viewers, NEW caller \in Callers, NEW query \in Queries,
         Compute(v, caller, query)
  PROVE  ReportsInv'
<1>1. PICK range : range = resolveRange(query, now)
  OBVIOUS
<1> DEFINE granularity == IF query.granularity = NotGiven
                          THEN defaultGranularity(range) ELSE query.granularity
           of == [firm |-> resolveAccount(caller, query), range |-> range,
                  site |-> query.site, topSites |-> query.topSites,
                  granularity |-> granularity]
           k == [op |-> "computing", caller |-> caller, query |-> query, of |-> of,
                 figures |-> [p \in {} |-> 0], torn |-> FALSE]
<1>2. /\ query.scope = Platform => caller.admin
      /\ range.from < range.to
      /\ At(v, k)
      /\ UNCHANGED <<sale, now, cache>>
  BY <1>1 DEF Compute, mayAsk
<1>3. /\ range.from \in Int /\ range.to \in Int /\ IsDated(range.from)
      /\ query.from # NotGiven => range.from = query.from
  BY <1>1, RangeIsDated DEF ReportsInv
<1>4. granularity \in Granularity /\ (query.granularity # NotGiven => granularity = query.granularity)
  BY AskersAssumption, CalendarAssumption DEF defaultGranularity, Granularity
<1> HIDE DEF granularity
<1>5. IsAsked(caller, query, of)
  BY <1>2, <1>3, <1>4 DEF IsAsked
<1>6. /\ k.op = "computing" /\ k.caller = caller /\ k.query = query /\ k.of = of
      /\ DOMAIN k.figures = {} /\ k.torn = FALSE
      /\ k.figures = [p \in DOMAIN k.figures |-> k.figures[p]]
      /\ k = [op |-> "computing", caller |-> k.caller, query |-> k.query, of |-> k.of,
              figures |-> k.figures, torn |-> k.torn]
  OBVIOUS
<1> HIDE DEF of, k
<1>7. IsComputing(k)
  BY <1>2, <1>5, <1>6 DEF IsComputing, MayAsk, OwnSites
<1>8. \A x \in DOMAIN cache' : IsFor(cache'[x].report, x)
  BY <1>2 DEF ReportsInv
<1> QED
  BY <1>2, <1>6, <1>7, <1>8, ViewersKept

LEMMA RunQueryKeeps ==
  ASSUME ReportsInv, NEW v \in Viewers, NEW i \in 1..7, RunQuery(v, i)
  PROVE  ReportsInv'
<1>1. PICK old : old = view[v]
  OBVIOUS
<1>2. IsComputing(old) /\ old.op = "computing" /\ AsRead(v) /\ SalesInv
  BY <1>1 DEF RunQuery, ReportsInv
<1>3. PICK part, fig : part = Parts[old.query.kind][i] /\ fig = Figure(part, old.of)
  OBVIOUS
<1> DEFINE figures == [p \in DOMAIN old.figures \cup {part} |->
                         IF p = part THEN fig ELSE old.figures[p]]
           k == [old EXCEPT !.figures = figures]
<1>4. i \in DOMAIN Parts[old.query.kind] /\ At(v, k) /\ UNCHANGED <<sale, now, cache>>
  <2>1. /\ i \in DOMAIN Parts[old.query.kind]
        /\ At(v, [old EXCEPT !.figures =
                    [p \in DOMAIN old.figures \cup {part} |->
                       IF p = part THEN Figure(part, old.of) ELSE old.figures[p]]])
        /\ UNCHANGED <<sale, now, cache>>
    BY <1>1, <1>3 DEF RunQuery
  <2> QED
    BY <2>1, <1>3
<1>5. part \in FigureNames
  <2>1. old.query.kind \in DOMAIN Parts
    BY <1>2, KindsAssumption DEF IsComputing, MayAsk
  <2> QED
    BY <1>3, <1>4, <2>1 DEF Parts, FigureNames
<1>6. /\ k = [op |-> "computing", caller |-> old.caller, query |-> old.query, of |-> old.of,
              figures |-> figures, torn |-> old.torn]
  BY <1>2 DEF IsComputing
<1> HIDE DEF k
<1>7. /\ DOMAIN figures = DOMAIN old.figures \cup {part}
      /\ figures = [p \in DOMAIN figures |-> figures[p]]
      /\ figures[part] = fig
      /\ \A p \in DOMAIN figures : p # part => figures[p] = old.figures[p] /\ p \in DOMAIN old.figures
  OBVIOUS
<1> HIDE DEF figures
<1>8. OwnSites(old.of, figures)
  <2>1. CASE part = "sites"
    <3>1. PICK S : /\ S \in SUBSET spendWhere(old.of, old.of.range)
                   /\ figures.sites = siteSpendRows(S)
      BY <1>3, <1>7, <2>1 DEF Figure
    <3>2. \A s \in DOMAIN figures.sites : old.of.firm \in {Platform, FirmOf[s]}
      BY <1>2, <3>1, SpendIs DEF siteSpendRows, SitesOf
    <3> QED
      BY <3>2 DEF OwnSites
  <2>2. CASE part # "sites"
    BY <1>2, <1>7, <2>2 DEF OwnSites, IsComputing
  <2> QED
    BY <2>1, <2>2
<1>9. IsComputing(k) /\ k.op = "computing"
  BY <1>2, <1>5, <1>6, <1>7, <1>8 DEF IsComputing
<1>10. ~k.torn => \A p \in DOMAIN k.figures : k.figures[p] = Figure(p, k.of)
  <2> SUFFICES ASSUME ~old.torn, NEW p \in DOMAIN figures
               PROVE  figures[p] = Figure(p, old.of)
    BY <1>6
  <2>1. CASE p = part
    BY <1>3, <1>7, <2>1
  <2>2. CASE p # part
    BY <1>1, <1>2, <1>7, <2>2 DEF AsRead
  <2> QED
    BY <2>1, <2>2
<1>11. \A x \in DOMAIN cache' : IsFor(cache'[x].report, x)
  BY <1>4 DEF ReportsInv
<1> QED
  BY <1>4, <1>9, <1>10, <1>11, ViewersKept

LEMMA CompleteIsFor ==
  ASSUME ReportsInv, NEW v \in Viewers, Complete(v), NEW k, k = view[v],
         NEW report \in ReportsOf(k)
  PROVE  MayAsk(k.caller, k.query) /\ IsFor(report, cacheKey(k.caller, k.query))
<1>1. /\ IsComputing(k) /\ AsRead(v) /\ SalesInv
      /\ DOMAIN k.figures = Range(Parts[k.query.kind])
  BY DEF Complete, ReportsInv
<1>2. PICK key : key = cacheKey(k.caller, k.query)
  OBVIOUS
<1>3. /\ report.kind = k.query.kind /\ report.of = k.of /\ report.torn = k.torn
      /\ \/ k.query.kind # "dashboard" /\ report.figures = k.figures
         \/ /\ k.query.kind = "dashboard"
            /\ \E top \in topOf(k.figures.sites, k.of.topSites) :
                 report.figures = [k.figures EXCEPT !.sites = top]
  BY DEF ReportsOf
<1>4. /\ key.kind = k.query.kind
      /\ key.firm = resolveAccount(k.caller, k.query)
      /\ key.site = k.query.site
      /\ key.limit = k.query.topSites
      /\ key.from = k.query.from
      /\ key.granularity = k.query.granularity
  BY <1>2, KeyIs
<1>5. /\ MayAsk(k.caller, k.query) /\ IsAsked(k.caller, k.query, k.of)
      /\ OwnSites(k.of, k.figures)
  BY <1>1 DEF IsComputing
<1>6. CASE k.query.kind # "dashboard"
  <2>1. IsFor(report, key)
    BY <1>3, <1>4, <1>5, <1>6 DEF IsFor, IsAsked
  <2> QED
    BY <1>2, <1>5, <2>1
<1>7. CASE k.query.kind = "dashboard"
  <2>1. PICK top \in topOf(k.figures.sites, k.of.topSites) :
          report.figures = [k.figures EXCEPT !.sites = top]
    BY <1>3, <1>7
  <2>2. DOMAIN k.figures = Range(Parts["dashboard"]) /\ "sites" \in DOMAIN k.figures
    BY <1>1, <1>7 DEF Parts, Range
  <2>3. k.figures = [p \in DOMAIN k.figures |-> k.figures[p]]
    BY <1>1 DEF IsComputing
  <2>4. /\ DOMAIN report.figures = DOMAIN k.figures
        /\ report.figures.sites = top
        /\ \A p \in DOMAIN k.figures \ {"sites"} : report.figures[p] = k.figures[p]
    BY <2>1, <2>2, <2>3
  <2>5. DOMAIN top \subseteq DOMAIN k.figures.sites
    BY <2>1 DEF topOf
  <2>6. OwnSites(report.of, report.figures)
    BY <1>3, <1>5, <2>2, <2>4, <2>5 DEF OwnSites
  <2>7. ASSUME ~report.torn PROVE FiguresAgree(report)
    <3>1. \A p \in DOMAIN k.figures : k.figures[p] = Figure(p, k.of)
      BY <1>1, <1>3, <2>7 DEF AsRead, Complete
    <3>2. \A p \in Range(Parts["dashboard"]) \ {"sites"} : report.figures[p] = Figure(p, k.of)
      BY <2>2, <2>4, <3>1
    <3>3. report.figures.sites \in topOf(Figure("sites", k.of), k.of.topSites)
      BY <2>1, <2>2, <2>4, <3>1
    <3>4. report.of.topSites = k.of.topSites /\ k.of.topSites \in Nat
      BY <1>3, <1>5, <1>7, AskersAssumption DEF IsAsked, MayAsk
    <3> QED
      BY <1>1, <1>5, <3>2, <3>3, <3>4, DashboardAgrees DEF IsAsked
  <2>8. IsFor(report, key)
    BY <1>3, <1>4, <1>5, <2>6, <2>7 DEF IsFor, IsAsked
  <2> QED
    BY <1>2, <1>5, <2>8
<1> QED
  BY <1>6, <1>7

LEMMA AnswerKeeps ==
  ASSUME ReportsInv, NEW v \in Viewers, Answer(v) \/ AnswerUncached(v)
  PROVE  ReportsInv'
<1>1. PICK old : old = view[v]
  OBVIOUS
<1>2. PICK key : key = cacheKey(old.caller, old.query)
  OBVIOUS
<1>9. PICK report \in ReportsOf(old) :
        /\ At(v, Shown(old.caller, old.query, report))
        /\ \/ UNCHANGED cache
           \/ cache' = [x \in DOMAIN cache \cup {key} |->
                          IF x = key THEN [report |-> report, expires |-> now + TTL] ELSE cache[x]]
  BY <1>1, <1>2 DEF Answer, AnswerUncached
<1>3. PICK k : k = Shown(old.caller, old.query, report)
  OBVIOUS
<1>4. /\ Complete(v) /\ At(v, k) /\ UNCHANGED <<sale, now>>
      /\ \/ UNCHANGED cache
         \/ cache' = [x \in DOMAIN cache \cup {key} |->
                        IF x = key THEN [report |-> report, expires |-> now + TTL] ELSE cache[x]]
  BY <1>1, <1>2, <1>3, <1>9 DEF Answer, AnswerUncached
<1>5. MayAsk(old.caller, old.query) /\ IsFor(report, key)
  BY <1>1, <1>2, <1>4, CompleteIsFor
<1>6. k.op = "shown" /\ k.caller = old.caller /\ k.query = old.query /\ k.report = report
  BY <1>3 DEF Shown
<1>7. IsShown(k)
  BY <1>2, <1>5, <1>6 DEF IsShown
<1>8. \A x \in DOMAIN cache' : IsFor(cache'[x].report, x)
  <2>1. \A x \in DOMAIN cache : IsFor(cache[x].report, x)
    BY DEF ReportsInv
  <2>2. CASE UNCHANGED cache
    BY <2>1, <2>2
  <2>3. CASE cache' = [x \in DOMAIN cache \cup {key} |->
                         IF x = key THEN [report |-> report, expires |-> now + TTL] ELSE cache[x]]
    <3> SUFFICES ASSUME NEW x \in DOMAIN cache' PROVE IsFor(cache'[x].report, x)
      OBVIOUS
    <3>1. CASE x = key
      <4>1. cache'[x].report = report
        BY <2>3, <3>1
      <4> QED
        BY <1>5, <3>1, <4>1
    <3>2. CASE x # key
      <4>1. cache'[x] = cache[x] /\ x \in DOMAIN cache
        BY <2>3, <3>2
      <4> QED
        BY <2>1, <4>1
    <3> QED
      BY <3>1, <3>2
  <2> QED
    BY <1>4, <2>2, <2>3
<1> QED
  BY <1>4, <1>6, <1>7, <1>8, ViewersKept

LEMMA TickKeeps ==
  ASSUME ReportsInv, Tick
  PROVE  ReportsInv'
<1>1. SalesInv' /\ DOMAIN sale' = Sales /\ DOMAIN view' = Viewers /\ view' = view
  BY BoundsAssumption DEF Tick, ReportsInv, SalesInv
<1>2. ASSUME NEW w \in Viewers, view[w].op = "computing", ~view[w].torn,
             NEW p \in DOMAIN view[w].figures
      PROVE  view[w].figures[p] = Figure(p, view[w].of)'
  <2>1. PICK of : of = view[w].of /\ of = view'[w].of
    BY <1>1
  <2>2. view[w].figures[p] = Figure(p, of) /\ p \in FigureNames
    <3>1. IsComputing(view[w]) /\ AsRead(w)
      BY <1>2 DEF ReportsInv
    <3>2. DOMAIN view[w].figures \subseteq FigureNames
      BY <3>1 DEF IsComputing
    <3> QED
      BY <1>2, <2>1, <3>1, <3>2 DEF AsRead
  <2>3. Figure(p, of)' = Figure(p, of)
    BY <2>2, SameFigure DEF Tick
  <2> QED
    BY <2>1, <2>2, <2>3
<1>3. \A w \in Viewers : AsRead(w)'
  BY <1>1, <1>2 DEF AsRead
<1>4. \A x \in DOMAIN cache' : IsFor(cache'[x].report, x)
  BY DEF Tick, ReportsInv
<1> QED
  BY <1>1, <1>3, <1>4 DEF ReportsInv

\* An order that changes tears the reports under way.
LEMMA TearKeeps ==
  ASSUME ReportsInv, SalesInv', DOMAIN sale' = Sales, TearReports, UNCHANGED cache
  PROVE  ReportsInv'
<1>1. DOMAIN view' = Viewers
  BY DEF TearReports
<1>2. ASSUME NEW w \in Viewers
      PROVE  /\ view'[w].op \in {"away", "computing", "shown"}
             /\ view'[w].op = "computing" =>
                  IsComputing(view'[w]) /\ (~view'[w].torn => DOMAIN view'[w].figures = {})
             /\ view'[w].op = "shown" => IsShown(view'[w])
  <2>1. PICK old : old = view[w]
    OBVIOUS
  <2>2. /\ old.op \in {"away", "computing", "shown"}
        /\ old.op = "computing" => IsComputing(old)
        /\ old.op = "shown" => IsShown(old)
    BY <2>1 DEF ReportsInv
  <2>3. CASE old.op = "computing" /\ DOMAIN old.figures # {}
    <3>1. PICK yes : yes = TRUE
      OBVIOUS
    <3> DEFINE k == [old EXCEPT !.torn = yes]
    <3>2. view'[w] = k
      BY <2>1, <2>3, <3>1 DEF TearReports
    <3>3. k = [op |-> "computing", caller |-> old.caller, query |-> old.query, of |-> old.of,
               figures |-> old.figures, torn |-> yes]
      BY <2>2, <2>3 DEF IsComputing
    <3> HIDE DEF k
    <3>4. IsComputing(k) /\ k.op = "computing" /\ k.torn
      BY <2>2, <2>3, <3>1, <3>3 DEF IsComputing
    <3> QED
      BY <3>2, <3>4
  <2>4. CASE ~(old.op = "computing" /\ DOMAIN old.figures # {})
    <3>1. view'[w] = old
      BY <2>1, <2>4 DEF TearReports
    <3> QED
      BY <2>2, <2>4, <3>1
  <2> QED
    BY <2>3, <2>4
<1>3. \A w \in Viewers : AsRead(w)'
  BY <1>2 DEF AsRead
<1>4. \A x \in DOMAIN cache' : IsFor(cache'[x].report, x)
  BY DEF ReportsInv
<1> QED
  BY <1>1, <1>2, <1>3, <1>4 DEF ReportsInv

LEMMA SalesKeep ==
  ASSUME ReportsInv, NEW o \in Sales,
         \/ \E status \in {"PENDING_APPROVAL", "APPROVED"} : PlaceSale(o, status)
         \/ \E to \in Status : MoveSale(o, to)
  PROVE  ReportsInv'
<1>1. SalesInv /\ DOMAIN sale = Sales
  BY DEF ReportsInv
<1>2. TearReports /\ UNCHANGED <<now, cache>>
  BY DEF PlaceSale, MoveSale
<1>3. /\ sale' = [sale EXCEPT ![o] = sale'[o]]
      /\ sale'[o] \in [status : Status, site : {SiteOf[o]}, at : 0..Horizon]
  <2>1. ASSUME NEW status \in {"PENDING_APPROVAL", "APPROVED"}, PlaceSale(o, status)
        PROVE  /\ sale' = [sale EXCEPT ![o] = sale'[o]]
               /\ sale'[o] \in [status : Status, site : {SiteOf[o]}, at : 0..Horizon]
    BY <1>1, <2>1 DEF PlaceSale, SalesInv, Status
  <2>2. ASSUME NEW to \in Status, MoveSale(o, to)
        PROVE  /\ sale' = [sale EXCEPT ![o] = sale'[o]]
               /\ sale'[o] \in [status : Status, site : {SiteOf[o]}, at : 0..Horizon]
    BY <1>1, <2>2 DEF MoveSale, SalesInv
  <2> QED
    BY <2>1, <2>2
<1>4. SalesInv' /\ DOMAIN sale' = Sales
  BY <1>1, <1>2, <1>3 DEF SalesInv
<1> QED
  BY <1>2, <1>4, TearKeeps

(***************************************************************************)
(* The figures of a report agree, the branches it lists are the biggest,   *)
(* as many as were asked for, and nobody is shown another account's        *)
(* figures (reports.service.ts, cache.service.ts).                         *)
(***************************************************************************)
THEOREM ReportsAreTold == ReportsSpec => []FiguresAreTold
<1>1. ReportsInv /\ [ReportsNext]_reportVars => ReportsInv'
  <2> SUFFICES ASSUME ReportsInv, [ReportsNext]_reportVars PROVE ReportsInv'
    OBVIOUS
  <2>1. CASE UNCHANGED reportVars
    <3>1. SalesInv' /\ DOMAIN sale' = Sales /\ DOMAIN view' = Viewers /\ view' = view
      BY <2>1 DEF reportVars, ReportsInv, SalesInv
    <3>2. ASSUME NEW w \in Viewers, view[w].op = "computing", ~view[w].torn,
                 NEW p \in DOMAIN view[w].figures
          PROVE  view[w].figures[p] = Figure(p, view[w].of)'
      <4>1. PICK of : of = view[w].of /\ of = view'[w].of
        BY <3>1
      <4>2. view[w].figures[p] = Figure(p, of) /\ p \in FigureNames
        <5>1. IsComputing(view[w]) /\ AsRead(w)
          BY <3>2 DEF ReportsInv
        <5>2. DOMAIN view[w].figures \subseteq FigureNames
          BY <5>1 DEF IsComputing
        <5> QED
          BY <3>2, <4>1, <5>1, <5>2 DEF AsRead
      <4>3. Figure(p, of)' = Figure(p, of)
        BY <2>1, <4>2, SameFigure DEF reportVars
      <4> QED
        BY <4>1, <4>2, <4>3
    <3>3. \A w \in Viewers : AsRead(w)'
      BY <3>1, <3>2 DEF AsRead
    <3> QED
      BY <2>1, <3>1, <3>3 DEF ReportsInv, reportVars
  <2>2. CASE \E v \in Viewers :
               \/ \E caller \in Callers, query \in Queries :
                    ServeCached(v, caller, query) \/ Compute(v, caller, query)
               \/ \E i \in 1..7 : RunQuery(v, i)
               \/ Answer(v) \/ AnswerUncached(v) \/ Leave(v)
    BY <2>2, ServeCachedKeeps, ComputeKeeps, RunQueryKeeps, AnswerKeeps, LeaveKeeps
  <2>3. CASE \E o \in Sales :
               \/ \E status \in {"PENDING_APPROVAL", "APPROVED"} : PlaceSale(o, status)
               \/ \E to \in Status : MoveSale(o, to)
    BY <2>3, SalesKeep
  <2>4. CASE Tick
    BY <2>4, TickKeeps
  <2> QED
    BY <2>1, <2>2, <2>3, <2>4 DEF ReportsNext
<1>2. ReportsInv => FiguresAreTold
  <2> SUFFICES ASSUME ReportsInv, NEW w \in Viewers, view[w].op = "shown", NEW k, k = view[w]
               PROVE  /\ k.report.kind = "dashboard" /\ ~k.report.torn => FiguresAgree(k.report)
                      /\ k.report.kind = k.query.kind
                      /\ k.report.of.firm = resolveAccount(k.caller, k.query)
                      /\ ~k.caller.admin => k.report.of.firm = k.caller.firm
                      /\ k.report.of.site = k.query.site
                      /\ k.report.of.topSites = k.query.topSites
                      /\ k.query.from # NotGiven => k.report.of.range.from = k.query.from
                      /\ k.query.granularity # NotGiven =>
                           k.report.of.granularity = k.query.granularity
                      /\ "sites" \in DOMAIN k.report.figures =>
                           \A s \in DOMAIN k.report.figures.sites :
                             k.caller.admin \/ FirmOf[s] = k.caller.firm
    BY DEF FiguresAreTold, ReportsAddUp, NobodyElsesNumbers, ReportsOnScreen
  <2>1. /\ MayAsk(k.caller, k.query)
        /\ IsFor(k.report, cacheKey(k.caller, k.query))
    BY DEF ReportsInv, IsShown
  <2>2. PICK key : key = cacheKey(k.caller, k.query)
    OBVIOUS
  <2>3. /\ key.kind = k.query.kind
        /\ key.firm = resolveAccount(k.caller, k.query)
        /\ key.site = k.query.site
        /\ key.limit = k.query.topSites
        /\ key.from = k.query.from
        /\ key.granularity = k.query.granularity
    BY <2>2, KeyIs
  <2>4. /\ k.caller.firm # Platform /\ k.caller.admin \in BOOLEAN
        /\ k.query.scope = Platform => k.caller.admin
    BY <2>1, AskersAssumption DEF MayAsk
  <2>5. ~k.caller.admin => key.firm = k.caller.firm
    BY <2>3, <2>4 DEF resolveAccount
  <2> QED
    BY <2>1, <2>2, <2>3, <2>4, <2>5 DEF IsFor, OwnSites
<1> QED
  BY <1>1, <1>2, FiguresStart, PTL DEF ReportsSpec
=============================================================================
