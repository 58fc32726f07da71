----------------------------- MODULE ProgramsProofs -----------------------------
(***************************************************************************)
(* Theorems about HfDownload, for any set of files, any number of segments *)
(* and any number of failures, kills and deletions; and, at the end, about *)
(* ServerRestart, for any number of clients, failures and processes.       *)
(***************************************************************************)
EXTENDS MCPrograms, TLAPS

(* What the worker of a file knows at each place of its run.               *)
WorkerKnows(f) ==
  /\ task[f] = "replace" => partial[f] = Segments
  /\ task[f] = "tidy" => partial[f] = None /\ output[f] = Segments
  /\ task[f] = "init" => partial[f] = {} /\ meta[f] \in {None, Torn}
  /\ running /\ task[f] = "done" => output[f] = Segments

(* In a segmented download the metadata in memory is the one on disk, what *)
(* it records and what has landed is in the file, and as long as nothing   *)
(* failed each segment is recorded, landed or still to come.               *)
SegmentsAccounted(f) ==
  IF task[f] = "segments"
  THEN /\ partial[f] # None
       /\ meta[f] = known[f]
       /\ known[f] \cup landed[f] \subseteq partial[f]
       /\ ~broken[f] => known[f] \cup landed[f] \cup todo[f] = Segments
  ELSE known[f] = {} /\ todo[f] = {} /\ landed[f] = {} /\ ~broken[f]

(* Metadata without its partial file is left only beside a finished file.  *)
OrphanMetadata(f) ==
  partial[f] = None /\ meta[f] \notin {None, Torn} => output[f] = Segments

(* Only a large file is downloaded in segments and only a small one        *)
(* streamed.                                                               *)
SizeDecides(f) ==
  IF f \in Large THEN task[f] # "stream"
                 ELSE meta[f] = None /\ task[f] \notin {"init", "segments"}

(* Between two runs no worker is left; a complete run is over.             *)
RunIsOver ==
  /\ ~running => \A f \in Files : task[f] = "done"
  /\ result = "complete" => ~running

(* OutputIsWhole and RecordedMeansWritten of one file, with the above.     *)
FileInv(f) ==
  /\ output[f] # None => output[f] = Segments
  /\ Resumable(f) => meta[f] \subseteq partial[f]
  /\ WorkerKnows(f) /\ SegmentsAccounted(f)
  /\ OrphanMetadata(f) /\ SizeDecides(f)

IInv ==
  /\ TypeOK /\ RunIsOver /\ CompleteMeansDownloaded
  /\ \A f \in Files : FileInv(f)

--------------------------------------------------------------------------------
LEMMA MaxMishapsNat == MaxMishaps \in Nat
  BY ConstantsOK

LEMMA InitIInv == Init => IInv
<1> SUFFICES ASSUME Init PROVE IInv OBVIOUS
<1>1. TypeOK
  <2>1. 0 \in 0 .. MaxMishaps
    BY MaxMishapsNat
  <2>2. {} \in Written
    BY DEF Written
  <2> QED BY <2>1, <2>2 DEF Init, TypeOK
<1>2. RunIsOver /\ CompleteMeansDownloaded
  BY DEF Init, RunIsOver, CompleteMeansDownloaded
<1>3. ASSUME NEW f \in Files PROVE FileInv(f)
  BY <1>3 DEF Init, FileInv, Resumable, WorkerKnows, SegmentsAccounted, OrphanMetadata,
     SizeDecides
<1> QED BY <1>1, <1>2, <1>3 DEF IInv

(* A file whose variables a step leaves alone keeps its invariant.         *)
LEMMA Untouched ==
  ASSUME NEW g \in Files, FileInv(g), running' = running,
         output'[g] = output[g], partial'[g] = partial[g], meta'[g] = meta[g],
         task'[g] = task[g], known'[g] = known[g], todo'[g] = todo[g],
         landed'[g] = landed[g], broken'[g] = broken[g]
  PROVE  FileInv(g)'
BY DEF FileInv, Resumable, WorkerKnows, SegmentsAccounted, OrphanMetadata, SizeDecides

(* What a step of one worker leaves alone.                                 *)
OnlyFile(f) ==
  /\ running' = running /\ result' = result
  /\ \A g \in Files \ {f} :
       /\ output'[g] = output[g] /\ partial'[g] = partial[g] /\ meta'[g] = meta[g]
       /\ task'[g] = task[g] /\ known'[g] = known[g] /\ todo'[g] = todo[g]
       /\ landed'[g] = landed[g] /\ broken'[g] = broken[g]

(* So the invariant of a step of one worker is that of its file.           *)
LEMMA FileStep ==
  ASSUME IInv, NEW f \in Files, task[f] # "done" \/ todo[f] # {} \/ landed[f] # {},
         OnlyFile(f), TypeOK', FileInv(f)'
  PROVE  IInv'
<1>1. running /\ result # "complete"
  BY DEF IInv, RunIsOver, FileInv, SegmentsAccounted
<1>2. RunIsOver' /\ CompleteMeansDownloaded'
  BY <1>1 DEF OnlyFile, RunIsOver, CompleteMeansDownloaded
<1>3. ASSUME NEW g \in Files PROVE FileInv(g)'
  <2>1. CASE g = f BY <2>1
  <2>2. CASE g # f BY <2>2, Untouched DEF OnlyFile, IInv
  <2> QED BY <2>1, <2>2
<1> QED BY <1>2, <1>3 DEF IInv

(* What is written of a file is never one of the marks.                    *)
LEMMA MarksAndSets ==
  /\ {} \in Written /\ Segments \in Written
  /\ \A w \in Written : w \subseteq Segments /\ w # None /\ w # Torn
  /\ \A w \in Written, s \in Segments : w \cup {s} \in Written /\ w \ {s} \in Written
  /\ \A w \in Written : Segments \ w \in Written
  /\ MaxMishaps \in Nat
BY ConstantsOK DEF Written

(* Each step of a worker, and each failure, keeps the invariant.           *)
LEMMA SkipStep ==
  ASSUME IInv, NEW f \in Files, Skip(f)
  PROVE  IInv'
<1> USE DEF Skip, Put, Go, Submit, Mishap, disk, worker
<1>0. TypeOK /\ FileInv(f)
  BY DEF IInv
<1>1. TypeOK'
  BY <1>0, MarksAndSets DEF TypeOK
<1>2. OnlyFile(f)
  BY <1>0 DEF TypeOK, OnlyFile
<1>3. FileInv(f)'
  BY <1>0, MarksAndSets DEF TypeOK, SizeMatches, FileInv, Resumable, WorkerKnows, SegmentsAccounted, OrphanMetadata, SizeDecides
<1>4. task[f] # "done" \/ todo[f] # {} \/ landed[f] # {}
  BY DEF SizeMatches
<1> QED BY <1>1, <1>2, <1>3, <1>4, FileStep

LEMMA TidyStep ==
  ASSUME IInv, NEW f \in Files, Tidy(f)
  PROVE  IInv'
<1> USE DEF Tidy, Put, Go, Submit, Mishap, disk, worker
<1>0. TypeOK /\ FileInv(f)
  BY DEF IInv
<1>1. TypeOK'
  BY <1>0, MarksAndSets DEF TypeOK
<1>2. OnlyFile(f)
  BY <1>0 DEF TypeOK, OnlyFile
<1>3. FileInv(f)'
  BY <1>0, MarksAndSets DEF TypeOK, SizeMatches, FileInv, Resumable, WorkerKnows, SegmentsAccounted, OrphanMetadata, SizeDecides
<1>4. task[f] # "done" \/ todo[f] # {} \/ landed[f] # {}
  BY DEF SizeMatches
<1> QED BY <1>1, <1>2, <1>3, <1>4, FileStep

LEMMA OpenSmallStep ==
  ASSUME IInv, NEW f \in Files, OpenSmall(f)
  PROVE  IInv'
<1> USE DEF OpenSmall, Put, Go, Submit, Mishap, disk, worker
<1>0. TypeOK /\ FileInv(f)
  BY DEF IInv
<1>1. TypeOK'
  BY <1>0, MarksAndSets DEF TypeOK
<1>2. OnlyFile(f)
  BY <1>0 DEF TypeOK, OnlyFile
<1>3. FileInv(f)'
  BY <1>0, MarksAndSets DEF TypeOK, SizeMatches, FileInv, Resumable, WorkerKnows, SegmentsAccounted, OrphanMetadata, SizeDecides
<1>4. task[f] # "done" \/ todo[f] # {} \/ landed[f] # {}
  BY DEF SizeMatches
<1> QED BY <1>1, <1>2, <1>3, <1>4, FileStep

LEMMA StreamSmallStep ==
  ASSUME IInv, NEW f \in Files, StreamSmall(f)
  PROVE  IInv'
<1> USE DEF StreamSmall, Put, Go, Submit, Mishap, disk, worker
<1>0. TypeOK /\ FileInv(f)
  BY DEF IInv
<1>1. TypeOK'
  BY <1>0, MarksAndSets DEF TypeOK
<1>2. OnlyFile(f)
  BY <1>0 DEF TypeOK, OnlyFile
<1>3. FileInv(f)'
  BY <1>0, MarksAndSets DEF TypeOK, SizeMatches, FileInv, Resumable, WorkerKnows, SegmentsAccounted, OrphanMetadata, SizeDecides
<1>4. task[f] # "done" \/ todo[f] # {} \/ landed[f] # {}
  BY DEF SizeMatches
<1> QED BY <1>1, <1>2, <1>3, <1>4, FileStep

LEMMA RequestFailsStep ==
  ASSUME IInv, NEW f \in Files, RequestFails(f)
  PROVE  IInv'
<1> USE DEF RequestFails, Put, Go, Submit, Mishap, disk, worker
<1>0. TypeOK /\ FileInv(f)
  BY DEF IInv
<1>1. TypeOK'
  BY <1>0, MarksAndSets DEF TypeOK
<1>2. OnlyFile(f)
  BY <1>0 DEF TypeOK, OnlyFile
<1>3. FileInv(f)'
  BY <1>0, MarksAndSets DEF TypeOK, SizeMatches, FileInv, Resumable, WorkerKnows, SegmentsAccounted, OrphanMetadata, SizeDecides
<1>4. task[f] # "done" \/ todo[f] # {} \/ landed[f] # {}
  BY DEF SizeMatches
<1> QED BY <1>1, <1>2, <1>3, <1>4, FileStep

LEMMA ReplaceStep ==
  ASSUME IInv, NEW f \in Files, Replace(f)
  PROVE  IInv'
<1> USE DEF Replace, Put, Go, Submit, Mishap, disk, worker
<1>0. TypeOK /\ FileInv(f)
  BY DEF IInv
<1>1. TypeOK'
  BY <1>0, MarksAndSets DEF TypeOK
<1>2. OnlyFile(f)
  BY <1>0 DEF TypeOK, OnlyFile
<1>3. FileInv(f)'
  BY <1>0, MarksAndSets DEF TypeOK, SizeMatches, FileInv, Resumable, WorkerKnows, SegmentsAccounted, OrphanMetadata, SizeDecides
<1>4. task[f] # "done" \/ todo[f] # {} \/ landed[f] # {}
  BY DEF SizeMatches
<1> QED BY <1>1, <1>2, <1>3, <1>4, FileStep

LEMMA ResumeStep ==
  ASSUME IInv, NEW f \in Files, Resume(f)
  PROVE  IInv'
<1> USE DEF Resume, Put, Go, Submit, Mishap, disk, worker
<1>0. TypeOK /\ FileInv(f)
  BY DEF IInv
<1>1. TypeOK'
  <2>1. meta[f] \in Written
    BY <1>0 DEF TypeOK, Resumable
  <2> QED BY <1>0, <2>1, MarksAndSets DEF TypeOK
<1>2. OnlyFile(f)
  BY <1>0 DEF TypeOK, OnlyFile
<1>3. FileInv(f)'
  BY <1>0, MarksAndSets DEF TypeOK, SizeMatches, FileInv, Resumable, WorkerKnows, SegmentsAccounted, OrphanMetadata, SizeDecides
<1>4. task[f] # "done" \/ todo[f] # {} \/ landed[f] # {}
  BY DEF SizeMatches
<1> QED BY <1>1, <1>2, <1>3, <1>4, FileStep

LEMMA TruncateStep ==
  ASSUME IInv, NEW f \in Files, Truncate(f)
  PROVE  IInv'
<1> USE DEF Truncate, Put, Go, Submit, Mishap, disk, worker
<1>0. TypeOK /\ FileInv(f)
  BY DEF IInv
<1>1. TypeOK'
  BY <1>0, MarksAndSets DEF TypeOK
<1>2. OnlyFile(f)
  BY <1>0 DEF TypeOK, OnlyFile
<1>3. FileInv(f)'
  BY <1>0, MarksAndSets DEF TypeOK, SizeMatches, FileInv, Resumable, WorkerKnows, SegmentsAccounted, OrphanMetadata, SizeDecides
<1>4. task[f] # "done" \/ todo[f] # {} \/ landed[f] # {}
  BY DEF SizeMatches
<1> QED BY <1>1, <1>2, <1>3, <1>4, FileStep

LEMMA InitMetadataStep ==
  ASSUME IInv, NEW f \in Files, InitMetadata(f)
  PROVE  IInv'
<1> USE DEF InitMetadata, Put, Go, Submit, Mishap, disk, worker
<1>0. TypeOK /\ FileInv(f)
  BY DEF IInv
<1>1. TypeOK'
  BY <1>0, MarksAndSets DEF TypeOK
<1>2. OnlyFile(f)
  BY <1>0 DEF TypeOK, OnlyFile
<1>3. FileInv(f)'
  BY <1>0, MarksAndSets DEF TypeOK, SizeMatches, FileInv, Resumable, WorkerKnows, SegmentsAccounted, OrphanMetadata, SizeDecides
<1>4. task[f] # "done" \/ todo[f] # {} \/ landed[f] # {}
  BY DEF SizeMatches
<1> QED BY <1>1, <1>2, <1>3, <1>4, FileStep

LEMMA FetchSegmentStep ==
  ASSUME IInv, NEW f \in Files, NEW s \in Segments, FetchSegment(f, s)
  PROVE  IInv'
<1> USE DEF FetchSegment, Put, Go, Submit, Mishap, disk, worker
<1>0. TypeOK /\ FileInv(f)
  BY DEF IInv
<1>1. TypeOK'
  <2>1. partial[f] \in Written
    BY <1>0 DEF TypeOK, FileInv, SegmentsAccounted
  <2>2. /\ partial[f] \cup {s} \in Written
        /\ todo[f] \ {s} \in Written
        /\ landed[f] \cup {s} \in Written
    BY <1>0, <2>1, MarksAndSets DEF TypeOK
  <2> QED BY <1>0, <2>2 DEF TypeOK
<1>2. OnlyFile(f)
  BY <1>0 DEF TypeOK, OnlyFile
<1>3. FileInv(f)'
  BY <1>0, MarksAndSets DEF TypeOK, SizeMatches, FileInv, Resumable, WorkerKnows, SegmentsAccounted, OrphanMetadata, SizeDecides
<1>4. task[f] # "done" \/ todo[f] # {} \/ landed[f] # {}
  BY DEF SizeMatches
<1> QED BY <1>1, <1>2, <1>3, <1>4, FileStep

LEMMA SegmentFailsStep ==
  ASSUME IInv, NEW f \in Files, NEW s \in Segments, SegmentFails(f, s)
  PROVE  IInv'
<1> USE DEF SegmentFails, Put, Go, Submit, Mishap, disk, worker
<1>0. TypeOK /\ FileInv(f)
  BY DEF IInv
<1>1. TypeOK'
  <2>1. todo[f] \ {s} \in Written
    BY <1>0, MarksAndSets DEF TypeOK
  <2>2. mishaps + 1 \in 0 .. MaxMishaps
    BY <1>0, MarksAndSets DEF TypeOK
  <2> QED BY <1>0, <2>1, <2>2 DEF TypeOK
<1>2. OnlyFile(f)
  BY <1>0 DEF TypeOK, OnlyFile
<1>3. FileInv(f)'
  BY <1>0, MarksAndSets DEF TypeOK, SizeMatches, FileInv, Resumable, WorkerKnows, SegmentsAccounted, OrphanMetadata, SizeDecides
<1>4. task[f] # "done" \/ todo[f] # {} \/ landed[f] # {}
  BY DEF SizeMatches
<1> QED BY <1>1, <1>2, <1>3, <1>4, FileStep

LEMMA RecordStep ==
  ASSUME IInv, NEW f \in Files, NEW s \in Segments, Record(f, s)
  PROVE  IInv'
<1> USE DEF Record, Put, Go, Submit, Mishap, disk, worker
<1>0. TypeOK /\ FileInv(f)
  BY DEF IInv
<1>1. TypeOK'
  BY <1>0, MarksAndSets DEF TypeOK
<1>2. OnlyFile(f)
  BY <1>0 DEF TypeOK, OnlyFile
<1>3. FileInv(f)'
  BY <1>0, MarksAndSets, SMTT(20) DEF TypeOK, SizeMatches, FileInv, Resumable, WorkerKnows,
     SegmentsAccounted, OrphanMetadata, SizeDecides
<1>4. task[f] # "done" \/ todo[f] # {} \/ landed[f] # {}
  BY DEF SizeMatches
<1> QED BY <1>1, <1>2, <1>3, <1>4, FileStep

LEMMA SegmentsDoneStep ==
  ASSUME IInv, NEW f \in Files, SegmentsDone(f)
  PROVE  IInv'
<1> USE DEF SegmentsDone, Put, Go, Submit, Mishap, disk, worker
<1>0. TypeOK /\ FileInv(f)
  BY DEF IInv
<1>1. TypeOK'
  BY <1>0, MarksAndSets DEF TypeOK
<1>2. OnlyFile(f)
  BY <1>0 DEF TypeOK, OnlyFile
<1>3. FileInv(f)'
  BY <1>0, MarksAndSets DEF TypeOK, SizeMatches, FileInv, Resumable, WorkerKnows, SegmentsAccounted, OrphanMetadata, SizeDecides
<1>4. task[f] # "done" \/ todo[f] # {} \/ landed[f] # {}
  BY DEF SizeMatches
<1> QED BY <1>1, <1>2, <1>3, <1>4, FileStep

LEMMA SegmentsFailedStep ==
  ASSUME IInv, NEW f \in Files, SegmentsFailed(f)
  PROVE  IInv'
<1> USE DEF SegmentsFailed, Put, Go, Submit, Mishap, disk, worker
<1>0. TypeOK /\ FileInv(f)
  BY DEF IInv
<1>1. TypeOK'
  BY <1>0, MarksAndSets DEF TypeOK
<1>2. OnlyFile(f)
  BY <1>0 DEF TypeOK, OnlyFile
<1>3. FileInv(f)'
  BY <1>0, MarksAndSets DEF TypeOK, SizeMatches, FileInv, Resumable, WorkerKnows, SegmentsAccounted, OrphanMetadata, SizeDecides
<1>4. task[f] # "done" \/ todo[f] # {} \/ landed[f] # {}
  BY DEF SizeMatches
<1> QED BY <1>1, <1>2, <1>3, <1>4, FileStep

--------------------------------------------------------------------------------
(* The steps of the command, of the user and of the operating system.      *)
LEMMA AlreadyThereStep ==
  ASSUME IInv, AlreadyThere
  PROVE  IInv'
<1> USE DEF AlreadyThere, disk, worker
<1>1. TypeOK' /\ RunIsOver' /\ CompleteMeansDownloaded'
  BY DEF IInv, TypeOK, RunIsOver, CompleteMeansDownloaded
<1>2. ASSUME NEW f \in Files PROVE FileInv(f)'
  BY <1>2, Untouched DEF IInv
<1> QED BY <1>1, <1>2 DEF IInv

(* What a run starts from is what the one before it left: no worker is     *)
(* running and a queued one has to find out everything anew.               *)
LEMMA BeginStep ==
  ASSUME IInv, ~running, Begin
  PROVE  IInv'
<1> USE DEF Begin, disk, worker
<1>1. TypeOK' /\ RunIsOver' /\ CompleteMeansDownloaded'
  BY DEF IInv, TypeOK, RunIsOver, CompleteMeansDownloaded
<1>2. ASSUME NEW f \in Files PROVE FileInv(f)'
  BY <1>2 DEF IInv, RunIsOver, FileInv, Resumable, WorkerKnows, SegmentsAccounted,
     OrphanMetadata, SizeDecides
<1> QED BY <1>1, <1>2 DEF IInv

LEMMA FinishStep ==
  ASSUME IInv, Finish
  PROVE  IInv'
<1> USE DEF Finish, disk, worker
<1>1. TypeOK' /\ RunIsOver'
  BY DEF IInv, TypeOK, RunIsOver
<1>2. CompleteMeansDownloaded'
  <2>1. ASSUME \A f \in Files : task[f] = "done" PROVE \A f \in Files : output[f] = Segments
    BY <2>1 DEF IInv, FileInv, WorkerKnows
  <2> QED BY <2>1 DEF CompleteMeansDownloaded
<1>3. ASSUME NEW f \in Files PROVE FileInv(f)'
  BY <1>3 DEF IInv, FileInv, Resumable, WorkerKnows, SegmentsAccounted, OrphanMetadata,
     SizeDecides
<1> QED BY <1>1, <1>2, <1>3 DEF IInv

(* Wherever the process is killed, the files on disk keep their invariant: *)
(* torn metadata promises nothing.                                         *)
LEMMA KillStep ==
  ASSUME IInv, NEW torn \in SUBSET Files, Kill(torn)
  PROVE  IInv'
<1> USE DEF Kill, Reset, Mishap
<1>1. TypeOK'
  <2>1. TypeOK
    BY DEF IInv
  <2>2. mishaps' \in 0 .. MaxMishaps
    BY <2>1, MarksAndSets DEF TypeOK
  <2>3. meta' \in [Files -> {None, Torn} \cup Written]
    BY <2>1 DEF TypeOK
  <2> QED BY <2>1, <2>2, <2>3, MarksAndSets DEF TypeOK
<1>2. RunIsOver' /\ CompleteMeansDownloaded'
  BY DEF RunIsOver, CompleteMeansDownloaded
<1>3. ASSUME NEW f \in Files PROVE FileInv(f)'
  <2> USE DEF FileInv, Resumable, WorkerKnows, OrphanMetadata, SizeDecides
  <2>1. FileInv(f) /\ TypeOK
    BY <1>3 DEF IInv
  <2>2. CASE f \in torn
    <3>1. task[f] = "init" \/ landed[f] # {}
      BY <2>2 DEF Writing
    <3>2. f \in Large
      BY <2>1, <3>1 DEF SegmentsAccounted
    <3> QED BY <1>3, <2>1, <2>2, <3>2 DEF SegmentsAccounted
  <2>3. CASE f \notin torn
    BY <1>3, <2>1, <2>3 DEF SegmentsAccounted
  <2> QED BY <2>2, <2>3
<1> QED BY <1>1, <1>2, <1>3 DEF IInv

LEMMA DeleteRepoStep ==
  ASSUME IInv, DeleteRepo
  PROVE  IInv'
<1> USE DEF DeleteRepo, Mishap, worker
<1>1. TypeOK'
  <2>1. TypeOK
    BY DEF IInv
  <2>2. mishaps' \in 0 .. MaxMishaps
    BY <2>1, MarksAndSets DEF TypeOK
  <2> QED BY <2>1, <2>2 DEF TypeOK
<1>2. RunIsOver' /\ CompleteMeansDownloaded'
  BY DEF IInv, RunIsOver, CompleteMeansDownloaded
<1>3. ASSUME NEW f \in Files PROVE FileInv(f)'
  BY <1>3 DEF IInv, RunIsOver, FileInv, Resumable, WorkerKnows, SegmentsAccounted,
     OrphanMetadata, SizeDecides
<1> QED BY <1>1, <1>2, <1>3 DEF IInv

LEMMA StutterStep ==
  ASSUME IInv, UNCHANGED vars
  PROVE  IInv'
<1> USE DEF vars, disk, worker
<1>1. TypeOK' /\ RunIsOver' /\ CompleteMeansDownloaded'
  BY DEF IInv, TypeOK, RunIsOver, CompleteMeansDownloaded
<1>2. ASSUME NEW f \in Files PROVE FileInv(f)'
  BY <1>2, Untouched DEF IInv
<1> QED BY <1>1, <1>2 DEF IInv

LEMMA NextIInv == IInv /\ [Next]_vars => IInv'
<1> SUFFICES ASSUME IInv, [Next]_vars PROVE IInv' OBVIOUS
<1>1. CASE AlreadyThere BY <1>1, AlreadyThereStep
<1>2. CASE Command \/ DownloadRepo BY <1>2, BeginStep DEF Command, DownloadRepo
<1>3. CASE Finish BY <1>3, FinishStep
<1>4. CASE DeleteRepo BY <1>4, DeleteRepoStep
<1>5. ASSUME NEW f \in Files, Step(f) PROVE IInv'
  BY <1>5, SkipStep, TidyStep, OpenSmallStep, StreamSmallStep, ReplaceStep, ResumeStep,
     TruncateStep, InitMetadataStep, SegmentsDoneStep, SegmentsFailedStep, FetchSegmentStep,
     RecordStep DEF Step
<1>6. ASSUME NEW f \in Files, RequestFails(f) PROVE IInv'
  BY <1>6, RequestFailsStep
<1>7. ASSUME NEW f \in Files, NEW s \in Segments, SegmentFails(f, s) PROVE IInv'
  BY <1>7, SegmentFailsStep
<1>8. ASSUME NEW torn \in SUBSET Files, Kill(torn) PROVE IInv'
  BY <1>8, KillStep
<1>9. CASE UNCHANGED vars BY <1>9, StutterStep
<1> QED BY <1>1, <1>2, <1>3, <1>4, <1>5, <1>6, <1>7, <1>8, <1>9 DEF Next

--------------------------------------------------------------------------------
(* The inductive invariant holds in every reachable state of the download. *)
THEOREM Invariance == Spec => []IInv
<1>1. Init => IInv BY InitIInv
<1>2. IInv /\ [Next]_vars => IInv' BY NextIInv
<1> QED BY <1>1, <1>2, PTL DEF Spec

(* Type correctness of the download's state.                               *)
THEOREM TypeCorrect == Spec => []TypeOK
<1>1. IInv => TypeOK BY DEF IInv
<1> QED BY <1>1, Invariance, PTL

(* A file under its own name is whole, however its download was            *)
(* interrupted: os.replace only ever publishes a complete partial file.    *)
THEOREM PublishedIsWhole == Spec => []OutputIsWhole
<1>1. IInv => OutputIsWhole BY DEF IInv, FileInv, OutputIsWhole
<1> QED BY <1>1, Invariance, PTL

(* Metadata a later run would resume from promises only segments that are  *)
(* in the partial file.                                                    *)
THEOREM ResumeIsSafe == Spec => []RecordedMeansWritten
<1>1. IInv => RecordedMeansWritten BY DEF IInv, FileInv, RecordedMeansWritten
<1> QED BY <1>1, Invariance, PTL

(* download_repo returns without an error only with every file on disk.    *)
THEOREM CompleteIsComplete == Spec => []CompleteMeansDownloaded
<1>1. IInv => CompleteMeansDownloaded BY DEF IInv
<1> QED BY <1>1, Invariance, PTL

--------------------------------------------------------------------------------
(* A step that leaves a file's state on disk alone keeps its progress.     *)
Kept(f) ==
  Resumable(f) /\ partial'[f] # None /\ meta'[f] # Torn
  => meta[f] \subseteq partial'[f] /\ meta[f] \subseteq meta'[f]

LEMMA KeptOnDisk ==
  ASSUME IInv, NEW f \in Files, partial'[f] = partial[f], meta'[f] \in {meta[f], Torn}
  PROVE  Kept(f)
BY DEF IInv, FileInv, Kept

LEMMA WorkerKeeps ==
  ASSUME IInv, NEW f \in Files, Step(f), NEW g \in Files
  PROVE  Kept(g)
<1>0. TypeOK /\ FileInv(f)
  BY DEF IInv
<1> USE DEF Put
<1>1. CASE f # g
  <2>1. partial'[g] = partial[g] /\ meta'[g] = meta[g]
    BY <1>0, <1>1 DEF TypeOK, Step, Skip, Tidy, OpenSmall, StreamSmall, Replace, Resume,
       Truncate, InitMetadata, SegmentsDone, SegmentsFailed, FetchSegment, Record, disk
  <2> QED BY <2>1, KeptOnDisk
<1>2. CASE f = g
  <2>1. CASE Skip(f) \/ Replace(f)
    BY <1>0, <1>2, <2>1 DEF TypeOK, Skip, Replace, Kept
  <2>2. CASE Tidy(f)
    BY <1>0, <1>2, <2>2 DEF FileInv, WorkerKnows, Tidy, Kept, Resumable
  <2>3. CASE OpenSmall(f) \/ StreamSmall(f)
    BY <1>0, <1>2, <2>3 DEF FileInv, SizeDecides, WorkerKnows, OpenSmall, StreamSmall,
       Kept, Resumable, TypeOK, Go
  <2>4. CASE Truncate(f)
    BY <1>2, <2>4 DEF Truncate, Kept
  <2>5. CASE InitMetadata(f)
    BY <1>0, <1>2, <2>5 DEF FileInv, WorkerKnows, InitMetadata, Kept, Resumable
  <2>6. CASE Resume(f) \/ SegmentsDone(f) \/ SegmentsFailed(f)
    BY <1>2, <2>6, KeptOnDisk DEF Resume, SegmentsDone, SegmentsFailed, disk
  <2>7. ASSUME NEW s \in Segments, FetchSegment(f, s) \/ Record(f, s) PROVE Kept(f)
    <3>1. task[f] = "segments" /\ meta[f] = known[f] /\ known[f] \subseteq partial[f]
      BY <1>0, <2>7 DEF FileInv, SegmentsAccounted, FetchSegment, Record
    <3> QED BY <1>0, <2>7, <3>1 DEF TypeOK, FetchSegment, Record, Kept
  <2> QED BY <1>2, <2>1, <2>2, <2>3, <2>4, <2>5, <2>6, <2>7 DEF Step
<1> QED BY <1>1, <1>2

LEMMA OthersKeep ==
  ASSUME IInv, NEW g \in Files,
         \/ AlreadyThere \/ Command \/ DownloadRepo \/ Finish \/ DeleteRepo
         \/ \E f \in Files : RequestFails(f) \/ \E s \in Segments : SegmentFails(f, s)
         \/ \E torn \in SUBSET Files : Kill(torn)
         \/ UNCHANGED vars
  PROVE  Kept(g)
<1>1. CASE DeleteRepo
  BY <1>1 DEF DeleteRepo, Kept
<1>2. ASSUME NEW torn \in SUBSET Files, Kill(torn) PROVE Kept(g)
  BY <1>2, KeptOnDisk DEF Kill
<1>3. CASE \/ AlreadyThere \/ Command \/ DownloadRepo \/ Finish \/ UNCHANGED vars
           \/ \E f \in Files : RequestFails(f) \/ \E s \in Segments : SegmentFails(f, s)
  <2>1. partial' = partial /\ meta' = meta
    BY <1>3 DEF AlreadyThere, Command, DownloadRepo, Begin, Finish, RequestFails, SegmentFails,
       vars, disk
  <2> QED BY <2>1, KeptOnDisk
<1> QED BY <1>1, <1>2, <1>3

(* No step, a kill included, gives up a recorded segment: a resumed run    *)
(* fetches only what is missing.                                           *)
THEOREM ProgressSurvives == Spec => ProgressIsKept
<1>1. IInv /\ [Next]_vars => \A f \in Files : Kept(f)
  BY WorkerKeeps, OthersKeep DEF Next
<1>2. (\A f \in Files : Kept(f))
      => [\A f \in Files : Resumable(f) /\ partial'[f] # None /\ meta'[f] # Torn
            => /\ meta[f] \subseteq partial'[f]
               /\ meta[f] \subseteq meta'[f]]_vars
  BY DEF Kept
<1> QED BY <1>1, <1>2, Invariance, PTL DEF Spec, ProgressIsKept

--------------------------------------------------------------------------------
(* The restart. The flag is the lock of the one request that may start a   *)
(* watcher: it goes up with that request, and comes down when the watcher  *)
(* could not be started, or with the new process a watcher boots.          *)
RestartTypeOK ==
  /\ call \in [Clients -> {"idle", "joined", "spawn", "thread", "failed", "accepted", "stuck",
                           "over"}]
  /\ watchers \in {0, 1}

OneSpawns ==
  /\ \A c, d \in Clients : call[c] = "spawn" /\ call[d] = "spawn" => c = d
  /\ \A c \in Clients : call[c] = "spawn" => flag /\ watchers = 0

FlagIsUp == watchers = 1 => flag

RestartInv == RestartTypeOK /\ OneSpawns /\ FlagIsUp

LEMMA InitRestartInv == R!Init => RestartInv
  BY DEF R!Init, RestartInv, RestartTypeOK, OneSpawns, FlagIsUp

LEMMA NextRestartInv == RestartInv /\ [R!Next]_R!vars => RestartInv'
<1> SUFFICES ASSUME RestartInv, [R!Next]_R!vars PROVE RestartInv' OBVIOUS
<1> USE DEF RestartInv, RestartTypeOK, OneSpawns, FlagIsUp
<1>1. ASSUME NEW c \in Clients, R!Request(c) PROVE RestartInv'
  BY <1>1 DEF R!Request, R!MayAsk
<1>2. ASSUME NEW c \in Clients, R!Spawn(c) PROVE RestartInv'
  BY <1>2 DEF R!Spawn
<1>3. ASSUME NEW c \in Clients, R!SpawnFails(c) PROVE RestartInv'
  BY <1>3 DEF R!SpawnFails
<1>4. ASSUME NEW c \in Clients, R!Arm(c) \/ R!ArmFails(c) PROVE RestartInv'
  BY <1>4 DEF R!Arm, R!ArmFails
<1>5. CASE R!Watch \/ R!UserStarts
  BY <1>5 DEF R!Watch, R!UserStarts, R!Boot
<1>6. CASE UNCHANGED <<flag, call, watchers>>
  BY <1>6
<1>7. \/ R!Probe \/ R!BindHttp \/ R!BindLsp \/ R!Shutdown \/ R!Interrupt \/ R!CloseHttp
      \/ R!Exit \/ R!Kill \/ R!Reap \/ UNCHANGED R!vars
      \/ \E p \in R!Ports : R!OtherListens(p)
      => UNCHANGED <<flag, call, watchers>>
  BY DEF R!Probe, R!BindHttp, R!BindLsp, R!Shutdown, R!Interrupt, R!CloseHttp, R!Exit, R!Kill,
     R!Reap, R!Finish, R!OtherListens, R!restartVars, R!vars
<1> QED BY <1>1, <1>2, <1>3, <1>4, <1>5, <1>6, <1>7 DEF R!Next

(* However many clients ask for a restart, one watcher at most waits to    *)
(* succeed the process, and none where no restart is pending.              *)
THEOREM OneSuccessor == R!Spec => []SingleSuccessor
<1>1. RestartInv => SingleSuccessor
  BY DEF RestartInv, RestartTypeOK, FlagIsUp, SingleSuccessor, R!SingleSuccessor
<1> QED BY <1>1, InitRestartInv, NextRestartInv, PTL DEF R!Spec
================================================================================
