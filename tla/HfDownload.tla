------------------------------- MODULE HfDownload -------------------------------
(***************************************************************************)
(* Downloading one repository snapshot from the Hugging Face hub: the      *)
(* "download" command of huggingface/cli.py, download_repo, download_file, *)
(* segmented_download and download_segment of download.py, and the resume  *)
(* state of resume_state.py.                                               *)
(*                                                                         *)
(* The directory is named after the commit, so what a file must contain    *)
(* never changes.  A file's content is the set of its segments that have   *)
(* been written: a large file has its full size as soon as it is           *)
(* truncated to it, whatever it holds; a small one when it is whole.       *)
(***************************************************************************)
EXTENDS Naturals

CONSTANTS Files,       \* files of the snapshot
          Large,       \* those above LARGE_FILE_THRESHOLD
          Segments,    \* plan_segments of a large file
          None,        \* no such file on disk
          Torn,        \* a metadata file that is not valid JSON
          MaxMishaps   \* bound: failed requests, kills, deletions

ASSUME ConstantsOK ==
  /\ Large \subseteq Files /\ Segments # {}
  /\ \A w \in SUBSET Segments : w \notin {None, Torn}
  /\ None # Torn
  /\ MaxMishaps \in Nat

VARIABLES repoDir,   \* does <base_out>/<sha> exist?
          output,    \* output[f]: the file under its own name
          partial,   \* partial[f]: <f>.partial
          meta,      \* meta[f]: the segments its metadata calls completed
          running,   \* is a download_repo going on?
          result,    \* how the last command ended
          task,      \* task[f]: where the worker of file f is
          known,     \* known[f]: the metadata it holds in memory
          todo,      \* todo[f]: segments submitted and not answered
          landed,    \* landed[f]: segments written and not yet recorded
          broken,    \* broken[f]: a segment's result has been raised
          mishaps

disk == <<output, partial, meta>>
worker == <<known, todo, landed, broken>>
vars == <<repoDir, disk, running, result, task, worker, mishaps>>

Init ==
  /\ repoDir = FALSE
  /\ output = [f \in Files |-> None]
  /\ partial = [f \in Files |-> None]
  /\ meta = [f \in Files |-> None]
  /\ running = FALSE /\ result = "none"
  /\ task = [f \in Files |-> "done"]
  /\ known = [f \in Files |-> {}]
  /\ todo = [f \in Files |-> {}]
  /\ landed = [f \in Files |-> {}]
  /\ broken = [f \in Files |-> FALSE]
  /\ mishaps = 0

Go(f, place) == task' = [task EXCEPT ![f] = place]
Put(file, f, content) == [file EXCEPT ![f] = content]
Mishap == mishaps < MaxMishaps /\ mishaps' = mishaps + 1

--------------------------------------------------------------------------------
(* The command finds the directory of the commit and says that the         *)
(* snapshot is already downloaded.                                         *)
AlreadyThere ==
  /\ ~running /\ repoDir
  /\ result' = "already"
  /\ UNCHANGED <<repoDir, disk, running, task, worker, mishaps>>

(* download_repo, called by the command for a new directory or on its own. *)
Begin ==
  /\ repoDir' = TRUE
  /\ running' = TRUE /\ result' = "none"
  /\ task' = [f \in Files |-> "queued"]
  /\ UNCHANGED <<disk, worker, mishaps>>

Command == ~running /\ ~repoDir /\ Begin
DownloadRepo == ~running /\ Begin

(* The pool has drained: the first failure, if any, is raised.             *)
Finish ==
  /\ running /\ \A f \in Files : task[f] \in {"done", "failed"}
  /\ running' = FALSE
  /\ result' = IF \A f \in Files : task[f] = "done" THEN "complete" ELSE "failed"
  /\ task' = [f \in Files |-> "done"]
  /\ UNCHANGED <<repoDir, disk, worker, mishaps>>

--------------------------------------------------------------------------------
(* download_file: an output of the announced size is taken as it is, and   *)
(* what an earlier run left beside it is removed.                          *)
SizeMatches(f) == output[f] # None /\ (f \in Large \/ output[f] = Segments)

Skip(f) ==
  /\ task[f] = "queued" /\ SizeMatches(f)
  /\ partial' = Put(partial, f, None)
  /\ Go(f, "tidy")
  /\ UNCHANGED <<repoDir, output, meta, running, result, worker, mishaps>>

Tidy(f) ==
  /\ task[f] = "tidy"
  /\ meta' = Put(meta, f, None)
  /\ Go(f, "done")
  /\ UNCHANGED <<repoDir, output, partial, running, result, worker, mishaps>>

(* A small file is streamed from its beginning.                            *)
OpenSmall(f) ==
  /\ task[f] = "queued" /\ ~SizeMatches(f) /\ f \notin Large
  /\ partial' = Put(partial, f, {})
  /\ Go(f, "stream")
  /\ UNCHANGED <<repoDir, output, meta, running, result, worker, mishaps>>

StreamSmall(f) ==
  /\ task[f] = "stream"
  /\ partial' = Put(partial, f, Segments)
  /\ Go(f, "replace")
  /\ UNCHANGED <<repoDir, output, meta, running, result, worker, mishaps>>

(* A HEAD request or the stream of a small file raises.                    *)
RequestFails(f) ==
  /\ task[f] \in {"queued", "stream"}
  /\ Mishap
  /\ Go(f, "failed")
  /\ UNCHANGED <<repoDir, disk, running, result, worker>>

(* os.replace.                                                             *)
Replace(f) ==
  /\ task[f] = "replace"
  /\ output' = Put(output, f, partial[f])
  /\ partial' = Put(partial, f, None)
  /\ Go(f, "tidy")
  /\ UNCHANGED <<repoDir, meta, running, result, worker, mishaps>>

--------------------------------------------------------------------------------
(* segmented_download: load_partial_metadata finds a state to resume ...   *)
Resumable(f) == partial[f] # None /\ meta[f] \notin {None, Torn}

Submit(f, done) ==
  /\ known' = Put(known, f, done)
  /\ todo' = Put(todo, f, Segments \ done)
  /\ Go(f, "segments")

Resume(f) ==
  /\ task[f] = "queued" /\ ~SizeMatches(f) /\ f \in Large /\ Resumable(f)
  /\ Submit(f, meta[f])
  /\ UNCHANGED <<repoDir, disk, running, result, landed, broken, mishaps>>

(* Mutant of Truncate: no attempt is made to resume.                       *)
TruncateAlways(f) ==
  /\ task[f] = "queued" /\ ~SizeMatches(f) /\ f \in Large
  /\ partial' = Put(partial, f, {})
  /\ Go(f, "init")
  /\ UNCHANGED <<repoDir, output, meta, running, result, worker, mishaps>>

(* ... or initialize_partial_state makes one: first the empty file, then   *)
(* its metadata.                                                           *)
Truncate(f) ==
  /\ task[f] = "queued" /\ ~SizeMatches(f) /\ f \in Large /\ ~Resumable(f)
  /\ partial' = Put(partial, f, {})
  /\ Go(f, "init")
  /\ UNCHANGED <<repoDir, output, meta, running, result, worker, mishaps>>

InitMetadata(f) ==
  /\ task[f] = "init"
  /\ meta' = Put(meta, f, {})
  /\ Submit(f, {})
  /\ UNCHANGED <<repoDir, output, partial, running, result, landed, broken, mishaps>>

(* download_segment, in a thread of the pool.                              *)
FetchSegment(f, s) ==
  /\ s \in todo[f]
  /\ partial' = Put(partial, f, partial[f] \cup {s})
  /\ todo' = Put(todo, f, todo[f] \ {s})
  /\ landed' = Put(landed, f, landed[f] \cup {s})
  /\ UNCHANGED <<repoDir, output, meta, running, result, task, known, broken, mishaps>>

(* It raises, and so does result() in the thread that collects: no further *)
(* segment is recorded.                                                    *)
SegmentFails(f, s) ==
  /\ s \in todo[f]
  /\ Mishap
  /\ todo' = Put(todo, f, todo[f] \ {s})
  /\ broken' = Put(broken, f, TRUE)
  /\ UNCHANGED <<repoDir, disk, running, result, task, known, landed>>

(* mark_segment_completed.                                                 *)
Record(f, s) ==
  /\ ~broken[f] /\ s \in landed[f]
  /\ known' = Put(known, f, known[f] \cup {s})
  /\ meta' = Put(meta, f, known[f] \cup {s})
  /\ landed' = Put(landed, f, landed[f] \ {s})
  /\ UNCHANGED <<repoDir, output, partial, running, result, task, todo, broken, mishaps>>

SegmentsDone(f) ==
  /\ task[f] = "segments" /\ todo[f] = {} /\ landed[f] = {} /\ ~broken[f]
  /\ Go(f, "replace")
  /\ known' = Put(known, f, {})
  /\ UNCHANGED <<repoDir, disk, running, result, todo, landed, broken, mishaps>>

(* Mutant of SegmentsFailed: it waits for every segment to be recorded.    *)
SegmentsFailedRecorded(f) ==
  /\ task[f] = "segments" /\ todo[f] = {} /\ broken[f] /\ landed[f] = {}
  /\ Go(f, "failed")
  /\ known' = Put(known, f, {})
  /\ broken' = Put(broken, f, FALSE)
  /\ UNCHANGED <<repoDir, disk, running, result, todo, landed, mishaps>>

(* Leaving the pool waits for the other segments, none is cancelled.       *)
SegmentsFailed(f) ==
  /\ task[f] = "segments" /\ todo[f] = {} /\ broken[f]
  /\ Go(f, "failed")
  /\ known' = Put(known, f, {})
  /\ landed' = Put(landed, f, {})
  /\ broken' = Put(broken, f, FALSE)
  /\ UNCHANGED <<repoDir, disk, running, result, todo, mishaps>>

--------------------------------------------------------------------------------
(* The process is killed.  A metadata file it was writing, which is        *)
(* truncated first, is torn.                                               *)
Writing(f) == task[f] = "init" \/ (landed[f] # {} /\ ~broken[f])

Reset ==
  /\ running' = FALSE
  /\ task' = [f \in Files |-> "done"]
  /\ known' = [f \in Files |-> {}]
  /\ todo' = [f \in Files |-> {}]
  /\ landed' = [f \in Files |-> {}]
  /\ broken' = [f \in Files |-> FALSE]

Kill(torn) ==
  /\ running
  /\ Mishap
  /\ torn \subseteq {f \in Files : Writing(f)}
  /\ meta' = [f \in Files |-> IF f \in torn THEN Torn ELSE meta[f]]
  /\ result' = "killed"
  /\ Reset
  /\ UNCHANGED <<repoDir, output, partial>>

(* The user removes the whole directory.                                   *)
DeleteRepo ==
  /\ ~running /\ repoDir
  /\ Mishap
  /\ repoDir' = FALSE
  /\ output' = [f \in Files |-> None]
  /\ partial' = [f \in Files |-> None]
  /\ meta' = [f \in Files |-> None]
  /\ result' = "none"
  /\ UNCHANGED <<running, task, worker>>

Step(f) ==
  \/ Skip(f) \/ Tidy(f) \/ OpenSmall(f) \/ StreamSmall(f) \/ Replace(f)
  \/ Resume(f) \/ Truncate(f) \/ InitMetadata(f)
  \/ SegmentsDone(f) \/ SegmentsFailed(f)
  \/ \E s \in Segments : FetchSegment(f, s) \/ Record(f, s)

Next ==
  \/ AlreadyThere \/ Command \/ DownloadRepo \/ Finish \/ DeleteRepo
  \/ \E f \in Files : Step(f) \/ RequestFails(f) \/ \E s \in Segments : SegmentFails(f, s)
  \/ \E torn \in SUBSET Files : Kill(torn)

Spec == Init /\ [][Next]_vars

(* The threads of the pools run and requests are answered or time out.     *)
(* Nobody has to start a download.                                         *)
Fairness == WF_vars(Finish) /\ \A f \in Files : WF_vars(Step(f))
FairSpec == Spec /\ Fairness

--------------------------------------------------------------------------------
Written == SUBSET Segments

TypeOK ==
  /\ repoDir \in BOOLEAN /\ running \in BOOLEAN
  /\ output \in [Files -> {None} \cup Written]
  /\ partial \in [Files -> {None} \cup Written]
  /\ meta \in [Files -> {None, Torn} \cup Written]
  /\ result \in {"none", "already", "complete", "failed", "killed"}
  /\ task \in [Files -> {"queued", "tidy", "stream", "init", "segments", "replace",
                         "done", "failed"}]
  /\ known \in [Files -> Written] /\ todo \in [Files -> Written]
  /\ landed \in [Files -> Written] /\ broken \in [Files -> BOOLEAN]
  /\ mishaps \in 0 .. MaxMishaps

(* A file under its own name is complete.  Its size proves nothing for a   *)
(* large file, which later runs nevertheless take as it is.                *)
OutputIsWhole == \A f \in Files : output[f] # None => output[f] = Segments

(* Metadata that a later run would trust never promises a segment that is  *)
(* not in the partial file, wherever the process was killed.               *)
RecordedMeansWritten ==
  \A f \in Files : Resumable(f) => meta[f] \subseteq partial[f]

(* Recorded segments are never given up: no restart truncates or loses     *)
(* them, so a resumed download only fetches what is missing.               *)
ProgressIsKept ==
  [][\A f \in Files : Resumable(f) /\ partial'[f] # None /\ meta'[f] # Torn
       => /\ meta[f] \subseteq partial'[f]
          /\ meta[f] \subseteq meta'[f]]_vars

(* A run that ends without an error has downloaded every file.             *)
CompleteMeansDownloaded == result = "complete" => \A f \in Files : output[f] = Segments

(* If download_repo is called again and again, the snapshot is downloaded  *)
(* in the end: no run hangs, and no state a killed or failed one leaves on *)
(* disk is a dead end.                                                     *)
EventuallyDownloaded == []<>running => <>[](\A f \in Files : output[f] = Segments)
================================================================================
