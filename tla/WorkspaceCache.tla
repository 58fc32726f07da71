----------------------------- MODULE WorkspaceCache -----------------------------
(***************************************************************************)
(* The on-disk cache of materialised commits: resolver.materialise with    *)
(* check_cache, acquire_lock, release_lock and write_metadata of cache.py, *)
(* the git commands of GitClient.clone_local / clone_remote, and the load  *)
(* of the workspace by resolve_workspace_baseline.                         *)
(*                                                                         *)
(* All paths of a cache entry are functions of the commit's SHA, so one    *)
(* entry stands for all.  Callers are independent processes: they share    *)
(* nothing but the entry's directory, its lock file and its metadata file, *)
(* and each system or git call is one action.                              *)
(***************************************************************************)
EXTENDS Naturals

CONSTANTS Callers,       \* processes resolving the same commit
          HasRoots,      \* does the commit contain mlody/roots.mlody?
          HeedsAdvice,   \* does the user delete what CorruptCacheError names?
          MaxCalls,      \* bound: calls made by each caller
          MaxMishaps,    \* bound: callers interrupted or killed inside the lock
          Free, Stale    \* the lock file is absent / is left by a dead process

ASSUME ConstantsOK ==
  /\ HasRoots \in BOOLEAN /\ HeedsAdvice \in BOOLEAN
  /\ MaxCalls \in Nat /\ MaxMishaps \in Nat
  /\ Free \notin Callers /\ Stale \notin Callers /\ Free # Stale

VARIABLES tree,      \* the entry's directory
          lock,      \* the <sha>.lock file: Free, Stale or the caller that made it
          meta,      \* does <sha>-meta.json exist?
          pc,        \* where each caller is
          local,     \* is the commit in the caller's own repository?
          outcome,   \* how the caller's last call ended
          calls,     \* calls made so far
          mishaps,   \* callers interrupted or killed while they held the lock
          setbacks,  \* history: "failure" of a git command or a metadata
                     \* write, "deletion" of the directory by the user,
                     \* "removal" that left something behind without a word,
                     \* "leftover" while that is what the directory holds
          serial     \* history: no two calls have overlapped

vars == <<tree, lock, meta, pc, local, outcome, calls, mishaps, setbacks, serial>>

(* The directory: not there, cloned without files, checked out in part     *)
(* (before or after roots.mlody is written), checked out in full.          *)
Trees == {"absent", "bare", "partial", "marked", "whole"}

(* Files of the commit that have been checked out include the sentinel.    *)
Sentinel == tree = "marked" \/ (tree = "whole" /\ HasRoots)

Locked == {"clone", "sparse", "fetch", "checkout", "checkout2", "meta",
           "cleanup", "cleanup2", "release", "giveup"}
PCs == {"idle", "check", "sentinel", "lock", "load"} \cup Locked
Outcomes == {"none", "busy", "corrupt", "giterror", "interrupted", "killed",
             "loaded", "half-loaded", "nomlody"}

Init ==
  /\ tree = "absent" /\ lock = Free /\ meta = FALSE
  /\ pc = [c \in Callers |-> "idle"]
  /\ local \in [Callers -> BOOLEAN]
  /\ outcome = [c \in Callers |-> "none"]
  /\ calls = [c \in Callers |-> 0]
  /\ mishaps = 0 /\ setbacks = {} /\ serial = TRUE

Goto(c, next) == pc' = [pc EXCEPT ![c] = next]
End(c, how) == /\ Goto(c, "idle")
               /\ outcome' = [outcome EXCEPT ![c] = how]
Setback(c) == /\ Goto(c, "cleanup")
              /\ setbacks' = setbacks \cup {"failure"}

--------------------------------------------------------------------------------
(* A label with a commit is resolved; `local' is what git cat-file says.   *)
Call(c) ==
  /\ pc[c] = "idle" /\ calls[c] < MaxCalls
  /\ Goto(c, "check")
  /\ calls' = [calls EXCEPT ![c] = @ + 1]
  /\ outcome' = [outcome EXCEPT ![c] = "none"]
  /\ serial' = (serial /\ \A d \in Callers : pc[d] = "idle")
  /\ UNCHANGED <<tree, lock, meta, local, mishaps, setbacks>>

(* check_cache: first the directory, then the sentinel inside it.          *)
CheckDir(c) ==
  /\ pc[c] = "check"
  /\ Goto(c, IF tree = "absent" THEN "lock" ELSE "sentinel")
  /\ UNCHANGED <<tree, lock, meta, local, outcome, calls, mishaps, setbacks, serial>>

CheckSentinel(c) ==
  /\ pc[c] = "sentinel"
  /\ \/ Sentinel /\ Goto(c, "load") /\ UNCHANGED outcome
     \/ ~Sentinel /\ End(c, "corrupt")
  /\ UNCHANGED <<tree, lock, meta, local, calls, mishaps, setbacks, serial>>

(* acquire_lock: O_CREAT | O_EXCL, and no second look at the directory.    *)
AcquireLock(c) ==
  /\ pc[c] = "lock" /\ lock = Free
  /\ lock' = c
  /\ Goto(c, "clone")
  /\ UNCHANGED <<tree, meta, local, outcome, calls, mishaps, setbacks, serial>>

(* Mutant of LockBusy: the caller blocks on the lock and is never woken.   *)
LockBusyBlocks(c) ==
  /\ pc[c] = "lock" /\ lock # Free
  /\ Goto(c, "blocked")
  /\ UNCHANGED <<tree, lock, meta, local, outcome, calls, mishaps, setbacks, serial>>

LockBusy(c) ==
  /\ pc[c] = "lock" /\ lock # Free
  /\ End(c, "busy")
  /\ UNCHANGED <<tree, lock, meta, local, calls, mishaps, setbacks, serial>>

(* git clone --no-checkout refuses a directory that is not empty.          *)
Clone(c) ==
  /\ pc[c] = "clone" /\ tree = "absent"
  /\ tree' = "bare"
  /\ Goto(c, "sparse")
  /\ UNCHANGED <<lock, meta, local, outcome, calls, mishaps, setbacks, serial>>

Sparse(c) ==
  /\ pc[c] = "sparse" /\ tree # "absent"
  /\ Goto(c, "fetch")
  /\ UNCHANGED <<tree, lock, meta, local, outcome, calls, mishaps, setbacks, serial>>

(* git fetch; clone_local goes on to the checkout when it fails.           *)
Fetch(c) ==
  /\ pc[c] = "fetch" /\ (tree # "absent" \/ local[c])
  /\ Goto(c, "checkout")
  /\ UNCHANGED <<tree, lock, meta, local, outcome, calls, mishaps, setbacks, serial>>

(* git checkout writes the files one after the other: roots.mlody is       *)
(* neither the first nor the last of them.                                 *)
Checkout(c) ==
  /\ pc[c] = "checkout" /\ tree # "absent"
  /\ \/ tree = "bare" /\ tree' = "partial" /\ UNCHANGED pc
     \/ tree = "partial" /\ HasRoots /\ tree' = "marked" /\ UNCHANGED pc
     \/ /\ tree = IF HasRoots THEN "marked" ELSE "partial"
        /\ tree' = "whole" /\ Goto(c, "meta")
  /\ UNCHANGED <<lock, meta, local, outcome, calls, mishaps, setbacks, serial>>

(* Any of the git commands exits with a status other than 0.               *)
GitFails(c) ==
  /\ pc[c] \in {"clone", "sparse", "fetch", "checkout"}
  /\ ~(pc[c] = "fetch" /\ local[c])
  /\ Setback(c)
  /\ UNCHANGED <<tree, lock, meta, local, outcome, calls, mishaps, serial>>

(* remote_url and write_metadata; an existing metadata file is kept.       *)
WriteMetadata(c) ==
  /\ pc[c] = "meta"
  /\ meta' = TRUE
  /\ Goto(c, "release")
  /\ UNCHANGED <<tree, lock, local, outcome, calls, mishaps, setbacks, serial>>

MetadataFails(c) ==
  /\ pc[c] = "meta"
  /\ Setback(c)
  /\ UNCHANGED <<tree, lock, meta, local, outcome, calls, mishaps, serial>>

(* Mutant of Cleanup: the except clause is gone.                           *)
CleanupSkipped(c) ==
  /\ pc[c] = "cleanup"
  /\ Goto(c, "giveup")
  /\ UNCHANGED <<tree, lock, meta, local, outcome, calls, mishaps, setbacks, serial>>

(* except Exception: shutil.rmtree removes the directory file by file, and *)
(* ignore_errors=True lets it end with some or all of them still there.    *)
Cleanup(c) ==
  /\ \/ /\ pc[c] = "cleanup"
        /\ tree' \in CASE tree = "whole" -> {"whole", "marked", "partial", "bare"}
                       [] tree = "marked" -> {"marked", "partial", "bare"}
                       [] tree = "partial" -> {"partial", "bare"}
                       [] OTHER -> {tree}
        /\ (tree' = "marked" => Sentinel)
        /\ Goto(c, "cleanup2")
        /\ UNCHANGED setbacks
     \/ /\ pc[c] = "cleanup2"
        /\ \/ /\ tree' = "absent"
              /\ setbacks' = setbacks \ {"leftover"}
           \/ /\ tree # "absent"
              /\ setbacks' = setbacks \cup {"removal", "leftover"}
              /\ UNCHANGED tree
        /\ Goto(c, "giveup")
  /\ UNCHANGED <<lock, meta, local, outcome, calls, mishaps, serial>>

(* Mutant of ReleaseLock: released on success only.                        *)
ReleaseLockOnSuccess(c) ==
  /\ \/ pc[c] = "release" /\ Goto(c, "load") /\ lock' = Free /\ UNCHANGED outcome
     \/ pc[c] = "giveup" /\ End(c, "giterror") /\ UNCHANGED lock
  /\ UNCHANGED <<tree, meta, local, calls, mishaps, setbacks, serial>>

(* finally: release_lock, then the return or the re-raise.                 *)
ReleaseLock(c) ==
  /\ lock' = Free
  /\ \/ pc[c] = "release" /\ Goto(c, "load") /\ UNCHANGED outcome
     \/ pc[c] = "giveup" /\ End(c, "giterror")
  /\ UNCHANGED <<tree, meta, local, calls, mishaps, setbacks, serial>>

(* resolve_workspace_baseline evaluates the returned directory; without a  *)
(* roots file that is FileNotFoundError, reported as NoMlodyAtCommitError. *)
Load(c) ==
  /\ pc[c] = "load"
  /\ End(c, IF ~Sentinel THEN "nomlody"
            ELSE IF tree = "whole" THEN "loaded" ELSE "half-loaded")
  /\ UNCHANGED <<tree, lock, meta, local, calls, mishaps, setbacks, serial>>

--------------------------------------------------------------------------------
(* Ctrl-C while git runs: not an Exception, so nothing is cleaned up, but  *)
(* the finally clause still releases the lock.                             *)
Interrupt(c) ==
  /\ pc[c] \in Locked \ {"release", "giveup"} /\ mishaps < MaxMishaps
  /\ mishaps' = mishaps + 1
  /\ lock' = Free
  /\ End(c, "interrupted")
  /\ UNCHANGED <<tree, meta, local, calls, setbacks, serial>>

(* The process dies: its lock file stays.                                  *)
Kill(c) ==
  /\ pc[c] \in Locked /\ mishaps < MaxMishaps
  /\ mishaps' = mishaps + 1
  /\ lock' = Stale
  /\ End(c, "killed")
  /\ UNCHANGED <<tree, meta, local, calls, setbacks, serial>>

(* What LockBusyError and CorruptCacheError tell the user to do.           *)
UserDeletesLock ==
  /\ lock = Stale
  /\ lock' = Free
  /\ UNCHANGED <<tree, meta, pc, local, outcome, calls, mishaps, setbacks, serial>>

UserDeletesTree(c) ==
  /\ HeedsAdvice /\ outcome[c] = "corrupt"
  /\ tree' = "absent"
  /\ outcome' = [outcome EXCEPT ![c] = "none"]
  /\ setbacks' = (setbacks \ {"leftover"}) \cup {"deletion"}
  /\ UNCHANGED <<lock, meta, pc, local, calls, mishaps, serial>>

Step(c) ==
  \/ CheckDir(c) \/ CheckSentinel(c) \/ AcquireLock(c) \/ LockBusy(c)
  \/ Clone(c) \/ Sparse(c) \/ Fetch(c) \/ Checkout(c) \/ GitFails(c)
  \/ WriteMetadata(c) \/ MetadataFails(c) \/ Cleanup(c) \/ ReleaseLock(c)
  \/ Load(c)

Next == \/ \E c \in Callers : \/ Step(c) \/ Call(c) \/ Interrupt(c) \/ Kill(c)
                              \/ UserDeletesTree(c)
        \/ UserDeletesLock

Spec == Init /\ [][Next]_vars

(* Processes run and git commands end; nobody has to call, fail or die.    *)
FairSpec == Spec /\ \A c \in Callers : WF_vars(Step(c))

--------------------------------------------------------------------------------
TypeOK ==
  /\ tree \in Trees
  /\ lock \in Callers \cup {Free, Stale}
  /\ meta \in BOOLEAN
  /\ pc \in [Callers -> PCs]
  /\ local \in [Callers -> BOOLEAN]
  /\ outcome \in [Callers -> Outcomes]
  /\ calls \in [Callers -> Nat]
  /\ mishaps \in Nat
  /\ setbacks \subseteq {"failure", "deletion", "removal", "leftover"}
  /\ serial \in BOOLEAN

(* The lock file excludes: whoever is between acquire_lock and             *)
(* release_lock is the caller that created the file now on disk.           *)
MutualExclusion == \A c \in Callers : pc[c] \in Locked => lock = c

(* Between calls the entry is complete or missing: as long as no holder    *)
(* was interrupted or killed, an unlocked directory is a full checkout,    *)
(* whatever failed and however the callers interleaved, or else what one   *)
(* cleanup could not remove, and it is that only until the directory is    *)
(* removed again, by the next failing call or by the user.                 *)
SettledEntryIsWhole ==
  lock = Free /\ mishaps = 0 /\ "leftover" \notin setbacks => tree \in {"absent", "whole"}

(* Metadata is written for a full checkout only, and is never removed:     *)
(* provenance is never recorded for a directory still being built, unless  *)
(* a user deletes the directory while it is.                               *)
MetadataNamesWholeTree ==
  [][meta' # meta => meta' /\ (tree = "whole" \/ "deletion" \in setbacks)]_vars

(* Calls made one after the other, none of them interrupted, end well: the *)
(* workspace is loaded in full or git's own error is reported; never       *)
(* "busy", "corrupt", "predates mlody" or a workspace with files missing.  *)
(* After a cleanup that left something behind they may find "corrupt" or,  *)
(* if roots.mlody was left, load what is there: until a user deletes the   *)
(* directory, which may then happen under the next call.                   *)
SerialCallsAreClean ==
  serial /\ mishaps = 0 /\ HasRoots /\ "deletion" \notin setbacks =>
    \A c \in Callers :
      \/ outcome[c] \in {"none", "loaded", "giterror"}
      \/ "removal" \in setbacks /\ outcome[c] \in {"corrupt", "half-loaded"}

(* No caller waits for another: every call ends.                           *)
CallsEnd == \A c \in Callers : pc[c] # "idle" ~> pc[c] = "idle"
================================================================================
