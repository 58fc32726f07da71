------------------------------ MODULE CopiedAsset ------------------------------
(***************************************************************************)
(* A declared local copy of an upstream asset: CopiedAssetSource of        *)
(* mlody/core/assets/copied_asset.py, on top of an http(s) upstream that   *)
(* keeps its own cache under the same freshness policy.  The converted     *)
(* html tables and the derived parquet files are published the same way,   *)
(* without a hash.                                                         *)
(*                                                                         *)
(* Every copy of one destination goes through the same "<dest>.tmp".  A    *)
(* file name is bound to an inode; a writer keeps the inode it opened      *)
(* whatever happens to the name.  What an inode holds is a version of the  *)
(* upstream content and whether it is a faithful copy of it.               *)
(***************************************************************************)
EXTENDS Integers

CONSTANTS Procs,       \* threads and processes that materialise the value
          Inodes,      \* enough of them for every name and open file
          Versions,    \* 0 .. last version the server publishes
          None,        \* no file, no answer
          Hashed,      \* does the upstream know its content hash?
          Policy,      \* "always", "ttl" or "other"
          MaxAge,      \* the duration of the ttl policy
          MaxLatency,  \* bound: clock ticks during one call
          MaxTime,     \* bound: clock
          MaxKills,    \* bound: killed processes
          Shared       \* do others materialise the upstream?

ASSUME ConstantsOK ==
  /\ Versions \subseteq Nat /\ 0 \in Versions
  /\ MaxAge \in Nat /\ MaxLatency \in Nat /\ MaxTime \in Nat /\ MaxKills \in Nat
  /\ None \notin Inodes /\ None \notin Versions /\ None \notin Procs
  /\ Policy \in {"always", "ttl", "other"} /\ {Hashed, Shared} \subseteq BOOLEAN

VARIABLES remote, superseded, now, \* the server and the clock
          up,        \* version in the upstream's cache, or None
          checked,   \* when the upstream last asked the server
          misled,    \* history: it was told nothing changed, wrongly
          dest,      \* inode of the destination, or None
          tmp,       \* inode of <dest>.tmp, or None
          data,      \* data[i]: <<version, faithful?>>
          mtime,     \* mtime[i]
          pc, fd,    \* fd[p]: inode the process has open for writing
          src,       \* version the process is copying
          hash,      \* version the upstream's content hash is of
          mixed,     \* somebody else opened the inode the process is writing
          start,     \* history: when the call began
          blind,     \* history: its upstream did not get at the server's version
          unsure,    \* history: unsure[i]: content vouched for by a blind call
          answer,    \* the version its content hash names, or None
          kills,     \* history: killed processes
          meddled    \* history: "overlap" of two calls, "clash" of two
                     \* copies, "refresh" by others

server == <<remote, superseded, now>>
upstream == <<up, checked, misled>>
disk == <<dest, tmp, data, mtime, unsure>>
call == <<fd, src, hash, mixed, blind>>
vars == <<server, upstream, disk, pc, call, start, answer, kills, meddled>>

Never == -1

Init ==
  /\ remote = 0 /\ now = 0
  /\ superseded = [v \in Versions |-> Never]
  /\ up = None /\ checked = 0 /\ misled = FALSE
  /\ dest = None /\ tmp = None
  /\ data = [i \in Inodes |-> <<0, FALSE>>]
  /\ mtime = [i \in Inodes |-> 0]
  /\ unsure = [i \in Inodes |-> FALSE]
  /\ pc = [p \in Procs |-> "idle"]
  /\ fd = [p \in Procs |-> None]
  /\ src = [p \in Procs |-> 0]
  /\ hash = [p \in Procs |-> None]
  /\ mixed = [p \in Procs |-> FALSE]
  /\ blind = [p \in Procs |-> FALSE]
  /\ start = [p \in Procs |-> 0]
  /\ answer = [p \in Procs |-> None]
  /\ kills = 0 /\ meddled = {}

Go(p, place) == pc' = [pc EXCEPT ![p] = place]
Resting == {"idle", "done", "failed"}
AtRest == \A p \in Procs : pc[p] \in Resting
Alone == \A p \in Procs : pc[p] = "idle"

Return(p, place, result) ==
  /\ Go(p, place)
  /\ answer' = [answer EXCEPT ![p] = result]
  /\ fd' = [fd EXCEPT ![p] = None]
  /\ src' = [src EXCEPT ![p] = 0]
  /\ hash' = [hash EXCEPT ![p] = None]
  /\ mixed' = [mixed EXCEPT ![p] = FALSE]
  /\ blind' = [blind EXCEPT ![p] = FALSE]

--------------------------------------------------------------------------------
(* The server and the clock.                                               *)
Publish ==
  /\ remote + 1 \in Versions
  /\ remote' = remote + 1
  /\ superseded' = [superseded EXCEPT ![remote] = now]
  /\ UNCHANGED <<now, upstream, disk, pc, call, start, answer, kills, meddled>>

Tick ==
  /\ now < MaxTime
  /\ \A p \in Procs : pc[p] \notin Resting => now - start[p] < MaxLatency
  /\ now' = now + 1
  /\ UNCHANGED <<remote, superseded, upstream, disk, pc, call, start, answer, kills, meddled>>

Expired(since) == \/ Policy = "always"
                  \/ Policy = "ttl" /\ (MaxAge = 0 \/ now - since >= MaxAge)

(* upstream.materialize() for the call of p: a young cached version, ...   *)
UpstreamIsYoung(p) ==
  /\ up # None /\ ~Expired(checked)
  /\ blind' = [blind EXCEPT ![p] = misled]
  /\ UNCHANGED upstream

(* ... the server's, which is then cached, ...                             *)
UpstreamAsks(p) ==
  /\ up = None \/ Expired(checked)
  /\ up' = remote /\ checked' = now /\ misled' = FALSE
  /\ blind' = [blind EXCEPT ![p] = FALSE]

(* ... the expired one, without an error, when it cannot be revalidated,   *)
UpstreamKeeps(p) ==
  /\ up # None /\ Expired(checked)
  /\ blind' = [blind EXCEPT ![p] = TRUE]
  /\ UNCHANGED upstream

(* or the expired one as checked: metadata that was missing when it was    *)
(* downloaded lets a change go unseen (NotPermanentlyStale of HttpAsset).  *)
UpstreamSeesNoChange ==
  /\ up # None /\ up # remote
  /\ checked' = now /\ misled' = TRUE
  /\ UNCHANGED up

UpstreamAnswers(p) ==
  \/ UpstreamIsYoung(p) \/ UpstreamAsks(p) \/ UpstreamKeeps(p)
  \/ Expired(checked) /\ UpstreamSeesNoChange /\ blind' = [blind EXCEPT ![p] = TRUE]

(* Another value with the same URI refreshes the shared upstream cache.    *)
OtherUser ==
  /\ Shared
  /\ (up' = remote /\ checked' = now /\ misled' = FALSE) \/ UpstreamSeesNoChange
  /\ meddled' = IF AtRest THEN meddled ELSE meddled \cup {"refresh"}
  /\ UNCHANGED <<server, disk, pc, call, start, answer, kills>>

--------------------------------------------------------------------------------
Call(p) ==
  /\ pc[p] = "idle"
  /\ meddled' = IF Alone THEN meddled ELSE meddled \cup {"overlap"}
  /\ start' = [start EXCEPT ![p] = now]
  /\ Go(p, "check")
  /\ UNCHANGED <<server, upstream, disk, call, answer, kills>>

Leave(p) ==
  /\ pc[p] \in {"done", "failed"}
  /\ Go(p, "idle")
  /\ start' = [start EXCEPT ![p] = 0]
  /\ answer' = [answer EXCEPT ![p] = None]
  /\ UNCHANGED <<server, upstream, disk, call, kills, meddled>>

(* should_refresh_copied_asset, on the mtime of an existing destination.   *)
Young == dest # None /\ ~Expired(mtime[dest])

(* The destination exists and its mtime is young enough: no hash is given. *)
Hit(p) ==
  /\ pc[p] = "check" /\ Young
  /\ Return(p, "done", None)
  /\ UNCHANGED <<server, upstream, disk, start, kills, meddled>>

(* _refresh_from_upstream.                                                 *)
Miss(p) ==
  /\ pc[p] = "check"
  /\ ~Young
  /\ UpstreamAnswers(p)
  /\ hash' = [hash EXCEPT ![p] = IF Hashed THEN up' ELSE None]
  /\ Go(p, "compare")
  /\ UNCHANGED <<server, disk, fd, src, mixed, start, answer, kills, meddled>>

UpstreamFails(p) ==
  /\ pc[p] = "check"
  /\ ~Young
  /\ Return(p, "failed", None)
  /\ UNCHANGED <<server, upstream, disk, start, kills, meddled>>

(* The destination's own hash is computed and compared.                    *)
Current(p) == dest # None /\ hash[p] # None /\ data[dest] = <<hash[p], TRUE>>

(* Mutant of Touch: an existing file is taken for the current one.         *)
TouchUnread(p) ==
  /\ pc[p] = "compare" /\ dest # None /\ hash[p] # None
  /\ mtime' = [mtime EXCEPT ![dest] = now]
  /\ unsure' = [unsure EXCEPT ![dest] = blind[p]]
  /\ Return(p, "done", hash[p])
  /\ UNCHANGED <<server, upstream, dest, tmp, data, start, kills, meddled>>

Touch(p) ==
  /\ pc[p] = "compare" /\ Current(p)
  /\ mtime' = [mtime EXCEPT ![dest] = now]
  /\ unsure' = [unsure EXCEPT ![dest] = blind[p]]
  /\ Return(p, "done", hash[p])
  /\ UNCHANGED <<server, upstream, dest, tmp, data, start, kills, meddled>>

(* What no name and no open file refers to any more is gone.               *)
Live == {dest, tmp} \cup {fd[q] : q \in Procs}

Forget ==
  /\ data' = [i \in Inodes |-> IF i \in Live' THEN data[i] ELSE <<0, FALSE>>]
  /\ mtime' = [i \in Inodes |-> IF i \in Live' THEN mtime[i] ELSE 0]
  /\ unsure' = [i \in Inodes |-> IF i \in Live' THEN unsure[i] ELSE FALSE]

(* copyfile opens the upstream's path, then truncates or creates the       *)
(* temporary file.                                                         *)
Writers(i) == {q \in Procs : pc[q] = "write" /\ fd[q] = i}

Open(p, i) ==
  /\ pc[p] = "compare" /\ ~Current(p)
  /\ IF tmp # None THEN i = tmp ELSE i \notin Live
  /\ tmp' = i
  /\ fd' = [fd EXCEPT ![p] = i]
  /\ src' = [src EXCEPT ![p] = up]
  /\ data' = [data EXCEPT ![i] = <<up, FALSE>>]
  /\ mtime' = [mtime EXCEPT ![i] = now]
  /\ unsure' = [unsure EXCEPT ![i] = blind[p]]
  /\ meddled' = IF \E q \in Procs \ {p} : pc[q] \in {"write", "replace"}
                  THEN meddled \cup {"clash"} ELSE meddled
  /\ mixed' = [q \in Procs |->
       \/ mixed[q] \/ q \in Writers(i)
       \/ q = p /\ \E r \in Writers(i) : src[r] # up]
  /\ Go(p, "write")
  /\ UNCHANGED <<server, upstream, dest, hash, blind, start, answer, kills>>

(* All bytes are written.  When the inode was shared, what is in it may be *)
(* the copy, or a mixture: another writer truncated it under this one, or  *)
(* wrote bytes of another version into it.                                 *)
WriteEnds(p, whole) ==
  /\ pc[p] = "write"
  /\ whole \/ (mixed[p] /\ data[fd[p]] # <<src[p], TRUE>>)
  /\ data' = [data EXCEPT ![fd[p]] = <<src[p], whole>>]
  /\ mtime' = [mtime EXCEPT ![fd[p]] = now]
  /\ Go(p, "replace")
  /\ UNCHANGED <<server, upstream, dest, tmp, unsure, call, start, answer, kills, meddled>>

(* The copy or the replacement raises (the source is gone, the disk is     *)
(* full, the temporary name is gone): the name is removed, whoever made it. *)
CopyFails(p) ==
  /\ pc[p] \in {"write", "replace"} \/ (pc[p] = "compare" /\ ~Current(p))
  /\ tmp' = None
  /\ Return(p, "failed", None)
  /\ UNCHANGED dest
  /\ Forget
  /\ UNCHANGED <<server, upstream, start, kills, meddled>>

(* os.replace moves what the name is bound to now.                         *)
Replace(p) ==
  /\ pc[p] = "replace" /\ tmp # None
  /\ dest' = tmp /\ tmp' = None
  /\ Return(p, "done", hash[p])
  /\ Forget
  /\ UNCHANGED <<server, upstream, start, kills, meddled>>

(* The process is killed; the files stay as they are.                      *)
Die(p) ==
  /\ pc[p] \notin Resting /\ kills < MaxKills
  /\ kills' = kills + 1
  /\ Return(p, "failed", None)
  /\ UNCHANGED <<dest, tmp>>
  /\ Forget
  /\ UNCHANGED <<server, upstream, start, meddled>>

Step(p) == \/ Hit(p) \/ Miss(p) \/ UpstreamFails(p) \/ Touch(p)
           \/ \E i \in Inodes : Open(p, i)
           \/ \E whole \in BOOLEAN : WriteEnds(p, whole)
           \/ CopyFails(p) \/ Replace(p)

Next == \/ Publish \/ Tick \/ OtherUser
        \/ \E p \in Procs : Call(p) \/ Step(p) \/ Leave(p) \/ Die(p)

Spec == Init /\ [][Next]_vars

--------------------------------------------------------------------------------
TypeOK ==
  /\ remote \in Versions /\ now \in Nat /\ checked \in Nat /\ kills \in 0 .. MaxKills
  /\ superseded \in [Versions -> Nat \cup {Never}]
  /\ up \in Versions \cup {None} /\ misled \in BOOLEAN
  /\ dest \in Inodes \cup {None} /\ tmp \in Inodes \cup {None}
  /\ data \in [Inodes -> Versions \X BOOLEAN]
  /\ mtime \in [Inodes -> Nat] /\ unsure \in [Inodes -> BOOLEAN]
  /\ pc \in [Procs -> Resting \cup {"check", "compare", "write", "replace"}]
  /\ fd \in [Procs -> Inodes \cup {None}]
  /\ src \in [Procs -> Versions]
  /\ hash \in [Procs -> Versions \cup {None}]
  /\ mixed \in [Procs -> BOOLEAN] /\ blind \in [Procs -> BOOLEAN]
  /\ start \in [Procs -> Nat]
  /\ answer \in [Procs -> Versions \cup {None}]
  /\ meddled \subseteq {"overlap", "clash", "refresh"}

(* What the destination's name is bound to is a faithful copy of one       *)
(* version of the source, however calls overlap, fail or are killed, until *)
(* a process begins to copy while another one does: both go through one    *)
(* <dest>.tmp, and nothing in the code keeps a torn file from its place    *)
(* then.  And the hash a refresh returns is the hash of the file it        *)
(* returns, as long as calls do not overlap and nobody refreshes the       *)
(* upstream in the middle of one.                                          *)
HashNamesCopy ==
  /\ "clash" \notin meddled /\ dest # None => data[dest][2]
  /\ meddled = {} =>
       \A p \in Procs :
         pc[p] = "done" /\ answer[p] # None => data[dest] = <<answer[p], TRUE>>

(* How old a copy can be where calls do not overlap: the upstream's own    *)
(* ttl and the copy's add up.  A copy that was made or confirmed while the *)
(* upstream could not reach the server, or did not see its change, is as   *)
(* old as the upstream's: the code takes it for a fresh one.               *)
AgeAllowed == IF Policy = "always" THEN 0 ELSE 2 * MaxAge

CopyAgeBounded ==
  Policy # "other" /\ "overlap" \notin meddled =>
    \A p \in Procs :
      pc[p] = "done" /\ ~unsure[dest] =>
        LET v == data[dest][1] IN
        superseded[v] = Never \/ superseded[v] + AgeAllowed + MaxLatency >= start[p]
================================================================================
