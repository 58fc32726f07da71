------------------------------- MODULE HttpAsset -------------------------------
(***************************************************************************)
(* The persistent cache of one http(s) URI in manifest mode:               *)
(* HttpAssetSource.materialize of mlody/core/assets/http_asset.py with the *)
(* freshness rules of freshness_policy.py and the sidecar of manifest.py.  *)
(* Several processes share the cache directory and nothing locks it.       *)
(*                                                                         *)
(* The remote side moves from version to version.  A content is a version  *)
(* and whether all of its bytes are there; a content hash is the content   *)
(* it was computed from.  The payload keeps one name: the redirect target  *)
(* that gives it its suffix is taken to be stable.                         *)
(***************************************************************************)
EXTENDS Integers, FiniteSets

CONSTANTS Procs,         \* processes that materialise the URI
          Versions,      \* 0 .. last version the server publishes
          Fields,        \* comparable metadata fields
          Kinds,         \* how metadata is obtained (HEAD, GitHub API)
          FieldOf,       \* FieldOf[k][v][f]: field f of version v, or Absent
          Length,        \* the field that falls back on the bytes received
          SizeOf,        \* SizeOf[c]: number of bytes of content c
          Absent,        \* a field the answer does not carry
          None,          \* no file, no manifest, no answer yet
          Failed,        \* the answer of a call that raised
          Policy,        \* "always", "ttl" or "other"
          MaxAge,        \* the duration of the ttl policy
          MaxLatency,    \* bound: clock ticks during one call
          MaxTime,       \* bound: clock
          Possible,      \* the mishaps that may happen, each at most once
          MaxMishaps     \* bound: how many of them do

Contents == Versions \X BOOLEAN
NoMeta == [f \in Fields |-> Absent]

(* A process is killed, the cache is cleaned, a connection closes early.   *)
Mishaps == {"kill", "clean", "cut"}

ASSUME ConstantsOK ==
  /\ Versions \subseteq Nat /\ 0 \in Versions
  /\ Length \in Fields /\ Policy \in {"always", "ttl", "other"}
  /\ MaxAge \in Nat /\ MaxLatency \in Nat /\ MaxTime \in Nat /\ MaxMishaps \in Nat
  /\ {None, Failed} \cap Contents = {} /\ None # Failed
  /\ Possible \subseteq Mishaps
  /\ \A k \in Kinds, v \in Versions : FieldOf[k][v] = [f \in Fields |-> FieldOf[k][v][f]]
  /\ SizeOf \in [Contents -> Nat] /\ Absent \notin Nat

VARIABLES remote,     \* version the server holds
          superseded, \* history: superseded[v]: when v was replaced, or -1
          now,        \* clock
          payload,    \* content of the payload file, or None
          manifest,   \* content of manifest.json, or None
          pc,         \* where each process is in materialize
          seen,       \* the manifest the process loaded
          meta,       \* the remote metadata it fetched
          metaOf,     \* history: the version that metadata describes, or -1
          got,        \* its temporary file: a content, or None when it is gone
          start,      \* history: when its call began
          blind,      \* history: the call could not revalidate, or was misled
          answer,     \* the content the last answer names, Failed or None
          mishaps     \* history: mishaps so far, and "overlap" of two calls

files == <<payload, manifest>>
server == <<remote, superseded, now>>
call == <<seen, meta, metaOf, got, start, blind>>
history == <<start, blind>>
vars == <<server, files, pc, call, answer, mishaps>>

Never == -1
Unknown == -1

Init ==
  /\ remote = 0 /\ now = 0
  /\ superseded = [v \in Versions |-> Never]
  /\ payload = None /\ manifest = None
  /\ pc = [p \in Procs |-> "idle"]
  /\ seen = [p \in Procs |-> None]
  /\ meta = [p \in Procs |-> NoMeta]
  /\ metaOf = [p \in Procs |-> Unknown]
  /\ got = [p \in Procs |-> None]
  /\ start = [p \in Procs |-> 0]
  /\ blind = [p \in Procs |-> FALSE]
  /\ answer = [p \in Procs |-> None]
  /\ mishaps = {}

Go(p, place) == pc' = [pc EXCEPT ![p] = place]

Mishap(m) ==
  /\ m \in Possible \ mishaps
  /\ Cardinality(mishaps \cap Mishaps) < MaxMishaps
  /\ mishaps' = mishaps \cup {m}

(* materialize returns or raises: its local variables are gone.            *)
Return(p, result) ==
  /\ answer' = [answer EXCEPT ![p] = result]
  /\ seen' = [seen EXCEPT ![p] = None]
  /\ meta' = [meta EXCEPT ![p] = NoMeta]
  /\ metaOf' = [metaOf EXCEPT ![p] = Unknown]
  /\ got' = [got EXCEPT ![p] = None]
  /\ Go(p, "done")

--------------------------------------------------------------------------------
(* The environment.                                                        *)
Publish ==
  /\ remote + 1 \in Versions
  /\ remote' = remote + 1
  /\ superseded' = [superseded EXCEPT ![remote] = now]
  /\ UNCHANGED <<now, files, pc, call, answer, mishaps>>

Tick ==
  /\ now < MaxTime
  /\ \A p \in Procs : pc[p] \notin {"idle", "done"} => now - start[p] < MaxLatency
  /\ now' = now + 1
  /\ UNCHANGED <<remote, superseded, files, pc, call, answer, mishaps>>

--------------------------------------------------------------------------------
AtRest == \A p \in Procs : pc[p] \in {"idle", "done"}

(* materialize: load the manifest, look at the payload, decide.            *)
Call(p) ==
  /\ pc[p] = "idle"
  /\ mishaps' = IF AtRest THEN mishaps ELSE mishaps \cup {"overlap"}
  /\ start' = [start EXCEPT ![p] = now]
  /\ seen' = [seen EXCEPT ![p] = manifest]
  /\ Go(p, "decide")
  /\ UNCHANGED <<server, files, meta, metaOf, got, blind, answer>>

(* The caller is done with the answer.                                     *)
Leave(p) ==
  /\ pc[p] = "done"
  /\ answer' = [answer EXCEPT ![p] = None]
  /\ start' = [start EXCEPT ![p] = 0]
  /\ blind' = [blind EXCEPT ![p] = FALSE]
  /\ Go(p, "idle")
  /\ UNCHANGED <<server, files, seen, meta, metaOf, got, mishaps>>

Cached(p) == seen[p] # None /\ payload # None

(* The manifest describes a version that is newer than its payload.        *)
Mistaken(m) == m.of > m.content[1]

(* should_revalidate_http_asset.                                           *)
ShouldRevalidate(m) ==
  \/ Policy = "always"
  \/ Policy = "ttl" /\ (MaxAge = 0 \/ now - m.checked >= MaxAge)

(* Mutant of ReuseCached: the freshness policy is not asked.               *)
ReuseCachedAlways(p) ==
  /\ pc[p] = "decide" /\ Cached(p)
  /\ Return(p, seen[p].content)
  /\ blind' = [blind EXCEPT ![p] = Mistaken(seen[p])]
  /\ UNCHANGED <<server, files, start, mishaps>>

ReuseCached(p) ==
  /\ pc[p] = "decide" /\ Cached(p) /\ ~ShouldRevalidate(seen[p])
  /\ Return(p, seen[p].content)
  /\ blind' = [blind EXCEPT ![p] = Mistaken(seen[p])]
  /\ UNCHANGED <<server, files, start, mishaps>>

DecideRevalidate(p) ==
  /\ pc[p] = "decide" /\ Cached(p) /\ ShouldRevalidate(seen[p])
  /\ Go(p, "revalidate")
  /\ UNCHANGED <<server, files, call, answer, mishaps>>

DecideDownload(p) ==
  /\ pc[p] = "decide" /\ ~Cached(p)
  /\ Go(p, "head")
  /\ UNCHANGED <<server, files, call, answer, mishaps>>

--------------------------------------------------------------------------------
(* remote_metadata_indicates_change: some comparable field differs, or     *)
(* nothing can be compared.                                                *)
Comparable(known, fetched) == {f \in Fields : known[f] # Absent /\ fetched[f] # Absent}

IndicatesChange(known, fetched) ==
  \/ Comparable(known, fetched) = {}
  \/ \E f \in Comparable(known, fetched) : known[f] # fetched[f]

(* manifest_with_refreshed_remote_metadata: what the answer does not carry *)
(* is kept from before.                                                    *)
Refreshed(known, fetched) ==
  [f \in Fields |-> IF fetched[f] # Absent THEN fetched[f] ELSE known[f]]

(* _revalidate_cached_asset.                                               *)
RevalidateFails(p) ==
  /\ pc[p] = "revalidate"
  /\ Return(p, seen[p].content)
  /\ blind' = [blind EXCEPT ![p] = TRUE]
  /\ UNCHANGED <<server, files, start, mishaps>>

(* Mutant of Revalidate: a change is recorded before it is downloaded.     *)
RevalidateRecords(p, k) ==
  /\ pc[p] = "revalidate"
  /\ meta' = [meta EXCEPT ![p] = FieldOf[k][remote]]
  /\ metaOf' = [metaOf EXCEPT ![p] = remote]
  /\ manifest' = [seen[p] EXCEPT !.meta = Refreshed(@, meta'[p]), !.of = remote]
  /\ Go(p, IF IndicatesChange(seen[p].meta, meta'[p]) THEN "get" ELSE "refresh")
  /\ UNCHANGED <<server, payload, seen, got, start, blind, answer, mishaps>>

Revalidate(p, k) ==
  /\ pc[p] = "revalidate"
  /\ meta' = [meta EXCEPT ![p] = FieldOf[k][remote]]
  /\ metaOf' = [metaOf EXCEPT ![p] = remote]
  /\ Go(p, IF IndicatesChange(seen[p].meta, meta'[p]) THEN "get" ELSE "refresh")
  /\ UNCHANGED <<server, files, seen, got, start, blind, answer, mishaps>>

(* The manifest that was loaded is written back with the new metadata.  It *)
(* is `guessed' when there was no metadata before and the bytes' length    *)
(* was all that the answer could be compared with.                         *)
Refresh(p) ==
  /\ pc[p] = "refresh"
  /\ manifest' = [seen[p] EXCEPT !.meta = Refreshed(@, meta[p]),
                                 !.of = metaOf[p],
                                 !.guessed = @ \/ seen[p].of = Unknown,
                                 !.checked = now]
  /\ Return(p, seen[p].content)
  /\ blind' = [blind EXCEPT ![p] = Mistaken(manifest')]
  /\ UNCHANGED <<server, payload, start, mishaps>>

--------------------------------------------------------------------------------
(* _fetch_bytes: metadata first unless it is known, then the body into a   *)
(* temporary file of its own, then the replacement of the payload.         *)
Head(p, k) ==
  /\ pc[p] = "head"
  /\ meta' = [meta EXCEPT ![p] = FieldOf[k][remote]]
  /\ metaOf' = [metaOf EXCEPT ![p] = remote]
  /\ Go(p, "get")
  /\ UNCHANGED <<server, files, seen, got, start, blind, answer, mishaps>>

HeadFails(p) ==
  /\ pc[p] = "head"
  /\ meta' = [meta EXCEPT ![p] = NoMeta]
  /\ metaOf' = [metaOf EXCEPT ![p] = Unknown]
  /\ Go(p, "get")
  /\ UNCHANGED <<server, files, seen, got, start, blind, answer, mishaps>>

(* Mutant of Get: the body is written straight to the payload file.        *)
GetInPlace(p) ==
  /\ pc[p] = "get"
  /\ got' = [got EXCEPT ![p] = <<remote, FALSE>>]
  /\ payload' = <<remote, FALSE>>
  /\ Go(p, "stream")
  /\ UNCHANGED <<server, manifest, seen, meta, metaOf, start, blind, answer, mishaps>>

(* The server answers with the version it holds when the body starts.      *)
Get(p) ==
  /\ pc[p] = "get"
  /\ got' = [got EXCEPT ![p] = <<remote, FALSE>>]
  /\ Go(p, "stream")
  /\ UNCHANGED <<server, files, seen, meta, metaOf, start, blind, answer, mishaps>>

StreamEnds(p) ==
  /\ pc[p] = "stream"
  /\ got' = [got EXCEPT ![p] = IF @ = None THEN None ELSE <<@[1], TRUE>>]
  /\ Go(p, "replace")
  /\ UNCHANGED <<server, files, seen, meta, metaOf, start, blind, answer, mishaps>>

(* The peer closes early: read(n) returns b"" and the loop ends normally.  *)
StreamCut(p) ==
  /\ pc[p] = "stream"
  /\ Mishap("cut")
  /\ Go(p, "replace")
  /\ UNCHANGED <<server, files, call, answer>>

(* The request, the stream or the replacement raises: the temporary file   *)
(* is removed and the call fails.                                          *)
FetchFails(p) ==
  /\ pc[p] \in {"get", "stream", "replace"}
  /\ Return(p, Failed)
  /\ UNCHANGED <<server, files, history, mishaps>>

Replace(p) ==
  /\ pc[p] = "replace" /\ got[p] # None
  /\ payload' = got[p]
  /\ Go(p, "publish")
  /\ UNCHANGED <<server, manifest, call, answer, mishaps>>

(* _download_asset: the manifest of what was received.                     *)
Received(p) ==
  [meta |-> [meta[p] EXCEPT ![Length] = IF @ # Absent THEN @ ELSE SizeOf[got[p]]],
   of |-> metaOf[p],
   guessed |-> FALSE,
   content |-> got[p],
   checked |-> now]

WriteManifest(p) ==
  /\ pc[p] = "publish"
  /\ manifest' = Received(p)
  /\ Return(p, got[p])
  /\ UNCHANGED <<server, payload, history, mishaps>>

--------------------------------------------------------------------------------
(* A process is killed, or one of its writes raises outside the handler of *)
(* _fetch_bytes.                                                           *)
Die(p) ==
  /\ pc[p] \notin {"idle", "done"}
  /\ Mishap("kill")
  /\ Return(p, Failed)
  /\ UNCHANGED <<server, files, history>>

(* POST /api/cache/clean: rmtree of the directory.  It takes the entries   *)
(* one by one, gives up when one appears behind its back, and its errors   *)
(* are swallowed, so what it took is any part of the directory.            *)
Clean(payloadGoes, manifestGoes, temps) ==
  /\ Mishap("clean")
  /\ payload' = IF payloadGoes THEN None ELSE payload
  /\ manifest' = IF manifestGoes THEN None ELSE manifest
  /\ got' = [p \in Procs |-> IF p \in temps /\ pc[p] \in {"stream", "replace"}
                               THEN None ELSE got[p]]
  /\ UNCHANGED <<server, pc, seen, meta, metaOf, start, blind, answer>>

--------------------------------------------------------------------------------
Step(p) ==
  \/ ReuseCached(p) \/ DecideRevalidate(p) \/ DecideDownload(p)
  \/ RevalidateFails(p) \/ Refresh(p) \/ HeadFails(p) \/ Get(p) \/ StreamEnds(p)
  \/ StreamCut(p) \/ FetchFails(p) \/ Replace(p) \/ WriteManifest(p)
  \/ \E k \in Kinds : Revalidate(p, k) \/ Head(p, k)

Next ==
  \/ Publish \/ Tick
  \/ \E p \in Procs : Call(p) \/ Step(p) \/ Leave(p) \/ Die(p)
  \/ \E payloadGoes, manifestGoes \in BOOLEAN, temps \in SUBSET Procs :
       Clean(payloadGoes, manifestGoes, temps)

Spec == Init /\ [][Next]_vars

--------------------------------------------------------------------------------
FieldValues ==
  {Absent} \cup Nat \cup {FieldOf[k][v][f] : k \in Kinds, v \in Versions, f \in Fields}
Manifests ==
  [meta : [Fields -> FieldValues], of : Versions \cup {Unknown}, guessed : BOOLEAN,
   content : Contents, checked : Nat]

TypeOK ==
  /\ remote \in Versions /\ now \in Nat
  /\ superseded \in [Versions -> Nat \cup {Never}]
  /\ payload \in Contents \cup {None}
  /\ manifest \in Manifests \cup {None}
  /\ pc \in [Procs -> {"idle", "done", "decide", "revalidate", "refresh", "head",
                       "get", "stream", "replace", "publish"}]
  /\ seen \in [Procs -> Manifests \cup {None}]
  /\ meta \in [Procs -> [Fields -> FieldValues]]
  /\ metaOf \in [Procs -> Versions \cup {Unknown}]
  /\ got \in [Procs -> Contents \cup {None}]
  /\ start \in [Procs -> Nat]
  /\ blind \in [Procs -> BOOLEAN]
  /\ answer \in [Procs -> Contents \cup {None, Failed}]
  /\ mishaps \subseteq Mishaps \cup {"overlap"}

(* At rest, the manifest's content_hash is the hash of the payload it      *)
(* points to: what materialize returns next is one path and its own hash.  *)
SettledManifestMatches ==
  AtRest /\ manifest # None /\ payload # None => payload = manifest.content

(* The code keeps that as long as no two calls overlapped and none was     *)
(* killed, through failures, early closes and cleanings; and however calls *)
(* overlap, are killed or fail, a reader of the payload path never meets a *)
(* file that is still being written or was given up half-way, unless a     *)
(* body ended early.                                                       *)
SerialManifestMatches ==
  /\ mishaps \cap {"overlap", "kill"} = {} => SettledManifestMatches
  /\ payload # None /\ "cut" \notin mishaps => payload[2]

(* One field is in every answer about metadata and tells any two versions  *)
(* of the remote apart, like the etag of a HEAD.                           *)
TellsVersions(f) ==
  \A k \in Kinds, v \in Versions :
    /\ FieldOf[k][v][f] # Absent
    /\ \A kk \in Kinds, w \in Versions \ {v} : FieldOf[k][v][f] # FieldOf[kk][w][f]

MetadataTellsVersions == \E f \in Fields : TellsVersions(f)

(* The metadata of a manifest describes a remote version newer than its    *)
(* payload, which makes every later revalidation find nothing changed and  *)
(* serve the old payload until yet another version comes, in one case      *)
(* only: the metadata request before the download failed, and the length   *)
(* of what was received is by chance that of the newer version.  However   *)
(* HEAD, GET and the writes of several processes interleave, it does not   *)
(* come about in another way, where metadata tells versions apart.         *)
NotPermanentlyStale ==
  manifest # None /\ Mistaken(manifest) =>
    /\ manifest.guessed
    /\ \E k \in Kinds : FieldOf[k][manifest.of][Length] = SizeOf[manifest.content]

(* The ttl promise.  An answer whose call could reach the server, and did  *)
(* not go by a mistaken manifest (NotPermanentlyStale says when there is   *)
(* one), names a version the server still held MaxAge before the call (at  *)
(* the call, for "always"), give or take the time a call may last.         *)
AgeAllowed == IF Policy = "always" THEN 0 ELSE MaxAge

StalenessBounded ==
  Policy # "other" =>
    \A p \in Procs :
      pc[p] = "done" /\ ~blind[p] /\ answer[p] \notin {None, Failed} =>
        LET v == answer[p][1] IN
        superseded[v] = Never \/ superseded[v] + AgeAllowed + MaxLatency >= start[p]
================================================================================
