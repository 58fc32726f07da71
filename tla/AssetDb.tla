------------------------------- MODULE AssetDb -------------------------------
(* HTTP assets under both ways of keeping account of them.  With a database
   connection (core/assets/http_asset.py:268, db/assets.py) a URI's record is
   its latest observation, which names a content hash, and the hash's blob row
   names a file.  Without one it is the manifest beside the payload.  Both ways
   download into the same file, one per URI, and neither reads the other's
   record.  The derived tables of core/tabular are keyed by the hash a call
   without a connection reports, and are computed from the file.

   HttpAsset has the single URI in manifest mode in full, its clock, its partial
   bodies and its metadata fields.  Here a HEAD identifies the content, a body
   arrives whole, and whether a record is still fresh is left open. *)
EXTENDS Naturals, Sequences

CONSTANTS Procs, Uris, Contents, None,
          Script,      \* what each URI serves: its contents, one after the other
          MaxCalls,    \* bound: calls the processes make
          MaxMishaps   \* bound: kills, cleanings of the cache, and of the database

Modes == {"db", "manifest"}

VARIABLES
  at,        \* the content each URI serves now, as an index into its script
  payload,   \* the file in the cache directory of each URI
  manifest,  \* manifest.json of each URI: None, or known (what HEAD said) and hash
  obs,       \* the latest row of asset_observations of each URI, as above
  blob,      \* asset_blobs: the file that had each content first
  epoch,     \* how often the database was emptied: older asset ids are gone
  derived,   \* the derived table of each hash: the content it was computed from
  call,      \* what each process is doing
  calls, mishaps,
  \* ghosts
  serial,    \* no two calls have overlapped, none was cut short
  modes      \* the modes that have downloaded each URI
vars == <<at, payload, manifest, obs, blob, epoch, derived, call, calls, mishaps, serial, modes>>
stores == <<payload, manifest, obs, blob, derived>>
env == <<at, epoch, calls, mishaps, serial>>

Now(u) == Script[u][at[u]]
Rec(known, hash) == [known |-> known, hash |-> hash]
Idle == [pc |-> "idle"]

Init ==
  /\ at = [u \in Uris |-> 1] /\ payload = [u \in Uris |-> None]
  /\ manifest = [u \in Uris |-> None] /\ obs = [u \in Uris |-> None]
  /\ blob = [c \in Contents |-> None] /\ epoch = 0 /\ derived = [c \in Contents |-> None]
  /\ call = [p \in Procs |-> Idle] /\ calls = 0 /\ mishaps = 0
  /\ serial = TRUE /\ modes = [u \in Uris |-> {}]

(* The server publishes the next content. *)
Publish(u) ==
  /\ at[u] < Len(Script[u]) /\ at' = [at EXCEPT ![u] = @ + 1]
  /\ UNCHANGED <<stores, epoch, call, calls, mishaps, serial, modes>>

(* The record a mode goes by and the file it points to: for an observation the
   one of the blob row, which may be another URI's. *)
Record(mode, u) == IF mode = "manifest" THEN manifest[u]
                   ELSE IF obs[u] # None /\ blob[obs[u].hash] # None THEN obs[u] ELSE None
FileOf(mode, u, rec) == IF mode = "manifest" THEN u ELSE blob[rec.hash]
Cached(mode, u) == LET rec == Record(mode, u) IN
  rec # None /\ payload[FileOf(mode, u, rec)] # None

Set(p, fields) == call' = [call EXCEPT ![p] = [f \in DOMAIN @ \union DOMAIN fields |->
  IF f \in DOMAIN fields THEN fields[f] ELSE @[f]]]
At(p, pc) == call[p].pc = pc
Ended(p) == call[p].pc \in {"idle", "answered"}

(* The answer: holds is what the file held then; alone stays true until another
   call begins. *)
Answer(p, file, hash, reached, content) ==
  call' = [call EXCEPT ![p] =
    [pc |-> "answered", uri |-> @.uri, mode |-> @.mode, from |-> @.from, file |-> file,
     hash |-> hash, reached |-> reached, holds |-> content, alone |-> TRUE]]
AnswerCached(p, reached) ==
  LET c == call[p] IN Answer(p, c.file, c.rec.hash, reached, payload[c.file])

(* A call reads its record once.  One that is fresh enough is the answer, and
   the server is not asked. *)
Begin(p, u, mode) ==
  /\ Ended(p) /\ calls < MaxCalls /\ calls' = calls + 1
  /\ serial' = (serial /\ \A q \in Procs : Ended(q))
  /\ LET rec == Record(mode, u) IN
     call' = [q \in Procs |->
       CASE q = p /\ Cached(mode, u) ->
              [pc |-> "cached", uri |-> u, mode |-> mode, from |-> at[u], asset |-> epoch,
               rec |-> rec, file |-> FileOf(mode, u, rec)]
         [] q = p /\ ~Cached(mode, u) ->
              [pc |-> "head", uri |-> u, mode |-> mode, from |-> at[u], asset |-> epoch]
         [] q # p /\ At(q, "answered") -> [call[q] EXCEPT !.alone = FALSE]
         [] q # p /\ ~At(q, "answered") -> call[q]]
  /\ UNCHANGED <<at, stores, epoch, mishaps, modes>>

(* So is one the server cannot be asked about: nothing is written. *)
Reuse(p) == At(p, "cached") /\ AnswerCached(p, FALSE) /\ UNCHANGED <<stores, env, modes>>

(* Where a new record of a call goes; the asset id may be gone by now. *)
Put(p, rec) == LET c == call[p] IN
  IF c.mode = "manifest" THEN manifest' = [manifest EXCEPT ![c.uri] = rec] /\ UNCHANGED obs
  ELSE /\ obs' = IF c.asset = epoch THEN [obs EXCEPT ![c.uri] = rec] ELSE obs
       /\ UNCHANGED manifest

(* The same content as far as HEAD can tell: a new check of the old record. *)
ChangedNever(p) == FALSE
Changed(p) == Now(call[p].uri) # call[p].rec.known
Revalidate(p) ==
  /\ At(p, "cached") /\ ~Changed(p) /\ Put(p, call[p].rec) /\ AnswerCached(p, TRUE)
  /\ UNCHANGED <<payload, blob, derived, env, modes>>

(* Another content: manifest mode downloads under this HEAD, the database mode
   under one of its own. *)
Outdated(p) ==
  /\ At(p, "cached") /\ Changed(p)
  /\ IF call[p].mode = "manifest" THEN Set(p, [pc |-> "get", known |-> Now(call[p].uri)])
                                  ELSE Set(p, [pc |-> "head"])
  /\ UNCHANGED <<stores, env, modes>>

(* HEAD before GET; a HEAD that fails leaves only the length of the body. *)
HeadFirst(p) ==
  /\ At(p, "head") /\ \E k \in {Now(call[p].uri), None} : Set(p, [pc |-> "get", known |-> k])
  /\ UNCHANGED <<stores, env, modes>>
Get(p) ==
  /\ At(p, "get") /\ LET body == Now(call[p].uri) IN
       Set(p, [pc |-> "replace", body |-> body,
               known |-> IF call[p].known = None THEN body ELSE call[p].known])
  /\ UNCHANGED <<stores, env, modes>>
GetFails(p) == At(p, "get") /\ call' = [call EXCEPT ![p] = Idle] /\ UNCHANGED <<stores, env, modes>>

InPlaceOnce(u, body) == IF payload[u] = None THEN [payload EXCEPT ![u] = body] ELSE payload
InPlace(u, body) == [payload EXCEPT ![u] = body]
Replace(p) ==
  /\ At(p, "replace") /\ payload' = InPlace(call[p].uri, call[p].body)
  /\ Set(p, [pc |-> IF call[p].mode = "manifest" THEN "record" ELSE "upsert"])
  /\ modes' = [modes EXCEPT ![call[p].uri] = @ \union {call[p].mode}]
  /\ UNCHANGED <<manifest, obs, blob, derived, env>>

(* upsert_blob and record_observation commit one after the other. *)
Upsert(p) ==
  /\ At(p, "upsert") /\ Set(p, [pc |-> "record"])
  /\ blob' = [blob EXCEPT ![call[p].body] = IF @ = None THEN call[p].uri ELSE @]
  /\ UNCHANGED <<payload, manifest, obs, derived, env, modes>>
RecordIt(p) == LET c == call[p] IN
  /\ At(p, "record") /\ Put(p, Rec(c.known, c.body))
  /\ Answer(p, c.uri, c.body, TRUE, payload[c.uri])
  /\ UNCHANGED <<payload, blob, derived, env, modes>>

(* ---------------------------------------------------------- derived tables *)
(* DerivedSource.materialize: an output that exists is the answer for good;
   else the query runs over the file the source was given. *)
Derive(p) == LET c == call[p] IN
  /\ At(p, "answered") /\ c.mode = "manifest" /\ payload[c.file] # None
  /\ derived' = [derived EXCEPT ![c.hash] = IF @ = None THEN payload[c.file] ELSE @]
  /\ call' = [call EXCEPT ![p] = Idle] /\ serial' = (serial /\ c.alone)
  /\ UNCHANGED <<payload, manifest, obs, blob, at, epoch, calls, mishaps, modes>>

(* ---------------------------------------------------------------- mishaps *)
Mishap == mishaps < MaxMishaps /\ mishaps' = mishaps + 1
Kill(p) ==
  /\ Mishap /\ ~Ended(p) /\ call' = [call EXCEPT ![p] = Idle] /\ serial' = FALSE
  /\ UNCHANGED <<at, stores, epoch, calls, modes>>

(* clean_cache removes the directory of a URI, a temporary file in it included. *)
Clean(u) ==
  /\ Mishap /\ payload' = [payload EXCEPT ![u] = None]
  /\ manifest' = [manifest EXCEPT ![u] = None]
  /\ call' = [p \in Procs |-> IF At(p, "replace") /\ call[p].uri = u
                              THEN Idle ELSE call[p]]
  /\ serial' = (serial /\ \A p \in Procs : Ended(p))
  /\ UNCHANGED <<at, obs, blob, epoch, derived, calls, modes>>

(* It removes derived tables as well. *)
CleanDerived(c) ==
  /\ derived[c] # None /\ Mishap /\ derived' = [derived EXCEPT ![c] = None]
  /\ UNCHANGED <<at, payload, manifest, obs, blob, epoch, call, calls, serial, modes>>

(* clear_tables empties the database. *)
Clear ==
  /\ Mishap /\ obs' = [u \in Uris |-> None] /\ blob' = [c \in Contents |-> None]
  /\ epoch' = epoch + 1 /\ serial' = (serial /\ \A p \in Procs : Ended(p))
  /\ UNCHANGED <<at, payload, manifest, derived, call, calls, modes>>

Next ==
  \/ Clear \/ \E c \in Contents : CleanDerived(c)
  \/ \E u \in Uris : Publish(u) \/ Clean(u)
  \/ \E p \in Procs :
       \/ \E u \in Uris, mode \in Modes : Begin(p, u, mode)
       \/ Reuse(p) \/ Revalidate(p) \/ Outdated(p) \/ HeadFirst(p) \/ Get(p)
       \/ GetFails(p) \/ Replace(p) \/ Upsert(p) \/ RecordIt(p) \/ Derive(p) \/ Kill(p)
Spec == Init /\ [][Next]_vars

(* ------------------------------------------------------------- properties *)
(* The server does not come back to a content it has replaced. *)
NeverReturns ==
  \A u \in Uris : \A i, j \in 1 .. Len(Script[u]) : Script[u][i] = Script[u][j] => i = j

(* A call that reached the server reports a hash the server has served since
   the call began: whatever other processes, kills and cleanings have done to
   the records, a record is never taken for newer than it is. *)
ReachedAnswerIsCurrent ==
  \A p \in Procs : At(p, "answered") /\ call[p].reached =>
    \E i \in call[p].from .. at[call[p].uri] : Script[call[p].uri][i] = call[p].hash

(* While calls do not overlap and none is killed, and as long as one of the two
   modes alone has downloaded a URI, an answer with that URI's own file has
   the hash of what the file holds; and while none but the manifest mode has
   downloaded anything, the table derived under a hash is computed from the
   content that has this hash. *)
HashNamesContent ==
  serial =>
    /\ \A p \in Procs :
         /\ At(p, "answered") /\ call[p].file = call[p].uri /\ modes[call[p].uri] \in {{"db"}, {"manifest"}}
         => call[p].holds = call[p].hash
    /\ (\A u \in Uris : modes[u] \in {{}, {"manifest"}})
         => \A c \in Contents : derived[c] \in {None, c}
==============================================================================
