------------------------------- MODULE MCAssets -------------------------------
(* Two caches of remote files, each in a behaviour of its own: two processes
   that keep a copy of an asset whose cache others refresh, and two that download two
   URIs, with the database and without. The URIs serve the same content at first,
   and then one of their own. *)
EXTENDS CopiedAsset, Sequences, TLC

CONSTANTS Clients, Uris, Contents, Script, u1, u2, x1, x2, x3, MaxCalls, MaxMishaps,
  ShortTime  \* bound: the clock while calls overlap

VARIABLES part, at, payload, manifest, obs, blob, epoch, derived, request, calls, mishaps,
          serial, modes
dbVars == <<at, payload, manifest, obs, blob, epoch, derived, request, calls, mishaps,
            serial, modes>>

MCScript == (u1 :> <<x1, x2>>) @@ (u2 :> <<x1, x3>>)
D == INSTANCE AssetDb WITH Procs <- Clients, call <- request

ASSUME ScriptsOK ==
  /\ None \notin Uris \union Contents
  /\ \A u \in Uris : Script[u] \in Seq(Contents) /\ Script[u] # <<>>
ASSUME ServersGoOn == D!NeverReturns

(* The calls of the two processes overlap, but not with another user's refresh, while the
   clock is short; and they go on for the whole clock one after the other, refreshes of
   others among them. *)
Overlapping == Next /\ now' <= ShortTime /\ "refresh" \notin meddled'
OneByOne == Next /\ "overlap" \notin meddled'

MCInit == part \in {"overlap", "serial", "db"} /\ Init /\ D!Init
MCNext ==
  /\ UNCHANGED part
  /\ \/ part = "overlap" /\ Overlapping /\ UNCHANGED dbVars
     \/ part = "serial" /\ OneByOne /\ UNCHANGED dbVars
     \/ part = "db" /\ D!Next /\ UNCHANGED vars
MCSpec == MCInit /\ [][MCNext]_<<part, vars, dbVars>>

(* The two clients are alike, and so are the inodes. *)
Symmetry == Permutations(Clients) \union Permutations(Inodes)

(* The properties of AssetDb. *)
ReachedAnswerIsCurrent == D!ReachedAnswerIsCurrent
HashNamesContent == D!HashNamesContent
===============================================================================
