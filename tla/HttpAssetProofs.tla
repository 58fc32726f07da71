----------------------------- MODULE HttpAssetProofs -----------------------------
(***************************************************************************)
(* Theorems about HttpAsset, for any number of processes, versions and     *)
(* metadata fields, any clock and any mishaps.                             *)
(***************************************************************************)
EXTENDS HttpAsset, TLAPS

InCall(p) == pc[p] \notin {"idle", "done"}
Fetching == {"stream", "replace", "publish"}

(* What materialize holds in its local variables where it uses them.       *)
LocalsHeld ==
  \A p \in Procs :
    /\ pc[p] \in {"revalidate", "refresh"} => seen[p] # None
    /\ pc[p] = "publish" => got[p] # None

IInv == TypeOK /\ LocalsHeld

LEMMA InitIInv == Init => IInv
  BY ConstantsOK DEF Init, IInv, TypeOK, LocalsHeld, Contents, NoMeta, FieldValues, Never,
     Unknown

(* Refreshing a manifest's metadata gives metadata.                        *)
LEMMA RefreshedType ==
  ASSUME NEW known \in [Fields -> FieldValues], NEW fetched \in [Fields -> FieldValues]
  PROVE  Refreshed(known, fetched) \in [Fields -> FieldValues]
  BY DEF Refreshed

(* So does asking the server.                                              *)
LEMMA FieldOfType ==
  ASSUME NEW k \in Kinds, NEW v \in Versions
  PROVE  FieldOf[k][v] \in [Fields -> FieldValues]
<1>1. FieldOf[k][v] = [f \in Fields |-> FieldOf[k][v][f]]
  BY ConstantsOK
<1>2. \A f \in Fields : FieldOf[k][v][f] \in FieldValues
  BY DEF FieldValues
<1> QED BY <1>1, <1>2

LEMMA ReceivedType ==
  ASSUME TypeOK, NEW p \in Procs, got[p] # None
  PROVE  Received(p) \in Manifests
<1>1. got[p] \in Contents /\ meta[p] \in [Fields -> FieldValues]
  BY DEF TypeOK
<1>2. SizeOf[got[p]] \in FieldValues
  BY <1>1, ConstantsOK DEF FieldValues
<1>3. [meta[p] EXCEPT ![Length] = IF @ # Absent THEN @ ELSE SizeOf[got[p]]]
         \in [Fields -> FieldValues]
  BY <1>1, <1>2, ConstantsOK
<1> QED BY <1>1, <1>3 DEF Received, Manifests, TypeOK

LEMMA RefreshType ==
  ASSUME TypeOK, NEW p \in Procs, seen[p] # None
  PROVE  [seen[p] EXCEPT !.meta = Refreshed(@, meta[p]), !.of = metaOf[p],
                         !.guessed = @ \/ seen[p].of = Unknown, !.checked = now]
            \in Manifests
<1>1. seen[p] \in Manifests /\ meta[p] \in [Fields -> FieldValues]
  BY DEF TypeOK
<1>2. Refreshed(seen[p].meta, meta[p]) \in [Fields -> FieldValues]
  BY <1>1, RefreshedType DEF Manifests
<1>3. (seen[p].guessed \/ seen[p].of = Unknown) \in BOOLEAN
  OBVIOUS
<1> QED BY <1>1, <1>2, <1>3 DEF Manifests, TypeOK

LEMMA MishapType ==
  ASSUME TypeOK, NEW m \in Mishaps, Mishap(m)
  PROVE  mishaps' \subseteq Mishaps \cup {"overlap"}
  BY DEF TypeOK, Mishap

(* The values that materialize leaves in its place when it returns.        *)
LEMMA NoMetaType == NoMeta \in [Fields -> FieldValues]
  BY DEF NoMeta, FieldValues

LEMMA ReturnType ==
  ASSUME IInv, NEW p \in Procs, NEW result \in Contents \cup {None, Failed}, Return(p, result),
         UNCHANGED <<remote, superseded, now, payload, start>>,
         blind' \in [Procs -> BOOLEAN], manifest' \in Manifests \cup {None},
         mishaps' \subseteq Mishaps \cup {"overlap"}
  PROVE  IInv'
  BY NoMetaType DEF IInv, TypeOK, LocalsHeld, Return, Go, Unknown

LEMMA ReturnSteps ==
  ASSUME IInv, NEW p \in Procs,
         \/ ReuseCached(p) \/ RevalidateFails(p) \/ Refresh(p) \/ FetchFails(p)
         \/ WriteManifest(p) \/ Die(p)
  PROVE  IInv'
<1> USE DEF files, server, history
<1>1. seen[p] # None => seen[p].content \in Contents
  BY DEF IInv, TypeOK, Manifests
<1>2. blind \in [Procs -> BOOLEAN] /\ manifest \in Manifests \cup {None}
         /\ mishaps \subseteq Mishaps \cup {"overlap"}
  BY DEF IInv, TypeOK
<1>3. CASE ReuseCached(p)
  <2>1. seen[p] # None
    BY <1>3 DEF ReuseCached, Cached
  <2>2. blind' \in [Procs -> BOOLEAN]
    <3>1. Mistaken(seen[p]) \in BOOLEAN
      BY SMT DEF Mistaken
    <3> QED BY <1>2, <1>3, <3>1, Zenon DEF ReuseCached
  <2> QED BY <1>1, <1>2, <1>3, <2>1, <2>2, ReturnType DEF ReuseCached
<1>4. CASE RevalidateFails(p)
  <2>1. seen[p] # None
    BY <1>4 DEF RevalidateFails, IInv, LocalsHeld
  <2>2. blind' \in [Procs -> BOOLEAN]
    BY <1>2, <1>4, Zenon DEF RevalidateFails
  <2> QED BY <1>1, <1>2, <1>4, <2>1, <2>2, ReturnType DEF RevalidateFails
<1>5. CASE Refresh(p)
  <2>1. seen[p] # None
    BY <1>5 DEF Refresh, IInv, LocalsHeld
  <2>2. manifest' \in Manifests
    BY <1>5, <2>1, RefreshType DEF Refresh, IInv
  <2>3. blind' \in [Procs -> BOOLEAN]
    <3>1. Mistaken(manifest') \in BOOLEAN
      BY SMT DEF Mistaken
    <3> QED BY <1>2, <1>5, <3>1, Zenon DEF Refresh
  <2> QED BY <1>1, <1>2, <1>5, <2>1, <2>2, <2>3, ReturnType DEF Refresh
<1>6. CASE FetchFails(p)
  BY <1>2, <1>6, ReturnType DEF FetchFails
<1>7. CASE WriteManifest(p)
  <2>1. got[p] # None /\ got[p] \in Contents
    BY <1>7 DEF WriteManifest, IInv, LocalsHeld, TypeOK
  <2>2. manifest' \in Manifests
    BY <1>7, <2>1, ReceivedType DEF WriteManifest, IInv
  <2> QED BY <1>2, <1>7, <2>1, <2>2, ReturnType DEF WriteManifest
<1>8. CASE Die(p)
  <2>1. mishaps' \subseteq Mishaps \cup {"overlap"}
    BY <1>8, MishapType DEF Die, IInv, Mishaps
  <2> QED BY <1>2, <1>8, <2>1, ReturnType DEF Die
<1> QED BY <1>3, <1>4, <1>5, <1>6, <1>7, <1>8

LEMMA NextIInv == IInv /\ [Next]_vars => IInv'
<1> SUFFICES ASSUME IInv, [Next]_vars PROVE IInv' OBVIOUS
<1> USE DEF IInv, LocalsHeld, TypeOK, files, server, call, Go
<1>1. CASE Publish
  BY <1>1, ConstantsOK DEF Publish
<1>2. CASE Tick
  BY <1>2 DEF Tick
<1>3. ASSUME NEW p \in Procs, Call(p) PROVE IInv'
  BY <1>3 DEF Call
<1>4. ASSUME NEW p \in Procs, Leave(p) PROVE IInv'
  <2>1. blind' \in [Procs -> BOOLEAN]
    BY <1>4, Zenon DEF Leave
  <2> QED BY <1>4, <2>1 DEF Leave
<1>5. ASSUME NEW p \in Procs, DecideRevalidate(p) \/ DecideDownload(p) PROVE IInv'
  BY <1>5 DEF DecideRevalidate, DecideDownload, Cached
<1>6. ASSUME NEW p \in Procs, NEW k \in Kinds, Revalidate(p, k) PROVE IInv'
  BY <1>6, FieldOfType DEF Revalidate
<1>7. ASSUME NEW p \in Procs, NEW k \in Kinds, Head(p, k) PROVE IInv'
  BY <1>7, FieldOfType DEF Head
<1>8. ASSUME NEW p \in Procs, HeadFails(p) PROVE IInv'
  BY <1>8, NoMetaType DEF HeadFails, Unknown
<1>9. ASSUME NEW p \in Procs, Get(p) PROVE IInv'
  <2>1. <<remote, FALSE>> \in Contents
    BY DEF Contents
  <2> QED BY <1>9, <2>1 DEF Get
<1>10. ASSUME NEW p \in Procs, StreamEnds(p) PROVE IInv'
  <2>1. got[p] # None => <<got[p][1], TRUE>> \in Contents
    BY DEF Contents
  <2> QED BY <1>10, <2>1 DEF StreamEnds
<1>11. ASSUME NEW p \in Procs, StreamCut(p) \/ Replace(p) PROVE IInv'
  <2>1. mishaps' \subseteq Mishaps \cup {"overlap"}
    BY <1>11, MishapType DEF StreamCut, Replace, Mishaps
  <2> QED BY <1>11, <2>1 DEF StreamCut, Replace
<1>12. ASSUME NEW a \in BOOLEAN, NEW b \in BOOLEAN, NEW t \in SUBSET Procs, Clean(a, b, t)
       PROVE  IInv'
  <2>1. mishaps' \subseteq Mishaps \cup {"overlap"}
    BY <1>12, MishapType DEF Clean, Mishaps
  <2> QED BY <1>12, <2>1 DEF Clean
<1>13. CASE UNCHANGED vars
  BY <1>13 DEF vars
<1> QED BY <1>1, <1>2, <1>3, <1>4, <1>5, <1>6, <1>7, <1>8, <1>9, <1>10, <1>11, <1>12, <1>13,
           ReturnSteps DEF Next, Step

(* The cache keeps its types, and materialize has a manifest to refresh and *)
(* a body to record whenever it gets there.                                *)
THEOREM Invariance == Spec => []IInv
  BY InitIInv, NextIInv, PTL DEF Spec
--------------------------------------------------------------------------------
(* The manifest and the payload.  Without overlap at most one process is   *)
(* inside materialize, and it knows the payload by its own variables:      *)
(* before the download by the manifest it loaded, and between the two      *)
(* writes by the body it received.                                         *)
OneInCall ==
  "overlap" \notin mishaps => \A p, q \in Procs : InCall(p) /\ InCall(q) => p = q

NoClash == "overlap" \notin mishaps /\ "kill" \notin mishaps

OwnPayload ==
  NoClash /\ payload # None =>
    \A p \in Procs :
      /\ pc[p] \in {"decide", "revalidate", "refresh"} /\ seen[p] # None =>
           payload = seen[p].content
      /\ pc[p] = "publish" => payload = got[p]

FilesMatch ==
  NoClash /\ (\A p \in Procs : pc[p] # "publish") /\ manifest # None /\ payload # None =>
    payload = manifest.content

WholeBodies ==
  "cut" \notin mishaps =>
    /\ payload # None => payload[2] = TRUE
    /\ \A p \in Procs : pc[p] \in {"replace", "publish"} /\ got[p] # None => got[p][2] = TRUE

SerialInv == OneInCall /\ OwnPayload /\ FilesMatch /\ WholeBodies

LEMMA InitSerialInv == Init => SerialInv
  BY DEF Init, SerialInv, OneInCall, OwnPayload, FilesMatch, WholeBodies, InCall

(* What the manifests that materialize writes say.                         *)
LEMMA RefreshedManifest ==
  ASSUME IInv, NEW p \in Procs, Refresh(p)
  PROVE  /\ seen[p] \in Manifests /\ manifest' \in Manifests
         /\ manifest'.content = seen[p].content
         /\ manifest'.of = metaOf[p] /\ manifest'.checked = now
         /\ manifest'.meta = Refreshed(seen[p].meta, meta[p])
         /\ seen[p].guessed \/ seen[p].of = Unknown => manifest'.guessed
<1>1. seen[p] # None /\ seen[p] \in Manifests
  BY DEF IInv, LocalsHeld, TypeOK, Refresh
<1>2. seen[p] = [meta |-> seen[p].meta, of |-> seen[p].of, guessed |-> seen[p].guessed,
                 content |-> seen[p].content, checked |-> seen[p].checked]
  BY <1>1 DEF Manifests
<1>3. manifest' = [meta |-> Refreshed(seen[p].meta, meta[p]), of |-> metaOf[p],
                   guessed |-> seen[p].guessed \/ seen[p].of = Unknown,
                   content |-> seen[p].content, checked |-> now]
  BY <1>1, <1>2 DEF Refresh, Manifests
<1>4. manifest' \in Manifests
  BY <1>1, RefreshType DEF Refresh, IInv
<1> QED BY <1>1, <1>3, <1>4

LEMMA ReceivedManifest ==
  ASSUME IInv, NEW p \in Procs, WriteManifest(p)
  PROVE  /\ got[p] \in Contents /\ manifest' \in Manifests
         /\ manifest'.content = got[p]
         /\ manifest'.of = metaOf[p] /\ manifest'.checked = now
         /\ manifest'.meta[Length] = IF meta[p][Length] # Absent THEN meta[p][Length]
                                     ELSE SizeOf[got[p]]
         /\ \A f \in Fields \ {Length} : manifest'.meta[f] = meta[p][f]
<1>1. got[p] # None /\ got[p] \in Contents /\ meta[p] \in [Fields -> FieldValues]
  BY DEF IInv, LocalsHeld, TypeOK, WriteManifest
<1>2. manifest' \in Manifests
  BY <1>1, ReceivedType DEF WriteManifest, IInv
<1> QED BY <1>1, <1>2, ConstantsOK DEF WriteManifest, Received

(* Mishaps are never forgotten.                                            *)
LEMMA MishapsGrow == [Next]_vars => mishaps \subseteq mishaps'
  BY DEF Next, Step, vars, Publish, Tick, Call, Leave, ReuseCached, DecideRevalidate,
     DecideDownload, RevalidateFails, Refresh, HeadFails, Get, StreamEnds, StreamCut,
     FetchFails, Replace, WriteManifest, Revalidate, Head, Die, Clean, Mishap

LEMMA OneInCallSteps == IInv /\ OneInCall /\ [Next]_vars => OneInCall'
<1> SUFFICES ASSUME IInv, OneInCall, [Next]_vars, "overlap" \notin mishaps' PROVE OneInCall'
  BY DEF OneInCall
<1>1. \A p, q \in Procs : InCall(p) /\ InCall(q) => p = q
  BY MishapsGrow DEF OneInCall
<1> USE <1>1 DEF IInv, TypeOK, OneInCall, InCall, Go, Return
<1>2. ASSUME NEW p \in Procs, Call(p) PROVE OneInCall'
  BY <1>2 DEF Call, AtRest
<1>3. ASSUME NEW p \in Procs,
             \/ Leave(p) \/ ReuseCached(p) \/ RevalidateFails(p) \/ Refresh(p)
             \/ FetchFails(p) \/ WriteManifest(p) \/ Die(p)
      PROVE  OneInCall'
  <2>1. CASE Leave(p)
    BY <2>1 DEF Leave
  <2>2. CASE ReuseCached(p)
    BY <2>2 DEF ReuseCached
  <2>3. CASE RevalidateFails(p)
    BY <2>3 DEF RevalidateFails
  <2>4. CASE Refresh(p)
    BY <2>4 DEF Refresh
  <2>5. CASE FetchFails(p)
    BY <2>5 DEF FetchFails
  <2>6. CASE WriteManifest(p)
    BY <2>6 DEF WriteManifest
  <2>7. CASE Die(p)
    BY <2>7 DEF Die
  <2> QED BY <1>3, <2>1, <2>2, <2>3, <2>4, <2>5, <2>6, <2>7
<1>4. ASSUME NEW p \in Procs,
             \/ DecideRevalidate(p) \/ DecideDownload(p) \/ HeadFails(p) \/ Get(p)
             \/ StreamEnds(p) \/ StreamCut(p) \/ Replace(p)
      PROVE  OneInCall'
  <2>1. CASE DecideRevalidate(p)
    BY <2>1 DEF DecideRevalidate
  <2>2. CASE DecideDownload(p)
    BY <2>2 DEF DecideDownload
  <2>3. CASE HeadFails(p)
    BY <2>3 DEF HeadFails
  <2>4. CASE Get(p)
    BY <2>4 DEF Get
  <2>5. CASE StreamEnds(p)
    BY <2>5 DEF StreamEnds
  <2>6. CASE StreamCut(p)
    BY <2>6 DEF StreamCut
  <2>7. CASE Replace(p)
    BY <2>7 DEF Replace
  <2> QED BY <1>4, <2>1, <2>2, <2>3, <2>4, <2>5, <2>6, <2>7
<1>5. ASSUME NEW p \in Procs, NEW k \in Kinds, Revalidate(p, k) \/ Head(p, k)
      PROVE  OneInCall'
  BY <1>5 DEF Revalidate, Head
<1>6. CASE UNCHANGED pc
  BY <1>6
<1>7. Publish \/ Tick \/ UNCHANGED vars => UNCHANGED pc
  BY DEF Publish, Tick, vars
<1>8. \A a, b \in BOOLEAN, t \in SUBSET Procs : Clean(a, b, t) => UNCHANGED pc
  BY DEF Clean
<1> QED BY <1>2, <1>3, <1>4, <1>5, <1>6, <1>7, <1>8 DEF Next, Step
(* The two writes of a download, and the one of a refresh, are the steps   *)
(* that can part the payload from its manifest.                            *)
LEMMA FilesSteps ==
  IInv /\ OneInCall /\ OwnPayload /\ FilesMatch /\ [Next]_vars => OwnPayload' /\ FilesMatch'
<1> SUFFICES ASSUME IInv, OneInCall, OwnPayload, FilesMatch, [Next]_vars, NoClash'
             PROVE  OwnPayload' /\ FilesMatch'
  BY DEF OwnPayload, FilesMatch
<1>1. NoClash
  BY MishapsGrow DEF NoClash
<1>2. \A p, q \in Procs : InCall(p) /\ InCall(q) => p = q
  BY <1>1 DEF OneInCall, NoClash
<1> USE <1>1, <1>2 DEF IInv, TypeOK, OwnPayload, FilesMatch, InCall, Go, files, server, call
<1>3. ASSUME NEW p \in Procs, Call(p) PROVE OwnPayload' /\ FilesMatch'
  <2>1. \A q \in Procs : ~InCall(q)
    BY <1>3, OneInCallSteps DEF Call, OneInCall, NoClash
  <2> QED BY <1>3, <2>1 DEF Call
<1>4. ASSUME NEW p \in Procs,
             \/ Leave(p) \/ ReuseCached(p) \/ RevalidateFails(p) \/ FetchFails(p)
      PROVE  OwnPayload' /\ FilesMatch'
  <2>1. CASE Leave(p)
    BY <2>1 DEF Leave
  <2>2. CASE ReuseCached(p)
    BY <2>2 DEF ReuseCached, Return
  <2>3. CASE RevalidateFails(p) \/ FetchFails(p)
    BY <2>3 DEF RevalidateFails, FetchFails, Return
  <2> QED BY <1>4, <2>1, <2>2, <2>3
<1>5. ASSUME NEW p \in Procs, Refresh(p) PROVE OwnPayload' /\ FilesMatch'
  <2>1. manifest'.content = seen[p].content /\ seen[p] # None
    BY <1>5, RefreshedManifest DEF Refresh, LocalsHeld
  <2> QED BY <1>5, <2>1 DEF Refresh, Return
<1>6. ASSUME NEW p \in Procs, WriteManifest(p) PROVE OwnPayload' /\ FilesMatch'
  <2>1. manifest'.content = got[p]
    BY <1>6, ReceivedManifest
  <2> QED BY <1>6, <2>1 DEF WriteManifest, Return
<1>7. ASSUME NEW p \in Procs,
             \/ DecideRevalidate(p) \/ DecideDownload(p) \/ HeadFails(p) \/ Get(p)
             \/ StreamEnds(p) \/ StreamCut(p)
      PROVE  OwnPayload' /\ FilesMatch'
  <2>1. CASE DecideRevalidate(p)
    BY <2>1 DEF DecideRevalidate
  <2>2. CASE DecideDownload(p)
    BY <2>2 DEF DecideDownload
  <2>3. CASE HeadFails(p)
    BY <2>3 DEF HeadFails
  <2>4. CASE Get(p)
    BY <2>4 DEF Get
  <2>5. CASE StreamEnds(p)
    BY <2>5 DEF StreamEnds
  <2>6. CASE StreamCut(p)
    BY <2>6 DEF StreamCut
  <2> QED BY <1>7, <2>1, <2>2, <2>3, <2>4, <2>5, <2>6
<1>8. ASSUME NEW p \in Procs, Replace(p) PROVE OwnPayload' /\ FilesMatch'
  BY <1>8 DEF Replace
<1>9. ASSUME NEW p \in Procs, NEW k \in Kinds, Revalidate(p, k) \/ Head(p, k)
      PROVE  OwnPayload' /\ FilesMatch'
  BY <1>9 DEF Revalidate, Head
<1>10. ASSUME NEW p \in Procs, Die(p) PROVE FALSE
  BY <1>10 DEF Die, Mishap, NoClash
<1>11. ASSUME NEW a \in BOOLEAN, NEW b \in BOOLEAN, NEW t \in SUBSET Procs, Clean(a, b, t)
       PROVE  OwnPayload' /\ FilesMatch'
  BY <1>11 DEF Clean
<1>12. CASE Publish \/ Tick \/ UNCHANGED vars
  BY <1>12 DEF Publish, Tick, vars
<1> QED BY <1>3, <1>4, <1>5, <1>6, <1>7, <1>8, <1>9, <1>10, <1>11, <1>12 DEF Next, Step

(* A body is complete when it takes its name, unless it was cut.           *)
LEMMA WholeBodiesSteps == IInv /\ WholeBodies /\ [Next]_vars => WholeBodies'
<1> SUFFICES ASSUME IInv, WholeBodies, [Next]_vars, "cut" \notin mishaps' PROVE WholeBodies'
  BY DEF WholeBodies
<1>1. "cut" \notin mishaps
  BY MishapsGrow
<1> USE <1>1 DEF IInv, TypeOK, WholeBodies, Go, files, server, call
<1>2. ASSUME NEW p \in Procs,
             \/ Leave(p) \/ ReuseCached(p) \/ RevalidateFails(p) \/ Refresh(p)
             \/ FetchFails(p) \/ WriteManifest(p) \/ Die(p)
      PROVE  WholeBodies'
  BY <1>2 DEF Leave, ReuseCached, RevalidateFails, Refresh, FetchFails, WriteManifest, Die, Return
<1>3. ASSUME NEW p \in Procs,
             \/ Call(p) \/ DecideRevalidate(p) \/ DecideDownload(p) \/ HeadFails(p)
             \/ Get(p) \/ Replace(p)
      PROVE  WholeBodies'
  <2>1. CASE Call(p)
    BY <2>1 DEF Call
  <2>2. CASE DecideRevalidate(p)
    BY <2>2 DEF DecideRevalidate
  <2>3. CASE DecideDownload(p)
    BY <2>3 DEF DecideDownload
  <2>4. CASE HeadFails(p)
    BY <2>4 DEF HeadFails
  <2>5. CASE Get(p)
    BY <2>5 DEF Get
  <2>6. CASE Replace(p)
    BY <2>6 DEF Replace
  <2> QED BY <1>3, <2>1, <2>2, <2>3, <2>4, <2>5, <2>6
<1>4. ASSUME NEW p \in Procs, StreamEnds(p) PROVE WholeBodies'
  BY <1>4 DEF StreamEnds
<1>5. ASSUME NEW p \in Procs, StreamCut(p) PROVE FALSE
  BY <1>5 DEF StreamCut, Mishap
<1>6. ASSUME NEW p \in Procs, NEW k \in Kinds, Revalidate(p, k) \/ Head(p, k)
      PROVE  WholeBodies'
  BY <1>6 DEF Revalidate, Head
<1>7. ASSUME NEW a \in BOOLEAN, NEW b \in BOOLEAN, NEW t \in SUBSET Procs, Clean(a, b, t)
      PROVE  WholeBodies'
  BY <1>7 DEF Clean
<1>8. CASE Publish \/ Tick \/ UNCHANGED vars
  BY <1>8 DEF Publish, Tick, vars
<1> QED BY <1>2, <1>3, <1>4, <1>5, <1>6, <1>7, <1>8 DEF Next, Step

LEMMA NextSerialInv == IInv /\ SerialInv /\ [Next]_vars => SerialInv'
  BY OneInCallSteps, FilesSteps, WholeBodiesSteps DEF SerialInv

(* Without overlap and deaths the manifest names the payload beside it, and *)
(* no reader of the payload ever meets half a file, unless a body was cut. *)
THEOREM ManifestNamesPayload == Spec => []SerialManifestMatches
<1>1. IInv /\ SerialInv => SerialManifestMatches
  <2> SUFFICES ASSUME IInv, SerialInv PROVE SerialManifestMatches OBVIOUS
  <2>1. AtRest => \A p \in Procs : pc[p] # "publish"
    BY DEF AtRest
  <2>2. mishaps \cap {"overlap", "kill"} = {} => NoClash
    BY DEF NoClash
  <2>3. payload # None /\ "cut" \notin mishaps => payload[2]
    BY DEF SerialInv, WholeBodies
  <2> QED BY <2>1, <2>2, <2>3 DEF SerialInv, FilesMatch, SerialManifestMatches,
             SettledManifestMatches
<1> QED BY <1>1, InitSerialInv, NextSerialInv, Invariance, PTL DEF Spec, IInv
--------------------------------------------------------------------------------
(* Nothing is recorded of a version that is yet to come, and metadata is   *)
(* never fetched after the body it goes with.                              *)
MetaTraced ==
  \A p \in Procs : pc[p] \in {"refresh", "get"} \cup Fetching =>
    /\ metaOf[p] <= remote
    /\ metaOf[p] = Unknown => pc[p] # "refresh" /\ meta[p] = NoMeta
    /\ metaOf[p] # Unknown => \E k \in Kinds : meta[p] = FieldOf[k][metaOf[p]]

BodyTraced ==
  \A p \in Procs : pc[p] \in Fetching /\ got[p] # None =>
    metaOf[p] <= got[p][1] /\ got[p][1] <= remote

NothingFromTheFuture ==
  /\ manifest # None => manifest.content[1] <= remote
  /\ \A p \in Procs : seen[p] # None => seen[p].content[1] <= remote

PastInv == MetaTraced /\ BodyTraced /\ NothingFromTheFuture

LEMMA InitPastInv == Init => PastInv
  BY DEF Init, PastInv, NothingFromTheFuture, MetaTraced, BodyTraced, Fetching

(* Contents and the versions that metadata describes are whole numbers.    *)
LEMMA VersionsAreNumbers ==
  ASSUME IInv
  PROVE  /\ remote \in Nat /\ Versions \subseteq Nat
         /\ \A p \in Procs : metaOf[p] \in Int
         /\ \A p \in Procs : got[p] # None => got[p][1] \in Versions
         /\ \A m \in Manifests : m.content[1] \in Versions /\ m.of \in Int
<1>1. Versions \subseteq Nat
  BY ConstantsOK
<1>2. \A c \in Contents : c[1] \in Versions
  BY DEF Contents
<1>3. \A v \in Versions \cup {Unknown} : v \in Int
  BY <1>1 DEF Unknown
<1>4. \A m \in Manifests : m.content \in Contents /\ m.of \in Versions \cup {Unknown}
  BY DEF Manifests
<1>5. remote \in Versions /\ metaOf \in [Procs -> Versions \cup {Unknown}]
        /\ got \in [Procs -> Contents \cup {None}]
  BY DEF IInv, TypeOK
<1> QED BY <1>1, <1>2, <1>3, <1>4, <1>5

LEMMA MetaTracedSteps == IInv /\ MetaTraced /\ [Next]_vars => MetaTraced'
<1> SUFFICES ASSUME IInv, MetaTraced, [Next]_vars PROVE MetaTraced'
  OBVIOUS
<1>1. remote \in Nat /\ remote \in Versions /\ \A p \in Procs : metaOf[p] \in Int
  BY VersionsAreNumbers DEF IInv, TypeOK
<1> USE <1>1 DEF IInv, TypeOK, MetaTraced, Fetching, Go, files, server, call
<1>2. CASE Publish
  BY <1>2 DEF Publish
<1>3. CASE Tick \/ UNCHANGED vars
  BY <1>3 DEF Tick, vars
<1>4. ASSUME NEW p \in Procs, Call(p) \/ Leave(p) PROVE MetaTraced'
  <2>1. CASE Call(p)
    BY <2>1 DEF Call
  <2>2. CASE Leave(p)
    BY <2>2 DEF Leave
  <2> QED BY <1>4, <2>1, <2>2
<1>5. ASSUME NEW p \in Procs,
             \/ ReuseCached(p) \/ RevalidateFails(p) \/ Refresh(p) \/ FetchFails(p)
             \/ WriteManifest(p) \/ Die(p)
      PROVE  MetaTraced'
  <2>1. CASE ReuseCached(p)
    BY <2>1 DEF ReuseCached, Return
  <2>2. CASE RevalidateFails(p)
    BY <2>2 DEF RevalidateFails, Return
  <2>3. CASE Refresh(p)
    BY <2>3 DEF Refresh, Return
  <2>4. CASE FetchFails(p)
    BY <2>4 DEF FetchFails, Return
  <2>5. CASE WriteManifest(p)
    BY <2>5 DEF WriteManifest, Return
  <2>6. CASE Die(p)
    BY <2>6 DEF Die, Return
  <2> QED BY <1>5, <2>1, <2>2, <2>3, <2>4, <2>5, <2>6
<1>6. ASSUME NEW p \in Procs, HeadFails(p) PROVE MetaTraced'
  BY <1>6 DEF HeadFails, Unknown
<1>7. ASSUME NEW p \in Procs, NEW k \in Kinds, Revalidate(p, k) PROVE MetaTraced'
  <2>1. metaOf'[p] = remote /\ meta'[p] = FieldOf[k][remote] /\ remote # Unknown
    BY <1>7 DEF Revalidate, Unknown
  <2>2. \A q \in Procs \ {p} : metaOf'[q] = metaOf[q] /\ meta'[q] = meta[q] /\ pc'[q] = pc[q]
    BY <1>7 DEF Revalidate
  <2>3. remote' = remote
    BY <1>7 DEF Revalidate
  <2> QED BY <2>1, <2>2, <2>3
<1>8. ASSUME NEW p \in Procs, NEW k \in Kinds, Head(p, k) PROVE MetaTraced'
  <2>1. metaOf'[p] = remote /\ meta'[p] = FieldOf[k][remote] /\ remote # Unknown
    BY <1>8 DEF Head, Unknown
  <2>2. \A q \in Procs \ {p} : metaOf'[q] = metaOf[q] /\ meta'[q] = meta[q] /\ pc'[q] = pc[q]
    BY <1>8 DEF Head
  <2>3. remote' = remote
    BY <1>8 DEF Head
  <2> QED BY <2>1, <2>2, <2>3
<1>9. ASSUME NEW p \in Procs,
             \/ DecideRevalidate(p) \/ DecideDownload(p) \/ Get(p) \/ StreamEnds(p)
             \/ StreamCut(p) \/ Replace(p)
      PROVE  MetaTraced'
  <2>1. CASE DecideRevalidate(p) \/ DecideDownload(p)
    BY <2>1 DEF DecideRevalidate, DecideDownload
  <2>2. CASE Get(p)
    BY <2>2 DEF Get
  <2>3. CASE StreamEnds(p) \/ StreamCut(p)
    <3>1. CASE StreamEnds(p)
      BY <3>1 DEF StreamEnds
    <3>2. CASE StreamCut(p)
      BY <3>2 DEF StreamCut
    <3> QED BY <2>3, <3>1, <3>2
  <2>4. CASE Replace(p)
    BY <2>4 DEF Replace
  <2> QED BY <1>9, <2>1, <2>2, <2>3, <2>4
<1>10. ASSUME NEW a \in BOOLEAN, NEW b \in BOOLEAN, NEW t \in SUBSET Procs, Clean(a, b, t)
       PROVE  MetaTraced'
  BY <1>10 DEF Clean
<1> QED BY <1>2, <1>3, <1>4, <1>5, <1>6, <1>7, <1>8, <1>9, <1>10 DEF Next, Step

LEMMA BodyTracedSteps == IInv /\ PastInv /\ [Next]_vars => BodyTraced'
<1> SUFFICES ASSUME IInv, PastInv, [Next]_vars PROVE BodyTraced'
  OBVIOUS
<1>1. /\ remote \in Nat /\ \A p \in Procs : metaOf[p] \in Int
      /\ \A p \in Procs : got[p] # None => got[p][1] \in Nat
  BY VersionsAreNumbers
<1>2. /\ pc \in [Procs -> {"idle", "done", "decide", "revalidate", "refresh", "head",
                           "get", "stream", "replace", "publish"}]
      /\ metaOf \in [Procs -> Versions \cup {Unknown}]
      /\ got \in [Procs -> Contents \cup {None}]
  BY DEF IInv, TypeOK
<1>3. BodyTraced
  BY DEF PastInv
<1> USE <1>1, <1>2, <1>3 DEF BodyTraced, Fetching, Go, files, server, call
<1>4. CASE Publish \/ Tick \/ UNCHANGED vars
  BY <1>4 DEF Publish, Tick, vars
<1>6. ASSUME NEW p \in Procs, Call(p) \/ Leave(p) PROVE BodyTraced'
  BY <1>6 DEF Call, Leave
<1>7. ASSUME NEW p \in Procs,
             \/ ReuseCached(p) \/ RevalidateFails(p) \/ Refresh(p) \/ FetchFails(p)
             \/ WriteManifest(p) \/ Die(p)
      PROVE  BodyTraced'
  BY <1>7 DEF ReuseCached, RevalidateFails, Refresh, FetchFails, WriteManifest, Die, Return
<1>8. ASSUME NEW p \in Procs, NEW k \in Kinds, Revalidate(p, k) \/ Head(p, k)
      PROVE  BodyTraced'
  BY <1>8 DEF Revalidate, Head
<1>10. ASSUME NEW p \in Procs, Get(p) PROVE BodyTraced'
  <2>1. metaOf[p] <= remote
    BY <1>10 DEF Get, PastInv, MetaTraced
  <2>2. got'[p][1] = remote /\ pc'[p] = "stream"
    BY <1>10 DEF Get
  <2>3. \A q \in Procs \ {p} : got'[q] = got[q] /\ pc'[q] = pc[q]
    BY <1>10 DEF Get
  <2>4. UNCHANGED <<remote, metaOf>>
    BY <1>10 DEF Get
  <2> QED BY <2>1, <2>2, <2>3, <2>4
<1>11. ASSUME NEW p \in Procs,
              \/ DecideRevalidate(p) \/ DecideDownload(p) \/ HeadFails(p) \/ StreamEnds(p)
              \/ StreamCut(p) \/ Replace(p)
       PROVE  BodyTraced'
  <2>1. CASE DecideRevalidate(p) \/ DecideDownload(p) \/ HeadFails(p)
    BY <2>1 DEF DecideRevalidate, DecideDownload, HeadFails
  <2>2. CASE StreamEnds(p)
    <3>1. got[p] = None => got'[p] = None
      BY <2>2 DEF StreamEnds
    <3>2. got[p] # None => got'[p][1] = got[p][1]
      BY <2>2 DEF StreamEnds
    <3>3. \A q \in Procs \ {p} : got'[q] = got[q] /\ pc'[q] = pc[q]
      BY <2>2 DEF StreamEnds
    <3> QED BY <2>2, <3>1, <3>2, <3>3 DEF StreamEnds
  <2>3. CASE StreamCut(p) \/ Replace(p)
    BY <2>3 DEF StreamCut, Replace
  <2> QED BY <1>11, <2>1, <2>2, <2>3
<1>12. ASSUME NEW a \in BOOLEAN, NEW b \in BOOLEAN, NEW t \in SUBSET Procs, Clean(a, b, t)
       PROVE  BodyTraced'
  BY <1>12 DEF Clean
<1> QED BY <1>4, <1>6, <1>7, <1>8, <1>10, <1>11, <1>12 DEF Next, Step

(* The manifests that materialize knows change when it loads one, writes   *)
(* one, or returns.                                                        *)
LEMMA ManifestSteps ==
  ASSUME IInv, [Next]_vars, ~Publish
  PROVE  /\ remote' = remote
         /\ \/ manifest' \in {manifest, None}
            \/ \E p \in Procs : Refresh(p) \/ WriteManifest(p)
         /\ \A q \in Procs : seen'[q] \in {seen[q], None, manifest}
<1>1. seen \in [Procs -> Manifests \cup {None}]
  BY DEF IInv, TypeOK
<1> USE <1>1 DEF files, server, call
<1>2. CASE Tick \/ UNCHANGED vars
  BY <1>2 DEF Tick, vars
<1>3. CASE \E p \in Procs : Call(p) \/ Leave(p) \/ ReuseCached(p) \/ RevalidateFails(p)
                             \/ FetchFails(p) \/ Die(p) \/ Refresh(p) \/ WriteManifest(p)
  BY <1>3 DEF Call, Leave, ReuseCached, RevalidateFails, FetchFails, Die, Refresh, WriteManifest,
     Return
<1>4. CASE \E p \in Procs : DecideRevalidate(p) \/ DecideDownload(p) \/ HeadFails(p) \/ Get(p)
                             \/ StreamEnds(p) \/ StreamCut(p) \/ Replace(p)
  BY <1>4 DEF DecideRevalidate, DecideDownload, HeadFails, Get, StreamEnds, StreamCut, Replace
<1>5. CASE \E p \in Procs, k \in Kinds : Revalidate(p, k) \/ Head(p, k)
  BY <1>5 DEF Revalidate, Head
<1>6. CASE \E a, b \in BOOLEAN, t \in SUBSET Procs : Clean(a, b, t)
  BY <1>6 DEF Clean
<1> QED BY <1>2, <1>3, <1>4, <1>5, <1>6 DEF Next, Step

LEMMA NothingFromTheFutureSteps == IInv /\ PastInv /\ [Next]_vars => NothingFromTheFuture'
<1> SUFFICES ASSUME IInv, PastInv, [Next]_vars PROVE NothingFromTheFuture'
  OBVIOUS
<1>1. \A m \in Manifests : m.content[1] \in Nat
  BY VersionsAreNumbers
<1>2. /\ manifest \in Manifests \cup {None} /\ seen \in [Procs -> Manifests \cup {None}]
      /\ remote \in Nat
  BY VersionsAreNumbers DEF IInv, TypeOK
<1>3. CASE Publish
  BY <1>1, <1>2, <1>3 DEF Publish, files, call, PastInv, NothingFromTheFuture
<1>4. ASSUME NEW p \in Procs, Refresh(p) PROVE manifest'.content[1] <= remote
  BY <1>4, RefreshedManifest, ConstantsOK
     DEF Refresh, IInv, LocalsHeld, PastInv, NothingFromTheFuture
<1>5. ASSUME NEW p \in Procs, WriteManifest(p) PROVE manifest'.content[1] <= remote
  BY <1>5, ReceivedManifest
     DEF WriteManifest, IInv, LocalsHeld, PastInv, BodyTraced, Fetching
<1>6. CASE ~Publish
  BY <1>4, <1>5, <1>6, ManifestSteps DEF PastInv, NothingFromTheFuture
<1> QED BY <1>3, <1>6

LEMMA PastInvariant == Spec => [](IInv /\ PastInv)
<1>1. IInv /\ PastInv /\ [Next]_vars => PastInv'
  BY MetaTracedSteps, BodyTracedSteps, NothingFromTheFutureSteps DEF PastInv
<1> QED BY <1>1, InitIInv, NextIInv, InitPastInv, PTL DEF Spec

(* Where metadata tells versions apart, by one field at least.             *)
Telling == CHOOSE f \in Fields : TellsVersions(f)

LEMMA TellingTells == ASSUME MetadataTellsVersions PROVE Telling \in Fields /\ TellsVersions(Telling)
  BY DEF MetadataTellsVersions, Telling

(* A manifest without metadata says the length of its payload.  One with   *)
(* metadata says the telling field of the version it was fetched from, and *)
(* that version is the payload's or an earlier one, or it was guessed.     *)
Traced(m) ==
  /\ m.of = Unknown => m.meta[Length] = SizeOf[m.content]
                       /\ \A f \in Fields \ {Length} : m.meta[f] = Absent
  /\ m.of # Unknown => \E k \in Kinds : m.meta[Telling] = FieldOf[k][m.of][Telling]
  /\ Mistaken(m) =>
       m.guessed /\ \E k \in Kinds : FieldOf[k][m.of][Length] = SizeOf[m.content]

(* What an unchanged answer agrees with.                                   *)
Agrees(m, fetched, of) ==
  /\ m.of # Unknown => of = m.of
  /\ m.of = Unknown => fetched[Length] = SizeOf[m.content]

TraceInv ==
  /\ manifest # None => Traced(manifest)
  /\ \A p \in Procs : seen[p] # None => Traced(seen[p])
  /\ \A p \in Procs : pc[p] = "refresh" => Agrees(seen[p], meta[p], metaOf[p])

LEMMA InitTraceInv == Init => TraceInv
  BY DEF Init, TraceInv

(* An answer that shows no change is of the version the manifest has its   *)
(* metadata from, or it has the length of the payload.                     *)
LEMMA NoChangeAgrees ==
  ASSUME MetadataTellsVersions, IInv, NEW m \in Manifests, Traced(m), NEW k \in Kinds,
         ~IndicatesChange(m.meta, FieldOf[k][remote])
  PROVE  Agrees(m, FieldOf[k][remote], remote)
<1>1. remote \in Versions /\ m.of \in Versions \cup {Unknown}
  BY DEF IInv, TypeOK, Manifests
<1>2. CASE m.of = Unknown
  <2>1. Comparable(m.meta, FieldOf[k][remote]) \subseteq {Length}
    BY <1>2 DEF Traced, Comparable
  <2>2. Length \in Comparable(m.meta, FieldOf[k][remote])
    BY <2>1 DEF IndicatesChange
  <2>3. m.meta[Length] = FieldOf[k][remote][Length]
    BY <2>2 DEF IndicatesChange
  <2> QED BY <1>2, <2>3 DEF Traced, Agrees
<1>3. CASE m.of # Unknown
  <2>1. PICK kk \in Kinds : m.meta[Telling] = FieldOf[kk][m.of][Telling]
    BY <1>3 DEF Traced
  <2>2. m.meta[Telling] # Absent /\ FieldOf[k][remote][Telling] # Absent
    BY <1>1, <1>3, <2>1, TellingTells DEF TellsVersions
  <2>3. m.meta[Telling] = FieldOf[k][remote][Telling]
    BY <2>2, TellingTells DEF IndicatesChange, Comparable
  <2>4. remote = m.of
    BY <1>1, <1>3, <2>1, <2>3, TellingTells DEF TellsVersions
  <2> QED BY <1>3, <2>4 DEF Agrees
<1> QED BY <1>2, <1>3

(* What a refresh writes back is traced to the answer it agreed with.      *)
LEMMA RefreshTraced ==
  ASSUME MetadataTellsVersions, IInv, PastInv, TraceInv, NEW p \in Procs, Refresh(p)
  PROVE  Traced(manifest')
<1>1. /\ seen[p] \in Manifests /\ Traced(seen[p]) /\ seen[p] # None
      /\ manifest'.content = seen[p].content /\ manifest'.of = metaOf[p]
      /\ manifest'.meta = Refreshed(seen[p].meta, meta[p])
      /\ seen[p].guessed \/ seen[p].of = Unknown => manifest'.guessed
  BY RefreshedManifest, ConstantsOK DEF Refresh, IInv, LocalsHeld, TraceInv
<1>2. metaOf[p] # Unknown /\ \E k \in Kinds : meta[p] = FieldOf[k][metaOf[p]]
  BY DEF Refresh, PastInv, MetaTraced
<1>3. PICK k \in Kinds : meta[p] = FieldOf[k][metaOf[p]]
  BY <1>2
<1>4. metaOf[p] \in Versions
  BY <1>2 DEF IInv, TypeOK
<1>5. manifest'.meta[Telling] = FieldOf[k][metaOf[p]][Telling]
  BY <1>1, <1>3, <1>4, TellingTells DEF TellsVersions, Refreshed
<1>6. Agrees(seen[p], meta[p], metaOf[p])
  BY DEF Refresh, TraceInv
<1>7. ASSUME Mistaken(manifest')
      PROVE  manifest'.guessed
             /\ \E kk \in Kinds : FieldOf[kk][manifest'.of][Length] = SizeOf[manifest'.content]
  <2>1. CASE seen[p].of = Unknown
    BY <1>1, <1>3, <1>6, <2>1 DEF Agrees
  <2>2. CASE seen[p].of # Unknown
    <3>1. metaOf[p] = seen[p].of
      BY <1>6, <2>2 DEF Agrees
    <3>2. Mistaken(seen[p])
      BY <1>1, <1>7, <3>1 DEF Mistaken
    <3> QED BY <1>1, <3>1, <3>2 DEF Traced
  <2> QED BY <2>1, <2>2
<1> QED BY <1>1, <1>2, <1>5, <1>7 DEF Traced

(* What a download records is traced to its body and its own answer.       *)
LEMMA ReceivedTraced ==
  ASSUME MetadataTellsVersions, IInv, PastInv, NEW p \in Procs, WriteManifest(p)
  PROVE  Traced(manifest')
<1>1. /\ got[p] \in Contents /\ got[p] # None
      /\ manifest'.content = got[p] /\ manifest'.of = metaOf[p]
      /\ manifest'.meta[Length] = IF meta[p][Length] # Absent THEN meta[p][Length]
                                  ELSE SizeOf[got[p]]
      /\ \A f \in Fields \ {Length} : manifest'.meta[f] = meta[p][f]
  BY ReceivedManifest DEF WriteManifest, IInv, LocalsHeld
<1>2. ~Mistaken(manifest')
  <2>1. metaOf[p] <= got[p][1] /\ metaOf[p] \in Int /\ got[p][1] \in Nat
    BY <1>1, VersionsAreNumbers DEF WriteManifest, PastInv, BodyTraced, Fetching
  <2> QED BY <1>1, <2>1 DEF Mistaken
<1>3. CASE metaOf[p] = Unknown
  <2>1. meta[p] = NoMeta
    BY <1>3 DEF WriteManifest, PastInv, MetaTraced, Fetching
  <2> QED BY <1>1, <1>2, <1>3, <2>1, ConstantsOK DEF Traced, NoMeta
<1>4. CASE metaOf[p] # Unknown
  <2>1. PICK k \in Kinds : meta[p] = FieldOf[k][metaOf[p]]
    BY <1>4 DEF WriteManifest, PastInv, MetaTraced, Fetching
  <2>2. metaOf[p] \in Versions
    BY <1>4 DEF IInv, TypeOK
  <2>3. manifest'.meta[Telling] = FieldOf[k][metaOf[p]][Telling]
    BY <1>1, <2>1, <2>2, TellingTells DEF TellsVersions
  <2> QED BY <1>1, <1>2, <1>4, <2>3 DEF Traced
<1> QED BY <1>3, <1>4

(* A process that is about to refresh got there by an answer that agreed,  *)
(* and nobody touches its variables before it does.                        *)
LEMMA AgreesSteps ==
  ASSUME MetadataTellsVersions, IInv, TraceInv, [Next]_vars, NEW q \in Procs, pc'[q] = "refresh"
  PROVE  Agrees(seen'[q], meta'[q], metaOf'[q])
<1>1. /\ pc \in [Procs -> {"idle", "done", "decide", "revalidate", "refresh", "head",
                           "get", "stream", "replace", "publish"}]
      /\ seen \in [Procs -> Manifests \cup {None}]
      /\ meta \in [Procs -> [Fields -> FieldValues]]
      /\ metaOf \in [Procs -> Versions \cup {Unknown}]
  BY DEF IInv, TypeOK
<1>2. ASSUME pc[q] = "refresh", UNCHANGED <<seen[q], meta[q], metaOf[q]>>
      PROVE  Agrees(seen'[q], meta'[q], metaOf'[q])
  BY <1>2 DEF TraceInv
<1> USE <1>1, <1>2 DEF Go, files, server, call
<1>3. CASE Publish \/ Tick \/ UNCHANGED vars
  BY <1>3 DEF Publish, Tick, vars
<1>4. ASSUME NEW p \in Procs, Call(p) \/ Leave(p)
      PROVE  Agrees(seen'[q], meta'[q], metaOf'[q])
  BY <1>4 DEF Call, Leave
<1>5. ASSUME NEW p \in Procs,
             \/ ReuseCached(p) \/ RevalidateFails(p) \/ Refresh(p) \/ FetchFails(p)
             \/ WriteManifest(p) \/ Die(p)
      PROVE  Agrees(seen'[q], meta'[q], metaOf'[q])
  BY <1>5 DEF ReuseCached, RevalidateFails, Refresh, FetchFails, WriteManifest, Die, Return
<1>6. ASSUME NEW p \in Procs,
             \/ DecideRevalidate(p) \/ DecideDownload(p) \/ HeadFails(p) \/ Get(p)
             \/ StreamEnds(p) \/ StreamCut(p) \/ Replace(p)
      PROVE  Agrees(seen'[q], meta'[q], metaOf'[q])
  BY <1>6 DEF DecideRevalidate, DecideDownload, HeadFails, Get, StreamEnds, StreamCut, Replace
<1>7. ASSUME NEW p \in Procs, NEW k \in Kinds, Head(p, k)
      PROVE  Agrees(seen'[q], meta'[q], metaOf'[q])
  BY <1>7 DEF Head
<1>8. ASSUME NEW p \in Procs, NEW k \in Kinds, Revalidate(p, k)
      PROVE  Agrees(seen'[q], meta'[q], metaOf'[q])
  <2>1. CASE p # q
    BY <1>8, <2>1 DEF Revalidate
  <2>2. CASE p = q
    <3>1. seen[p] \in Manifests /\ Traced(seen[p])
      BY <1>8 DEF Revalidate, IInv, LocalsHeld, TraceInv
    <3>2. meta'[p] = FieldOf[k][remote] /\ metaOf'[p] = remote /\ seen'[p] = seen[p]
      BY <1>8 DEF Revalidate
    <3>3. ~IndicatesChange(seen[p].meta, FieldOf[k][remote])
      BY <1>8, <2>2, <3>2 DEF Revalidate
    <3> QED BY <2>2, <3>1, <3>2, <3>3, NoChangeAgrees
  <2> QED BY <2>1, <2>2
<1>9. ASSUME NEW a \in BOOLEAN, NEW b \in BOOLEAN, NEW t \in SUBSET Procs, Clean(a, b, t)
      PROVE  Agrees(seen'[q], meta'[q], metaOf'[q])
  BY <1>9 DEF Clean
<1> QED BY <1>3, <1>4, <1>5, <1>6, <1>7, <1>8, <1>9 DEF Next, Step

LEMMA NextTraceInv ==
  ASSUME MetadataTellsVersions, IInv, PastInv, TraceInv, [Next]_vars
  PROVE  TraceInv'
<1>1. /\ manifest' # None => Traced(manifest')
      /\ \A q \in Procs : seen'[q] # None => Traced(seen'[q])
  <2>1. CASE Publish
    BY <2>1 DEF Publish, files, call, TraceInv
  <2>2. CASE ~Publish
    BY <2>2, ManifestSteps, RefreshTraced, ReceivedTraced DEF TraceInv
  <2> QED BY <2>1, <2>2
<1> QED BY <1>1, AgreesSteps DEF TraceInv

(* Where one field of the metadata tells versions apart, every manifest    *)
(* can be traced to the body and the answers it was made of.               *)
THEOREM Traceability == ASSUME MetadataTellsVersions PROVE Spec => [](IInv /\ TraceInv)
<1>1. IInv /\ PastInv /\ TraceInv /\ [Next]_vars => TraceInv'
  BY NextTraceInv
<1> QED BY <1>1, PastInvariant, InitTraceInv, PTL DEF Spec

(* Where one field of the metadata tells versions apart, there is only one *)
(* way to a payload that is served although a newer version is out: the    *)
(* metadata was missing at its download, and its length is by chance that  *)
(* of the newer version.                                                   *)
THEOREM NeverPermanentlyStale ==
  ASSUME MetadataTellsVersions PROVE Spec => []NotPermanentlyStale
<1>1. TraceInv => NotPermanentlyStale
  BY DEF TraceInv, Traced, NotPermanentlyStale
<1> QED BY <1>1, Traceability, PTL
--------------------------------------------------------------------------------
(* Time.  What was superseded at time s, or never, was current at time t.  *)
CurrentAt(s, t) == s = Never \/ s >= t

LatestIsCurrent == \A v \in Versions : v >= remote => superseded[v] = Never

ClockBounds ==
  \A p \in Procs : start[p] <= now /\ (InCall(p) => now - start[p] <= MaxLatency)

(* The payload of a manifest was current when the call that checked it     *)
(* began, at most MaxLatency before, unless the manifest is mistaken.      *)
Dated(m, s, t) == m.checked <= t /\ (Mistaken(m) \/ CurrentAt(s, m.checked - MaxLatency))

ManifestsDated ==
  /\ manifest # None => Dated(manifest, superseded[manifest.content[1]], now)
  /\ \A p \in Procs :
       seen[p] # None => Dated(seen[p], superseded[seen[p].content[1]], now)

(* So is what a process is about to record, since its own call began.      *)
BodyDated ==
  \A p \in Procs :
    /\ pc[p] \in Fetching /\ got[p] # None => CurrentAt(superseded[got[p][1]], start[p])
    /\ pc[p] = "refresh" /\ metaOf[p] <= seen[p].content[1] =>
         CurrentAt(superseded[seen[p].content[1]], start[p])

AnswerDated ==
  Policy # "other" =>
    \A p \in Procs :
      pc[p] = "done" /\ ~blind[p] /\ answer[p] \notin {None, Failed} =>
        CurrentAt(superseded[answer[p][1]], start[p] - AgeAllowed - MaxLatency)

AgeInv == LatestIsCurrent /\ ClockBounds /\ ManifestsDated /\ BodyDated /\ AnswerDated

LEMMA InitAgeInv == Init => AgeInv
  BY ConstantsOK DEF Init, AgeInv, LatestIsCurrent, ClockBounds, ManifestsDated, BodyDated,
     AnswerDated, InCall, Fetching

LEMMA ClockSteps == IInv /\ ClockBounds /\ [Next]_vars => ClockBounds'
<1> SUFFICES ASSUME IInv, ClockBounds, [Next]_vars PROVE ClockBounds'
  OBVIOUS
<1>1. /\ pc \in [Procs -> {"idle", "done", "decide", "revalidate", "refresh", "head",
                           "get", "stream", "replace", "publish"}]
      /\ start \in [Procs -> Nat] /\ now \in Nat /\ MaxLatency \in Nat
  BY ConstantsOK DEF IInv, TypeOK
<1> USE <1>1 DEF ClockBounds, InCall, Go, files, server, call, history
<1>2. CASE Tick
  BY <1>2 DEF Tick
<1>3. ASSUME NEW p \in Procs, Call(p) \/ Leave(p) PROVE ClockBounds'
  BY <1>3 DEF Call, Leave
<1>4. ASSUME NEW p \in Procs,
             \/ ReuseCached(p) \/ RevalidateFails(p) \/ Refresh(p) \/ FetchFails(p)
             \/ WriteManifest(p) \/ Die(p)
      PROVE  ClockBounds'
  BY <1>4 DEF ReuseCached, RevalidateFails, Refresh, FetchFails, WriteManifest, Die, Return
<1>5. ASSUME NEW p \in Procs,
             \/ DecideRevalidate(p) \/ DecideDownload(p) \/ HeadFails(p) \/ Get(p)
             \/ StreamEnds(p) \/ StreamCut(p) \/ Replace(p)
      PROVE  ClockBounds'
  BY <1>5 DEF DecideRevalidate, DecideDownload, HeadFails, Get, StreamEnds, StreamCut, Replace
<1>6. ASSUME NEW p \in Procs, NEW k \in Kinds, Revalidate(p, k) \/ Head(p, k)
      PROVE  ClockBounds'
  BY <1>6 DEF Revalidate, Head
<1>7. ASSUME NEW a \in BOOLEAN, NEW b \in BOOLEAN, NEW t \in SUBSET Procs, Clean(a, b, t)
      PROVE  ClockBounds'
  BY <1>7 DEF Clean
<1>8. CASE Publish \/ UNCHANGED vars
  BY <1>8 DEF Publish, vars
<1> QED BY <1>2, <1>3, <1>4, <1>5, <1>6, <1>7, <1>8 DEF Next, Step

(* Only the version that is replaced gets a date, and that date is now.    *)
LEMMA SupersededSteps ==
  ASSUME IInv, LatestIsCurrent, [Next]_vars
  PROVE  /\ LatestIsCurrent'
         /\ now \in Nat /\ now' \in Nat /\ now <= now'
         /\ \A v \in Versions : superseded'[v] \in {superseded[v], now}
<1>1. /\ remote \in Nat /\ Versions \subseteq Nat /\ remote \in Versions /\ now \in Nat
      /\ superseded \in [Versions -> Nat \cup {Never}]
  BY VersionsAreNumbers DEF IInv, TypeOK
<1>2. CASE Publish
  BY <1>1, <1>2 DEF Publish, LatestIsCurrent
<1>3. CASE Tick
  BY <1>1, <1>3 DEF Tick, LatestIsCurrent
<1>4. CASE UNCHANGED server
  BY <1>1, <1>4 DEF server, LatestIsCurrent
<1>5. [Next]_vars => Publish \/ Tick \/ UNCHANGED server
  BY DEF Next, Step, vars, Call, Leave, ReuseCached, DecideRevalidate, DecideDownload,
     RevalidateFails, Refresh, HeadFails, Get, StreamEnds, StreamCut, FetchFails, Replace,
     WriteManifest, Revalidate, Head, Die, Clean
<1> QED BY <1>2, <1>3, <1>4, <1>5

(* Being current at a time that has come stays true of a version.          *)
LEMMA CurrentStays ==
  ASSUME NEW s \in Nat \cup {Never}, NEW n \in Nat, NEW ss \in {s, n}, NEW t \in Int,
         t <= n, CurrentAt(s, t)
  PROVE  CurrentAt(ss, t)
  BY DEF CurrentAt, Never

LEMMA AgeTypes ==
  ASSUME IInv
  PROVE  /\ pc \in [Procs -> {"idle", "done", "decide", "revalidate", "refresh", "head",
                             "get", "stream", "replace", "publish"}]
         /\ seen \in [Procs -> Manifests \cup {None}]
         /\ got \in [Procs -> Contents \cup {None}]
         /\ start \in [Procs -> Nat] /\ now \in Nat
         /\ MaxLatency \in Nat /\ MaxAge \in Nat /\ AgeAllowed \in Nat
         /\ \A v \in Versions : superseded[v] \in Nat \cup {Never}
         /\ answer \in [Procs -> Contents \cup {None, Failed}]
         /\ manifest \in Manifests \cup {None}
         /\ \A m \in Manifests : m.content[1] \in Versions /\ m.checked \in Nat
         /\ \A c \in Contents : c[1] \in Versions
  BY ConstantsOK DEF IInv, TypeOK, AgeAllowed, Manifests, Contents

(* The environment's steps: what was current at a time gone by stays so.   *)
LEMMA AgeEnvironment ==
  ASSUME IInv, AgeInv, Publish \/ Tick
  PROVE  ManifestsDated' /\ BodyDated' /\ AnswerDated'
<1>1. /\ now \in Nat /\ now' \in Nat /\ now <= now'
      /\ \A v \in Versions : superseded'[v] \in {superseded[v], now}
  BY SupersededSteps DEF AgeInv, Next
<1>2. \A v \in Versions, t \in Int :
        t <= now /\ CurrentAt(superseded[v], t) => CurrentAt(superseded'[v], t)
  BY <1>1, CurrentStays, AgeTypes
<1>3. UNCHANGED <<manifest, seen, metaOf, pc, got, start, blind, answer>>
  BY DEF Publish, Tick, files, call
<1>4. \A m \in Manifests :
        Dated(m, superseded[m.content[1]], now) => Dated(m, superseded'[m.content[1]], now')
  <2> SUFFICES ASSUME NEW m \in Manifests, Dated(m, superseded[m.content[1]], now)
               PROVE  Dated(m, superseded'[m.content[1]], now')
    OBVIOUS
  <2>1. m.checked <= now /\ m.checked - MaxLatency <= now /\ m.checked - MaxLatency \in Int
    BY AgeTypes DEF Dated
  <2>2. Mistaken(m) \/ CurrentAt(superseded'[m.content[1]], m.checked - MaxLatency)
    BY <1>2, <2>1, AgeTypes DEF Dated
  <2> QED BY <1>1, <2>1, <2>2, AgeTypes DEF Dated
<1>5. ManifestsDated'
  BY <1>3, <1>4, AgeTypes DEF AgeInv, ManifestsDated
<1>6. BodyDated'
  <2>1. \A p \in Procs : start[p] \in Int /\ start[p] <= now
    BY AgeTypes DEF AgeInv, ClockBounds
  <2>2. \A p \in Procs : pc[p] = "refresh" => seen[p].content[1] \in Versions
    BY AgeTypes DEF IInv, LocalsHeld
  <2>3. \A p \in Procs : got[p] # None => got[p][1] \in Versions
    BY AgeTypes
  <2> QED BY <1>2, <1>3, <2>1, <2>2, <2>3 DEF AgeInv, BodyDated, Fetching
<1>7. AnswerDated'
  <2> SUFFICES ASSUME Policy # "other", NEW p \in Procs, pc[p] = "done", ~blind[p],
                      answer[p] \notin {None, Failed}
               PROVE  CurrentAt(superseded'[answer[p][1]], start[p] - AgeAllowed - MaxLatency)
    BY <1>3 DEF AnswerDated, AgeAllowed
  <2>1. start[p] - AgeAllowed - MaxLatency \in Int /\ start[p] - AgeAllowed - MaxLatency <= now
    BY AgeTypes DEF AgeInv, ClockBounds
  <2>2. answer[p][1] \in Versions
    BY AgeTypes
  <2> QED BY <1>2, <2>1, <2>2 DEF AgeInv, AnswerDated
<1> QED BY <1>5, <1>6, <1>7

LEMMA ManifestsDatedSteps ==
  ASSUME IInv, AgeInv, [Next]_vars, UNCHANGED server
  PROVE  ManifestsDated'
<1> USE AgeTypes DEF AgeInv, ManifestsDated, files, server, call
<1>1. ASSUME NEW p \in Procs, Call(p) PROVE ManifestsDated'
  BY <1>1 DEF Call
<1>2. ASSUME NEW p \in Procs,
             \/ ReuseCached(p) \/ RevalidateFails(p) \/ FetchFails(p) \/ Die(p)
      PROVE  ManifestsDated'
  BY <1>2 DEF ReuseCached, RevalidateFails, FetchFails, Die, Return
<1>3. ASSUME NEW p \in Procs, Refresh(p) PROVE ManifestsDated'
  <2>1. /\ seen[p] \in Manifests /\ manifest' \in Manifests
        /\ manifest'.content = seen[p].content /\ manifest'.checked = now
        /\ manifest'.of = metaOf[p] /\ metaOf[p] \in Int
    BY <1>3, RefreshedManifest, VersionsAreNumbers
  <2>2. /\ Mistaken(manifest') \/ CurrentAt(superseded[seen[p].content[1]], start[p])
        /\ now - MaxLatency <= start[p]
    BY <1>3, <2>1, VersionsAreNumbers DEF Refresh, BodyDated, ClockBounds, InCall, Mistaken
  <2>3. Dated(manifest', superseded[manifest'.content[1]], now)
    BY <2>1, <2>2 DEF Dated, CurrentAt, Never
  <2> QED BY <1>3, <2>3 DEF Refresh, Return
<1>4. ASSUME NEW p \in Procs, WriteManifest(p) PROVE ManifestsDated'
  <2>1. /\ got[p] \in Contents /\ got[p] # None
        /\ manifest'.content = got[p] /\ manifest'.checked = now
    BY <1>4, ReceivedManifest DEF WriteManifest, IInv, LocalsHeld
  <2>2. CurrentAt(superseded[got[p][1]], start[p]) /\ now - MaxLatency <= start[p]
    BY <1>4, <2>1 DEF WriteManifest, BodyDated, Fetching, ClockBounds, InCall
  <2>3. Dated(manifest', superseded[manifest'.content[1]], now)
    BY <2>1, <2>2 DEF Dated, CurrentAt, Never
  <2> QED BY <1>4, <2>3 DEF WriteManifest, Return
<1>5. ASSUME NEW p \in Procs,
             \/ Leave(p) \/ DecideRevalidate(p) \/ DecideDownload(p) \/ HeadFails(p)
             \/ Get(p) \/ StreamEnds(p) \/ StreamCut(p) \/ Replace(p)
      PROVE  ManifestsDated'
  BY <1>5 DEF Leave, DecideRevalidate, DecideDownload, HeadFails, Get, StreamEnds, StreamCut,
     Replace
<1>6. ASSUME NEW p \in Procs, NEW k \in Kinds, Revalidate(p, k) \/ Head(p, k)
      PROVE  ManifestsDated'
  BY <1>6 DEF Revalidate, Head
<1>7. ASSUME NEW a \in BOOLEAN, NEW b \in BOOLEAN, NEW t \in SUBSET Procs, Clean(a, b, t)
      PROVE  ManifestsDated'
  BY <1>7 DEF Clean
<1>8. CASE UNCHANGED vars
  BY <1>8 DEF vars
<1>9. ~Publish /\ ~Tick
  BY VersionsAreNumbers DEF Publish, Tick
<1> QED BY <1>1, <1>2, <1>3, <1>4, <1>5, <1>6, <1>7, <1>8, <1>9 DEF Next, Step

LEMMA BodyDatedSteps ==
  ASSUME IInv, PastInv, AgeInv, [Next]_vars, UNCHANGED server
  PROVE  BodyDated'
<1>1. \A v \in Versions : v = remote => superseded[v] = Never
  BY VersionsAreNumbers DEF AgeInv, LatestIsCurrent
<1>2. remote \in Versions
  BY DEF IInv, TypeOK
<1> USE AgeTypes DEF AgeInv, BodyDated, Fetching, Go, files, server, call
<1>3. ASSUME NEW p \in Procs, Call(p) \/ Leave(p) PROVE BodyDated'
  BY <1>3 DEF Call, Leave
<1>4. ASSUME NEW p \in Procs,
             \/ ReuseCached(p) \/ RevalidateFails(p) \/ Refresh(p) \/ FetchFails(p)
             \/ WriteManifest(p) \/ Die(p)
      PROVE  BodyDated'
  <2>1. \A q \in Procs \ {p} :
          pc'[q] = pc[q] /\ seen'[q] = seen[q] /\ got'[q] = got[q] /\ metaOf'[q] = metaOf[q]
    BY <1>4 DEF ReuseCached, RevalidateFails, Refresh, FetchFails, WriteManifest, Die, Return,
       IInv, TypeOK
  <2>2. pc'[p] = "done" /\ UNCHANGED <<superseded, start>>
    BY <1>4 DEF ReuseCached, RevalidateFails, Refresh, FetchFails, WriteManifest, Die, Return,
       history
  <2> QED BY <2>1, <2>2
<1>5. ASSUME NEW p \in Procs, NEW k \in Kinds, Revalidate(p, k) PROVE BodyDated'
  <2>1. seen[p] \in Manifests /\ seen[p].content[1] <= remote
    BY <1>5 DEF Revalidate, IInv, LocalsHeld, PastInv, NothingFromTheFuture
  <2>2. metaOf'[p] = remote
    BY <1>5 DEF Revalidate, IInv, TypeOK
  <2>3. metaOf'[p] <= seen[p].content[1] => CurrentAt(superseded[seen[p].content[1]], start[p])
    <3>1. seen[p].content[1] \in Versions /\ seen[p].content[1] \in Nat /\ remote \in Nat
      BY <2>1, VersionsAreNumbers
    <3>2. remote <= seen[p].content[1] => seen[p].content[1] = remote
      <4>1. \A a, b \in Nat : a <= b /\ b <= a => a = b
        OBVIOUS
      <4> QED BY <2>1, <3>1, <4>1, Zenon
    <3>3. remote <= seen[p].content[1] => superseded[seen[p].content[1]] = Never
      BY <1>1, <3>1, <3>2, Zenon
    <3> QED BY <2>2, <3>3 DEF CurrentAt
  <2>4. \A q \in Procs \ {p} : metaOf'[q] = metaOf[q] /\ pc'[q] = pc[q]
    BY <1>5 DEF Revalidate, IInv, TypeOK
  <2>5. UNCHANGED <<superseded, start, seen, got>> /\ pc'[p] \in {"get", "refresh"}
    BY <1>5 DEF Revalidate
  <2> QED BY <2>3, <2>4, <2>5
<1>6. ASSUME NEW p \in Procs, Get(p) PROVE BodyDated'
  <2>1. got'[p][1] = remote /\ pc'[p] = "stream"
    BY <1>6 DEF Get
  <2>2. \A q \in Procs \ {p} : got'[q] = got[q] /\ pc'[q] = pc[q]
    BY <1>6 DEF Get
  <2>3. UNCHANGED <<superseded, start, seen, metaOf>>
    BY <1>6 DEF Get
  <2>4. CurrentAt(superseded[remote], start[p])
    BY <1>1, <1>2 DEF CurrentAt
  <2> QED BY <2>1, <2>2, <2>3, <2>4
<1>7. ASSUME NEW p \in Procs, StreamEnds(p) PROVE BodyDated'
  <2>1. got[p] = None => got'[p] = None
    BY <1>7 DEF StreamEnds
  <2>2. got[p] # None => got'[p][1] = got[p][1]
    BY <1>7 DEF StreamEnds
  <2>3. \A q \in Procs \ {p} : got'[q] = got[q] /\ pc'[q] = pc[q]
    BY <1>7 DEF StreamEnds
  <2>4. UNCHANGED <<superseded, start, seen, metaOf>> /\ pc[p] = "stream" /\ pc'[p] = "replace"
    BY <1>7 DEF StreamEnds
  <2> QED BY <2>1, <2>2, <2>3, <2>4
<1>8. ASSUME NEW p \in Procs,
             \/ DecideRevalidate(p) \/ DecideDownload(p) \/ HeadFails(p)
             \/ StreamCut(p) \/ Replace(p)
      PROVE  BodyDated'
  <2>1. CASE HeadFails(p)
    BY <2>1 DEF HeadFails, IInv, TypeOK
  <2>2. CASE DecideRevalidate(p) \/ DecideDownload(p) \/ StreamCut(p) \/ Replace(p)
    BY <2>2 DEF DecideRevalidate, DecideDownload, StreamCut, Replace
  <2> QED BY <1>8, <2>1, <2>2
<1>9. ASSUME NEW p \in Procs, NEW k \in Kinds, Head(p, k) PROVE BodyDated'
  BY <1>9 DEF Head
<1>10. ASSUME NEW a \in BOOLEAN, NEW b \in BOOLEAN, NEW t \in SUBSET Procs, Clean(a, b, t)
       PROVE  BodyDated'
  BY <1>10 DEF Clean
<1>11. CASE UNCHANGED vars
  BY <1>11 DEF vars
<1>12. ~Publish /\ ~Tick
  BY VersionsAreNumbers DEF Publish, Tick
<1> QED BY <1>3, <1>4, <1>5, <1>6, <1>7, <1>8, <1>9, <1>10, <1>11, <1>12 DEF Next, Step

(* Answers are given by ReuseCached and Refresh, unless the manifest is    *)
(* mistaken, and by WriteManifest; the other returns are blind or failed.  *)
LEMMA AnswerDatedSteps ==
  ASSUME IInv, AgeInv, [Next]_vars, UNCHANGED server
  PROVE  AnswerDated'
<1> SUFFICES ASSUME Policy # "other" PROVE AnswerDated'
  BY DEF AnswerDated
<1>1. ASSUME NEW p \in Procs, NEW result, Return(p, result), UNCHANGED start,
             \A q \in Procs \ {p} : blind'[q] = blind[q],
             result \notin {None, Failed} /\ ~blind'[p] =>
               CurrentAt(superseded[result[1]], start[p] - AgeAllowed - MaxLatency)
      PROVE  AnswerDated'
  BY <1>1, AgeTypes DEF AgeInv, AnswerDated, Return, Go, server, AgeAllowed
<1>2. \A p \in Procs, s \in Nat \cup {Never} :
        CurrentAt(s, start[p]) => CurrentAt(s, start[p] - AgeAllowed - MaxLatency)
  BY AgeTypes DEF CurrentAt, Never
<1>3. ASSUME NEW p \in Procs, ReuseCached(p) PROVE AnswerDated'
  <2>1. seen[p] \in Manifests /\ Dated(seen[p], superseded[seen[p].content[1]], now)
    BY <1>3, AgeTypes DEF ReuseCached, Cached, AgeInv, ManifestsDated
  <2>2. Policy = "ttl" /\ now - seen[p].checked < MaxAge
    BY <1>3, <2>1, ConstantsOK, AgeTypes DEF ReuseCached, ShouldRevalidate
  <2>3. start[p] - AgeAllowed - MaxLatency <= seen[p].checked - MaxLatency
    BY <2>1, <2>2, AgeTypes DEF AgeInv, ClockBounds, AgeAllowed
  <2>4. Mistaken(seen[p])
          \/ CurrentAt(superseded[seen[p].content[1]], start[p] - AgeAllowed - MaxLatency)
    BY <2>1, <2>3, AgeTypes DEF Dated, CurrentAt, Never
  <2>5. blind'[p] = Mistaken(seen[p]) /\ \A q \in Procs \ {p} : blind'[q] = blind[q]
    BY <1>3, Zenon DEF ReuseCached, IInv, TypeOK
  <2> QED BY <1>1, <1>3, <2>4, <2>5 DEF ReuseCached
<1>4. ASSUME NEW p \in Procs, Refresh(p) PROVE AnswerDated'
  <2>1. /\ seen[p] \in Manifests /\ metaOf[p] \in Int
        /\ manifest'.of = metaOf[p] /\ manifest'.content = seen[p].content
    BY <1>4, RefreshedManifest, VersionsAreNumbers
  <2>2. Mistaken(manifest') \/ CurrentAt(superseded[seen[p].content[1]], start[p])
    BY <1>4, <2>1, VersionsAreNumbers DEF Refresh, AgeInv, BodyDated, Mistaken
  <2>3. Mistaken(manifest')
          \/ CurrentAt(superseded[seen[p].content[1]], start[p] - AgeAllowed - MaxLatency)
    BY <1>2, <2>1, <2>2, AgeTypes
  <2>4. blind'[p] = Mistaken(manifest') /\ \A q \in Procs \ {p} : blind'[q] = blind[q]
    BY <1>4, Zenon DEF Refresh, IInv, TypeOK
  <2> QED BY <1>1, <1>4, <2>3, <2>4 DEF Refresh
<1>5. ASSUME NEW p \in Procs, WriteManifest(p) PROVE AnswerDated'
  <2>1. got[p] \in Contents /\ CurrentAt(superseded[got[p][1]], start[p])
    BY <1>5, AgeTypes DEF WriteManifest, IInv, LocalsHeld, AgeInv, BodyDated, Fetching
  <2>2. CurrentAt(superseded[got[p][1]], start[p] - AgeAllowed - MaxLatency)
    BY <1>2, <2>1, AgeTypes
  <2> QED BY <1>1, <1>5, <2>2 DEF WriteManifest, history
<1>6. ASSUME NEW p \in Procs, FetchFails(p) \/ Die(p) PROVE AnswerDated'
  BY <1>1, <1>6 DEF FetchFails, Die, history
<1> USE AgeTypes DEF AgeInv, AnswerDated, Go, files, server, call, AgeAllowed
<1>7. ASSUME NEW p \in Procs, RevalidateFails(p) PROVE AnswerDated'
  <2>1. blind'[p] = TRUE /\ \A q \in Procs \ {p} : blind'[q] = blind[q]
    BY <1>7, Zenon DEF RevalidateFails, IInv, TypeOK
  <2> QED BY <1>7, <2>1 DEF RevalidateFails, Return
<1>8. ASSUME NEW p \in Procs, Leave(p) PROVE AnswerDated'
  <2>1. \A q \in Procs \ {p} : blind'[q] = blind[q]
    BY <1>8, Zenon DEF Leave, IInv, TypeOK
  <2> QED BY <1>8, <2>1 DEF Leave
<1>9. ASSUME NEW p \in Procs,
             \/ Call(p) \/ DecideRevalidate(p) \/ DecideDownload(p) \/ HeadFails(p)
             \/ Get(p) \/ StreamEnds(p) \/ StreamCut(p) \/ Replace(p)
      PROVE  AnswerDated'
  BY <1>9 DEF Call, DecideRevalidate, DecideDownload, HeadFails, Get, StreamEnds, StreamCut,
     Replace
<1>10. ASSUME NEW p \in Procs, NEW k \in Kinds, Revalidate(p, k) \/ Head(p, k)
       PROVE  AnswerDated'
  BY <1>10 DEF Revalidate, Head
<1>11. ASSUME NEW a \in BOOLEAN, NEW b \in BOOLEAN, NEW t \in SUBSET Procs, Clean(a, b, t)
       PROVE  AnswerDated'
  BY <1>11 DEF Clean
<1>12. CASE UNCHANGED vars
  BY <1>12 DEF vars
<1>13. ~Publish /\ ~Tick
  BY VersionsAreNumbers DEF Publish, Tick
<1> QED BY <1>3, <1>4, <1>5, <1>6, <1>7, <1>8, <1>9, <1>10, <1>11, <1>12, <1>13 DEF Next, Step

LEMMA NextAgeInv ==
  ASSUME IInv, PastInv, AgeInv, [Next]_vars
  PROVE  AgeInv'
<1>1. LatestIsCurrent' /\ ClockBounds'
  BY SupersededSteps, ClockSteps DEF AgeInv
<1>2. CASE Publish \/ Tick
  BY <1>1, <1>2, AgeEnvironment DEF AgeInv
<1>3. CASE UNCHANGED server
  BY <1>1, <1>3, ManifestsDatedSteps, BodyDatedSteps, AnswerDatedSteps DEF AgeInv
<1>4. [Next]_vars => Publish \/ Tick \/ UNCHANGED server
  BY DEF Next, Step, vars, Call, Leave, ReuseCached, DecideRevalidate, DecideDownload,
     RevalidateFails, Refresh, HeadFails, Get, StreamEnds, StreamCut, FetchFails, Replace,
     WriteManifest, Revalidate, Head, Die, Clean
<1> QED BY <1>2, <1>3, <1>4

(* An answer whose call could reach the server and was not misled by a     *)
(* mistaken manifest names a version the server still held MaxAge before   *)
(* the call, give or take the time a call may last.                        *)
THEOREM AnswersAreFresh == Spec => []StalenessBounded
<1>1. IInv /\ PastInv /\ AgeInv /\ [Next]_vars => AgeInv'
  BY NextAgeInv
<1>2. IInv /\ AgeInv => StalenessBounded
  <2> SUFFICES ASSUME IInv, AgeInv, Policy # "other", NEW p \in Procs, pc[p] = "done",
                      ~blind[p], answer[p] \notin {None, Failed},
                      superseded[answer[p][1]] # Never
               PROVE  superseded[answer[p][1]] + AgeAllowed + MaxLatency >= start[p]
    BY DEF StalenessBounded
  <2>1. superseded[answer[p][1]] >= start[p] - AgeAllowed - MaxLatency
    BY DEF AgeInv, AnswerDated, CurrentAt
  <2>2. answer[p][1] \in Versions
    BY AgeTypes
  <2> QED BY <2>1, <2>2, AgeTypes
<1> QED BY <1>1, <1>2, InitAgeInv, PastInvariant, PTL DEF Spec
================================================================================
