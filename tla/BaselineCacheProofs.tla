-------------------------- MODULE BaselineCacheProofs --------------------------
(***************************************************************************)
(* Theorems about BaselineCache, for any number of threads, requests,      *)
(* edits and calls.                                                        *)
(***************************************************************************)
EXTENDS BaselineCache, TLAPS

(* Every owner of a build is registered in the in-flight table.            *)
BuildersRegistered == \A t \in Threads : pc[t] \in Building => inFlight[key[t]] = t

(* A request with a build in flight has no cached baseline, so a caller    *)
(* cannot be served the value the build is about to replace.               *)
InFlightMeansEmpty == \A k \in Keys : inFlight[k] # Nobody => cache[k] = NoBaseline

(* A builder about to publish holds a version that it read.                *)
PublishesVersion == \A t \in Threads : pc[t] = "publish" => built[t] \in Nat

IInv == TypeOK /\ BuildersRegistered /\ InFlightMeansEmpty /\ PublishesVersion

--------------------------------------------------------------------------------
LEMMA InitIInv == Init => IInv
  BY ConstantsOK DEF Init, IInv, TypeOK, BuildersRegistered, InFlightMeansEmpty,
     PublishesVersion, PCs, Building, NoBaseline, NotReload, Failed

(* The steps of the callers that do not touch the in-flight table.         *)
LEMMA QuietSteps ==
  ASSUME IInv,
         \/ \E t \in Threads : \/ ReloadEvict(t) \/ LookupHit(t) \/ LookupWait(t)
                               \/ BuildReads(t) \/ BuildRaises(t) \/ Interrupt(t)
         \/ \E t \in Threads, k \in Keys : CallGet(t, k) \/ CallReload(t, k)
         \/ \E k \in Keys : Edit(k) \/ EvictOne(k)
         \/ \E roots \in RootChoices : EvictCwd(roots)
         \/ UNCHANGED vars
  PROVE  IInv' /\ UNCHANGED inFlight
<1> USE ConstantsOK DEF IInv, TypeOK, BuildersRegistered, InFlightMeansEmpty,
        PublishesVersion, PCs, Building, NoBaseline, NotReload, Failed
<1>1. CASE \E t \in Threads : ReloadEvict(t)
  BY <1>1 DEF ReloadEvict
<1>2. CASE \E t \in Threads : LookupHit(t)
  BY <1>2 DEF LookupHit
<1>3. CASE \E t \in Threads : LookupWait(t)
  BY <1>3 DEF LookupWait
<1>4. CASE \E t \in Threads : BuildReads(t)
  BY <1>4 DEF BuildReads
<1>5. CASE \E t \in Threads : BuildRaises(t)
  BY <1>5 DEF BuildRaises
<1>6. CASE \E t \in Threads : Interrupt(t)
  BY <1>6 DEF Interrupt
<1>7. CASE \E t \in Threads, k \in Keys : CallGet(t, k)
  BY <1>7 DEF CallGet
<1>8. CASE \E t \in Threads, k \in Keys : CallReload(t, k)
  BY <1>8 DEF CallReload
<1>9. CASE \E k \in Keys : Edit(k)
  BY <1>9 DEF Edit
<1>10. CASE \E k \in Keys : EvictOne(k)
  BY <1>10 DEF EvictOne
<1>11. CASE \E roots \in RootChoices : EvictCwd(roots)
  BY <1>11 DEF EvictCwd
<1>12. CASE UNCHANGED vars
  BY <1>12 DEF vars
<1> QED BY <1>1, <1>2, <1>3, <1>4, <1>5, <1>6, <1>7, <1>8, <1>9, <1>10, <1>11, <1>12

LEMMA LookupBuildStep ==
  ASSUME IInv, NEW t \in Threads, LookupBuild(t)
  PROVE  IInv'
BY ConstantsOK DEF LookupBuild, IInv, TypeOK, BuildersRegistered, InFlightMeansEmpty,
   PublishesVersion, PCs, Building, NoBaseline

(* Waking the waiters of a key moves no thread into or out of a build.     *)
LEMMA WakeFacts ==
  ASSUME NEW k, NEW next \in [Threads -> PCs]
  PROVE  /\ Wake(k, next) \in [Threads -> PCs]
         /\ \A u \in Threads : Wake(k, next)[u] \in Building => Wake(k, next)[u] = next[u]
BY DEF Wake, PCs, Building

LEMMA PublishStep ==
  ASSUME IInv, NEW t \in Threads, Publish(t)
  PROVE  IInv'
<1> DEFINE next == [pc EXCEPT ![t] = "idle"]
<1> USE ConstantsOK DEF IInv, TypeOK
<1>1. next \in [Threads -> PCs] /\ next[t] = "idle" /\ \A u \in Threads \ {t} : next[u] = pc[u]
  BY DEF PCs
<1>2. pc' = Wake(key[t], next)
  BY DEF Publish
<1>3. \A u \in Threads : pc'[u] \in Building => u # t /\ pc'[u] = pc[u]
  <2> HIDE DEF next
  <2> QED BY <1>1, <1>2, WakeFacts DEF Building
<1>4. pc[t] = "publish" /\ built[t] \in Nat /\ inFlight[key[t]] = t
  BY DEF Publish, BuildersRegistered, PublishesVersion, Building
<1>5. TypeOK'
  <2> HIDE DEF next
  <2>1. pc' \in [Threads -> PCs]
    BY <1>1, <1>2, WakeFacts
  <2> QED BY <2>1, <1>4 DEF Publish
<1>6. BuildersRegistered'
  <2> SUFFICES ASSUME NEW u \in Threads, pc'[u] \in Building
               PROVE  inFlight'[key'[u]] = u
    BY DEF BuildersRegistered
  <2>1. u # t /\ inFlight[key[u]] = u
    BY <1>3 DEF BuildersRegistered
  <2> QED BY <2>1, <1>4 DEF Publish
<1>7. InFlightMeansEmpty'
  BY DEF InFlightMeansEmpty, Publish
<1>8. PublishesVersion'
  BY <1>3 DEF PublishesVersion, Publish, Building
<1> QED BY <1>5, <1>6, <1>7, <1>8

LEMMA AbortStep ==
  ASSUME IInv, NEW t \in Threads, Abort(t)
  PROVE  IInv'
<1> DEFINE next == [pc EXCEPT ![t] = "idle"]
<1> USE ConstantsOK DEF IInv, TypeOK
<1>1. next \in [Threads -> PCs] /\ next[t] = "idle" /\ \A u \in Threads \ {t} : next[u] = pc[u]
  BY DEF PCs
<1>2. pc' = Wake(key[t], next)
  BY DEF Abort
<1>3. \A u \in Threads : pc'[u] \in Building => u # t /\ pc'[u] = pc[u]
  <2> HIDE DEF next
  <2> QED BY <1>1, <1>2, WakeFacts DEF Building
<1>4. inFlight[key[t]] = t
  BY DEF Abort, BuildersRegistered, Building
<1>5. TypeOK'
  <2> HIDE DEF next
  <2>1. pc' \in [Threads -> PCs]
    BY <1>1, <1>2, WakeFacts
  <2> QED BY <2>1 DEF Abort, Failed
<1>6. BuildersRegistered'
  <2> SUFFICES ASSUME NEW u \in Threads, pc'[u] \in Building
               PROVE  inFlight'[key'[u]] = u
    BY DEF BuildersRegistered
  <2>1. u # t /\ inFlight[key[u]] = u
    BY <1>3 DEF BuildersRegistered
  <2> QED BY <2>1, <1>4 DEF Abort
<1>7. InFlightMeansEmpty'
  BY DEF InFlightMeansEmpty, Abort
<1>8. PublishesVersion'
  BY <1>3 DEF PublishesVersion, Abort, Building
<1> QED BY <1>5, <1>6, <1>7, <1>8

LEMMA NextIInv == IInv /\ [Next]_vars => IInv'
<1> SUFFICES ASSUME IInv, [Next]_vars PROVE IInv' OBVIOUS
<1>1. CASE \E t \in Threads : LookupBuild(t)
  BY <1>1, LookupBuildStep
<1>2. CASE \E t \in Threads : Publish(t)
  BY <1>2, PublishStep
<1>3. CASE \E t \in Threads : Abort(t)
  BY <1>3, AbortStep
<1> QED BY <1>1, <1>2, <1>3, QuietSteps DEF Next, Step

(* The inductive invariant of the two dictionaries and their threads.      *)
THEOREM Invariance == Spec => []IInv
  BY InitIInv, NextIInv, PTL DEF Spec

--------------------------------------------------------------------------------
(* The variables of the cache keep their types.                            *)
THEOREM TypeCorrect == Spec => []TypeOK
  BY Invariance, PTL DEF IInv

(* Two threads never evaluate the same workspace at the same time.         *)
THEOREM AtMostOneBuilder == Spec => []SingleBuilder
<1>1. IInv => SingleBuilder
  BY DEF IInv, BuildersRegistered, SingleBuilder
<1> QED BY <1>1, Invariance, PTL

--------------------------------------------------------------------------------
(* The in-flight protocol implements the single-flight cache: every step   *)
(* claims, fills, gives up or drops, or changes neither dictionary.        *)
LEMMA InitFlight == Init => Flight!Init
  BY DEF Init, Flight!Init, NoBaseline, Flight!Empty

LEMMA StepFlight ==
  IInv /\ [Next]_vars => [Flight!Next]_<<cache, inFlight>>
<1> SUFFICES ASSUME IInv, [Next]_vars
             PROVE  Flight!Next \/ UNCHANGED <<cache, inFlight>>
  OBVIOUS
<1> USE DEF IInv, TypeOK, NoBaseline, Flight!Empty
<1>1. CASE \E t \in Threads : LookupBuild(t)
  <2> PICK t \in Threads : LookupBuild(t) BY <1>1
  <2>1. Flight!Claim(t, key[t])
    BY DEF LookupBuild, Flight!Claim
  <2> QED BY <2>1 DEF Flight!Next
<1>2. CASE \E t \in Threads : Publish(t)
  <2> PICK t \in Threads : Publish(t) BY <1>2
  <2>1. inFlight[key[t]] = t /\ built[t] \in Nat /\ key[t] \in Keys
    BY DEF Publish, BuildersRegistered, PublishesVersion, Building
  <2>2. cache[key[t]] = -1
    BY <2>1, ConstantsOK DEF InFlightMeansEmpty
  <2>3. cache'[key[t]] = built[t]
    BY <2>1 DEF Publish
  <2>4. Flight!Fill(t, key[t])
    BY <2>1, <2>2, <2>3 DEF Publish, Flight!Fill
  <2> QED BY <2>1, <2>4 DEF Flight!Next
<1>3. CASE \E t \in Threads : Abort(t)
  <2> PICK t \in Threads : Abort(t) BY <1>3
  <2>1. Flight!GiveUp(t, key[t])
    BY DEF Abort, Flight!GiveUp, BuildersRegistered, Building
  <2> QED BY <2>1 DEF Flight!Next
<1>4. CASE \E t \in Threads : ReloadEvict(t)
  <2> PICK t \in Threads : ReloadEvict(t) BY <1>4
  <2>1. Flight!Drop({key[t]})
    BY DEF ReloadEvict, Flight!Drop
  <2> QED BY <2>1 DEF Flight!Next
<1>5. CASE \E k \in Keys : EvictOne(k)
  <2> PICK k \in Keys : EvictOne(k) BY <1>5
  <2>1. Flight!Drop({k})
    BY DEF EvictOne, Flight!Drop
  <2> QED BY <2>1 DEF Flight!Next
<1>6. CASE \E roots \in RootChoices : EvictCwd(roots)
  <2> PICK roots \in RootChoices : EvictCwd(roots) BY <1>6
  <2>1. CwdVictims(roots) \in SUBSET Keys
    BY ConstantsOK DEF CwdVictims
  <2>2. Flight!Drop(CwdVictims(roots))
    BY DEF EvictCwd, Flight!Drop
  <2> QED BY <2>1, <2>2 DEF Flight!Next
<1>7. CASE UNCHANGED <<cache, inFlight>>
  BY <1>7
<1>8. CASE \E t \in Threads : \/ LookupHit(t) \/ LookupWait(t) \/ BuildReads(t)
                              \/ BuildRaises(t) \/ Interrupt(t)
  BY <1>8 DEF LookupHit, LookupWait, BuildReads, BuildRaises, Interrupt
<1>9. CASE \/ \E t \in Threads, k \in Keys : CallGet(t, k) \/ CallReload(t, k)
           \/ \E k \in Keys : Edit(k)
           \/ UNCHANGED vars
  BY <1>9 DEF CallGet, CallReload, Edit, vars
<1> QED BY <1>1, <1>2, <1>3, <1>4, <1>5, <1>6, <1>8, <1>9 DEF Next, Step

(* The in-flight protocol implements the abstract single-flight cache.     *)
THEOREM ImplementsSingleFlight == Spec => SingleFlightSpec
  BY InitFlight, StepFlight, Invariance, PTL DEF Spec, SingleFlightSpec, Flight!Spec

--------------------------------------------------------------------------------
(* Versions only move forward.  What a caller was given for a request is   *)
(* no newer than the tree, than the cached baseline, and than the one a    *)
(* builder is about to publish.                                            *)
Given(t, k) == pc[t] = "idle" /\ key[t] = k /\ answer[t] >= 0

NothingFromTheFuture ==
  /\ \A k \in Keys : cache[k] <= disk[k]
  /\ \A t \in Threads : pc[t] = "publish" => built[t] <= disk[key[t]]
  /\ \A t \in Threads, k \in Keys : Given(t, k) => answer[t] <= disk[k]

GivenIsOldest ==
  /\ \A t \in Threads, k \in Keys :
       Given(t, k) /\ cache[k] # NoBaseline => answer[t] <= cache[k]
  /\ \A t, u \in Threads :
       Given(t, key[u]) /\ pc[u] = "publish" => answer[t] <= built[u]

(* The same for a reload that raced with no build: from its eviction on,   *)
(* everything it can be given was read after it was called.                *)
UnracedReload(t) == asked[t] # NotReload /\ ~raced[t]

UnracedIsFresh ==
  \A t \in Threads :
    /\ asked[t] # NotReload => asked[t] <= disk[key[t]]
    /\ UnracedReload(t) /\ pc[t] # "evict" /\ pc[t] # "idle" =>
         /\ cache[key[t]] # NoBaseline => asked[t] <= cache[key[t]]
         /\ \A u \in Threads :
              pc[u] = "publish" /\ key[u] = key[t] => asked[t] <= built[u]
    /\ UnracedReload(t) /\ pc[t] = "idle" /\ answer[t] # Failed => asked[t] <= answer[t]

VInv == NothingFromTheFuture /\ GivenIsOldest /\ UnracedIsFresh

LEMMA InitVInv == Init => VInv
  BY ConstantsOK DEF Init, VInv, NothingFromTheFuture, GivenIsOldest, UnracedIsFresh,
     UnracedReload, Given, NoBaseline, NotReload, Failed

LEMMA WokenAreNotIdle ==
  ASSUME NEW k, NEW next \in [Threads -> PCs], NEW u \in Threads
  PROVE  /\ Wake(k, next)[u] = "idle" <=> next[u] = "idle"
         /\ Wake(k, next)[u] = "publish" <=> next[u] = "publish"
         /\ Wake(k, next)[u] = "evict" <=> next[u] = "evict"
BY DEF Wake, PCs, Building

LEMMA NextVInv == IInv /\ VInv /\ [Next]_vars => VInv'
<1> SUFFICES ASSUME IInv, VInv, [Next]_vars PROVE VInv' OBVIOUS
<1> USE ConstantsOK DEF IInv, TypeOK, BuildersRegistered, InFlightMeansEmpty,
        PublishesVersion, NoBaseline, NotReload, Failed
<1>1. CASE \E t \in Threads : ReloadEvict(t)
  <2> PICK t \in Threads : ReloadEvict(t) BY <1>1
  <2>1. NothingFromTheFuture' /\ GivenIsOldest'
    BY DEF ReloadEvict, VInv, NothingFromTheFuture, GivenIsOldest, Given
  <2>2. ASSUME ~raced'[t]
        PROVE  \A u \in Threads : pc[u] = "publish" => key[u] # key[t]
    <3>1. raced' = [raced EXCEPT ![t] = inFlight[key[t]] # Nobody] /\ raced \in [Threads -> BOOLEAN]
      BY DEF ReloadEvict
    <3>2. inFlight[key[t]] = Nobody
      BY ONLY <3>1, <2>2, t \in Threads, Zenon
    <3> QED BY <3>2 DEF Building
  <2>3. UnracedIsFresh'
    <3> SUFFICES ASSUME NEW r \in Threads
                 PROVE  /\ asked[r] # NotReload => asked[r] <= disk[key[r]]
                        /\ UnracedReload(r)' /\ pc'[r] # "evict" /\ pc'[r] # "idle" =>
                             /\ cache'[key[r]] # NoBaseline => asked[r] <= cache'[key[r]]
                             /\ \A u \in Threads :
                                  pc'[u] = "publish" /\ key[u] = key[r] => asked[r] <= built[u]
                        /\ UnracedReload(r)' /\ pc'[r] = "idle" /\ answer[r] # Failed
                             => asked[r] <= answer[r]
      BY DEF ReloadEvict, UnracedIsFresh
    <3>1. CASE r = t
      BY <2>2, <3>1 DEF ReloadEvict, VInv, UnracedIsFresh, UnracedReload
    <3>2. CASE r # t
      BY <3>2 DEF ReloadEvict, VInv, UnracedIsFresh, UnracedReload
    <3> QED BY <3>1, <3>2
  <2> QED BY <2>1, <2>3 DEF VInv
<1>2. CASE \E t \in Threads : LookupHit(t)
  BY <1>2 DEF LookupHit, VInv, NothingFromTheFuture, GivenIsOldest, UnracedIsFresh, UnracedReload, Given, Building
<1>3. CASE \E t \in Threads : LookupWait(t)
  BY <1>3 DEF LookupWait, VInv, NothingFromTheFuture, GivenIsOldest, UnracedIsFresh, UnracedReload, Given
<1>4. CASE \E t \in Threads : LookupBuild(t)
  BY <1>4 DEF LookupBuild, VInv, NothingFromTheFuture, GivenIsOldest, UnracedIsFresh, UnracedReload, Given
<1>5. CASE \E t \in Threads : BuildReads(t)
  BY <1>5 DEF BuildReads, VInv, NothingFromTheFuture, GivenIsOldest, UnracedIsFresh, UnracedReload, Given
<1>6. CASE \E t \in Threads : BuildRaises(t)
  BY <1>6 DEF BuildRaises, VInv, NothingFromTheFuture, GivenIsOldest, UnracedIsFresh, UnracedReload, Given
<1>7. CASE \E t \in Threads : Interrupt(t)
  BY <1>7 DEF Interrupt, VInv, NothingFromTheFuture, GivenIsOldest, UnracedIsFresh, UnracedReload, Given
<1>8. ASSUME NEW t \in Threads, NEW k \in Keys, CallGet(t, k) \/ CallReload(t, k)
      PROVE  VInv'
  <2>1. /\ pc'[t] \in {"lookup", "evict"} /\ key'[t] = k
        /\ UNCHANGED <<disk, cache, built, answer>>
        /\ asked'[t] = NotReload \/ (asked'[t] = disk[k] /\ pc'[t] = "evict")
    BY <1>8 DEF CallGet, CallReload
  <2>2. \A u \in Threads \ {t} :
          pc'[u] = pc[u] /\ key'[u] = key[u] /\ asked'[u] = asked[u] /\ raced'[u] = raced[u]
    BY <1>8 DEF CallGet, CallReload
  <2>3. NothingFromTheFuture'
    BY <2>1, <2>2 DEF VInv, NothingFromTheFuture, Given
  <2>4. GivenIsOldest'
    BY <2>1, <2>2 DEF VInv, GivenIsOldest, Given
  <2>5. ASSUME NEW r \in Threads
        PROVE  /\ asked'[r] # NotReload => asked'[r] <= disk'[key'[r]]
               /\ UnracedReload(r)' /\ pc'[r] # "evict" /\ pc'[r] # "idle" =>
                    /\ cache'[key'[r]] # NoBaseline => asked'[r] <= cache'[key'[r]]
                    /\ \A u \in Threads :
                         pc'[u] = "publish" /\ key'[u] = key'[r] => asked'[r] <= built'[u]
               /\ UnracedReload(r)' /\ pc'[r] = "idle" /\ answer'[r] # Failed
                    => asked'[r] <= answer'[r]
    <3>1. CASE r = t
      BY <2>1, <3>1 DEF UnracedReload
    <3>2. CASE r # t
      BY <2>1, <2>2, <3>2 DEF VInv, UnracedIsFresh, UnracedReload
    <3> QED BY <3>1, <3>2
  <2>6. UnracedIsFresh'
    BY <2>5 DEF UnracedIsFresh
  <2> QED BY <2>3, <2>4, <2>6 DEF VInv
<1>9. CASE \E k \in Keys : Edit(k)
  BY <1>9 DEF Edit, VInv, NothingFromTheFuture, GivenIsOldest, UnracedIsFresh, UnracedReload, Given
<1>10. CASE \E k \in Keys : EvictOne(k)
  BY <1>10 DEF EvictOne, VInv, NothingFromTheFuture, GivenIsOldest, UnracedIsFresh, UnracedReload, Given
<1>11. CASE \E roots \in RootChoices : EvictCwd(roots)
  BY <1>11 DEF EvictCwd, VInv, NothingFromTheFuture, GivenIsOldest, UnracedIsFresh, UnracedReload, Given
<1>12. ASSUME NEW t \in Threads, Publish(t) \/ Abort(t) PROVE VInv'
  <2> DEFINE next == [pc EXCEPT ![t] = "idle"]
  <2>1. next \in [Threads -> PCs] /\ next[t] = "idle" /\ \A u \in Threads \ {t} : next[u] = pc[u]
    BY DEF PCs
  <2>2. pc' = Wake(key[t], next)
    BY <1>12 DEF Publish, Abort
  <2>3. /\ pc'[t] = "idle"
        /\ \A u \in Threads \ {t} : /\ pc'[u] = "idle" <=> pc[u] = "idle"
                                    /\ pc'[u] = "publish" <=> pc[u] = "publish"
                                    /\ pc'[u] = "evict" <=> pc[u] = "evict"
    <3> HIDE DEF next
    <3> QED BY <2>1, <2>2, WokenAreNotIdle
  <2>4. CASE Publish(t)
    <3>1. \A u \in Threads \ {t} : pc[u] = "publish" => key[u] # key[t]
      BY <2>4 DEF Publish, Building
    <3>2. NothingFromTheFuture'
      BY <2>3, <2>4 DEF Publish, VInv, NothingFromTheFuture, Given
    <3>3. GivenIsOldest'
      <4>1. ASSUME NEW r \in Threads, NEW k \in Keys, Given(r, k)', cache'[k] # NoBaseline
            PROVE  answer'[r] <= cache'[k]
        <5>1. CASE r = t
          BY <2>4, <4>1, <5>1 DEF Publish, Given
        <5>2. CASE r # t
          <6>1. Given(r, k) /\ answer'[r] = answer[r]
            BY <2>3, <2>4, <4>1, <5>2 DEF Publish, Given
          <6> QED BY <2>4, <4>1, <6>1 DEF Publish, VInv, GivenIsOldest
        <5> QED BY <5>1, <5>2
      <4>2. ASSUME NEW r \in Threads, NEW u \in Threads, Given(r, key[u])', pc'[u] = "publish"
            PROVE  answer'[r] <= built'[u]
        <5>1. u # t /\ key[u] # key[t] /\ pc[u] = "publish"
          BY <2>3, <3>1, <4>2
        <5>2. r # t /\ Given(r, key[u])
          BY <2>3, <2>4, <4>2, <5>1 DEF Publish, Given
        <5> QED BY <2>4, <5>1, <5>2 DEF Publish, VInv, GivenIsOldest
      <4>3. key' = key
        BY <2>4 DEF Publish
      <4>4. ASSUME NEW r \in Threads, NEW u \in Threads
            PROVE  Given(r, key[u])' <=> (pc'[r] = "idle" /\ key'[r] = key'[u] /\ answer'[r] >= 0)
        BY DEF Given
      <4> HIDE DEF IInv, TypeOK, BuildersRegistered, InFlightMeansEmpty, PublishesVersion
      <4> QED BY <4>1, <4>2, <4>3, <4>4 DEF GivenIsOldest, Given
    <3>4. UnracedIsFresh'
      BY <2>3, <2>4, <3>1 DEF Publish, VInv, UnracedIsFresh, UnracedReload
    <3> QED BY <3>2, <3>3, <3>4 DEF VInv
  <2>5. CASE Abort(t)
    <3>1. ASSUME NEW r \in Threads, NEW k \in Keys, Given(r, k)'
          PROVE  r # t /\ Given(r, k) /\ answer'[r] = answer[r]
      <4>1. answer' = [answer EXCEPT ![t] = -2] /\ key' = key
        BY <2>5 DEF Abort
      <4>2. pc'[r] = "idle" /\ key'[r] = k /\ answer'[r] >= 0
        BY <3>1 DEF Given
      <4>3. r # t
        BY <4>1, <4>2
      <4> QED BY <2>3, <4>1, <4>2, <4>3 DEF Given
    <3>2. NothingFromTheFuture'
      BY <2>3, <2>5, <3>1 DEF Abort, VInv, NothingFromTheFuture
    <3>3. GivenIsOldest'
      BY <2>3, <2>5, <3>1 DEF Abort, VInv, GivenIsOldest
    <3>4. UnracedIsFresh'
      BY <2>3, <2>5 DEF Abort, VInv, UnracedIsFresh, UnracedReload
    <3> QED BY <3>2, <3>3, <3>4 DEF VInv
  <2> QED BY <1>12, <2>4, <2>5
<1>13. CASE UNCHANGED vars
  BY <1>13 DEF vars, VInv, NothingFromTheFuture, GivenIsOldest, UnracedIsFresh, UnracedReload, Given
<1> QED BY <1>1, <1>2, <1>3, <1>4, <1>5, <1>6, <1>7, <1>8, <1>9, <1>10, <1>11, <1>12, <1>13
        DEF Next, Step

(* The invariant that orders the versions of tree, cache and answers.      *)
THEOREM VersionInvariance == Spec => []VInv
  BY InitVInv, NextVInv, Invariance, PTL DEF Spec

(* What is published for a request is never older than what a caller was   *)
(* given for it before.                                                    *)
THEOREM PublishedVersionsAdvance == Spec => NoTimeTravel
<1>1. IInv /\ VInv /\ [Next]_vars =>
        [\A k \in Keys, t \in Threads :
           /\ pc[t] = "idle" /\ key[t] = k /\ answer[t] >= 0
           /\ cache'[k] # cache[k] /\ cache'[k] # NoBaseline
           => cache'[k] >= answer[t]]_vars
  <2> SUFFICES ASSUME IInv, VInv, Next, NEW k \in Keys, NEW t \in Threads,
                      Given(t, k), cache'[k] # cache[k], cache'[k] # NoBaseline
               PROVE  cache'[k] >= answer[t]
    BY DEF Given
  <2>1. PICK u \in Threads : Publish(u) /\ key[u] = k /\ cache'[k] = built[u]
    BY DEF Next, Step, IInv, TypeOK, Edit, CallGet, CallReload, ReloadEvict, EvictOne,
       EvictCwd, LookupHit, LookupWait, LookupBuild, BuildReads, BuildRaises, Publish,
       Abort, Interrupt
  <2>2. answer[t] <= built[u]
    BY <2>1 DEF Publish, VInv, GivenIsOldest
  <2> QED BY <2>1, <2>2 DEF IInv, TypeOK, PublishesVersion, Publish, NoBaseline, Failed
<1> QED BY <1>1, Invariance, VersionInvariance, PTL DEF Spec, NoTimeTravel

(* A reload that found no build in flight returns a workspace read after   *)
(* it was called.                                                          *)
THEOREM UnracedReloadsAreFresh == Spec => []UnracedReloadIsFresh
<1>1. IInv /\ VInv => UnracedReloadIsFresh
  BY DEF IInv, TypeOK, VInv, UnracedIsFresh, UnracedReload, UnracedReloadIsFresh,
     NoBaseline, NotReload, Failed
<1> QED BY <1>1, Invariance, VersionInvariance, PTL

--------------------------------------------------------------------------------
(* A waiter has a registered event and, when builds are not interrupted, a *)
(* registered event has a builder that will set it.                        *)
EventsOwned ==
  \A k \in Keys : inFlight[k] # Nobody =>
    /\ inFlight[k] \in Threads
    /\ pc[inFlight[k]] \in Building
    /\ key[inFlight[k]] = k

WaitersRegistered == \A t \in Threads : pc[t] = "wait" => inFlight[key[t]] # Nobody

WInv == (~Interruptible => EventsOwned) /\ WaitersRegistered

LEMMA NextWInv == IInv /\ WInv /\ [Next]_vars => WInv'
<1> SUFFICES ASSUME IInv, WInv, [Next]_vars PROVE WInv' OBVIOUS
<1> USE ConstantsOK DEF IInv, TypeOK, Building
<1>1. CASE \E t \in Threads : LookupBuild(t)
  BY <1>1 DEF LookupBuild, WInv, EventsOwned, WaitersRegistered
<1>2. CASE \E t \in Threads : LookupWait(t)
  BY <1>2 DEF LookupWait, WInv, EventsOwned, WaitersRegistered
<1>3. CASE \E t \in Threads : ReloadEvict(t) \/ LookupHit(t)
  BY <1>3 DEF ReloadEvict, LookupHit, WInv, EventsOwned, WaitersRegistered
<1>4. CASE \E t \in Threads : BuildReads(t) \/ BuildRaises(t)
  BY <1>4 DEF BuildReads, BuildRaises, WInv, EventsOwned, WaitersRegistered
<1>5. CASE \E t \in Threads, k \in Keys : CallGet(t, k) \/ CallReload(t, k)
  BY <1>5 DEF CallGet, CallReload, WInv, EventsOwned, WaitersRegistered
<1>6. CASE \/ \E k \in Keys : Edit(k) \/ EvictOne(k)
           \/ \E roots \in RootChoices : EvictCwd(roots)
           \/ UNCHANGED vars
  BY <1>6 DEF Edit, EvictOne, EvictCwd, vars, WInv, EventsOwned, WaitersRegistered
<1>7. CASE \E t \in Threads : Publish(t) \/ Abort(t)
  BY <1>7 DEF Publish, Abort, Wake, WInv, EventsOwned, WaitersRegistered, BuildersRegistered
<1>8. CASE \E t \in Threads : Interrupt(t)
  BY <1>8 DEF Interrupt, WInv, EventsOwned, WaitersRegistered
<1> QED BY <1>1, <1>2, <1>3, <1>4, <1>5, <1>6, <1>7, <1>8 DEF Next, Step

(* No thread waits on an event that nobody is going to set, except on that *)
(* of an interrupted build.                                                *)
THEOREM NobodyWaitsAlone == Spec => []NoOrphanWaiter
<1>1. Init => WInv
  BY DEF Init, WInv, EventsOwned, WaitersRegistered
<1>2. IInv /\ WInv => NoOrphanWaiter
  BY DEF IInv, TypeOK, WInv, EventsOwned, WaitersRegistered, NoOrphanWaiter, Abandoned
<1>3. IInv /\ WInv /\ [Next]_vars => WInv'
  BY NextWInv
<1> QED BY <1>1, <1>2, <1>3, Invariance, PTL DEF Spec
================================================================================
