-------------------------- MODULE CacheAndLookupProofs --------------------------
(***************************************************************************)
(* Theorems about how a workspace is got and how its labels are found:     *)
(* WorkspaceCache, for any number of processes, calls, interruptions and   *)
(* deaths, and EntityLookup, for any files, roots, labels and assignments. *)
(***************************************************************************)
EXTENDS WorkspaceCache, EntityLookup,
        SequenceTheorems, FiniteSetTheorems, NaturalsInduction, WellFoundedInduction, TLAPS

--------------------------------------------------------------------------------
(* The entry of a commit (WorkspaceCache).                                 *)

(* A lock file without an owner is the mark of a death.                    *)
StaleMeansMishap == lock = Stale => mishaps > 0

(* What the holder knows of the directory as it goes on; the user may have *)
(* removed it under the holder's feet.                                     *)
HolderKnowsTree ==
  \A c \in Callers :
    /\ pc[c] \in {"meta", "release"} => tree \in {"whole", "absent"}
    /\ pc[c] = "giveup" => tree = "absent" \/ "leftover" \in setbacks

IInv == TypeOK /\ MutualExclusion /\ StaleMeansMishap /\ HolderKnowsTree
               /\ SettledEntryIsWhole

LEMMA InitIInv == Init => IInv
<1> SUFFICES ASSUME Init PROVE IInv OBVIOUS
<1>1. TypeOK
  BY DEF Init, TypeOK, PCs, Outcomes, Trees
<1>2. MutualExclusion /\ HolderKnowsTree
  BY DEF Init, MutualExclusion, HolderKnowsTree, Locked
<1>3. StaleMeansMishap /\ SettledEntryIsWhole
  BY ConstantsOK DEF Init, StaleMeansMishap, SettledEntryIsWhole
<1> QED BY <1>1, <1>2, <1>3 DEF IInv

(* The steps taken without the lock leave the directory and the lock file  *)
(* alone, except that AcquireLock takes the lock.                          *)
LEMMA OutsideSteps ==
  ASSUME IInv, NEW c \in Callers,
         \/ Call(c) \/ CheckDir(c) \/ CheckSentinel(c) \/ AcquireLock(c)
         \/ LockBusy(c) \/ Load(c)
  PROVE  IInv'
<1> USE ConstantsOK DEF IInv, TypeOK, MutualExclusion, StaleMeansMishap, HolderKnowsTree,
        SettledEntryIsWhole, PCs, Locked, Outcomes, Goto, End
<1>1. CASE Call(c)
  BY <1>1 DEF Call
<1>2. CASE CheckDir(c)
  BY <1>2 DEF CheckDir
<1>3. CASE CheckSentinel(c)
  BY <1>3 DEF CheckSentinel
<1>4. CASE AcquireLock(c)
  BY <1>4 DEF AcquireLock
<1>5. CASE LockBusy(c)
  BY <1>5 DEF LockBusy
<1>6. CASE Load(c)
  BY <1>6 DEF Load
<1> QED BY <1>1, <1>2, <1>3, <1>4, <1>5, <1>6

(* The steps of the holder: everything it does to the directory happens    *)
(* while nobody else is between acquire_lock and release_lock.             *)
LEMMA HolderSteps ==
  ASSUME IInv, NEW c \in Callers,
         \/ Clone(c) \/ Sparse(c) \/ Fetch(c) \/ Checkout(c) \/ GitFails(c)
         \/ WriteMetadata(c) \/ MetadataFails(c) \/ Cleanup(c) \/ ReleaseLock(c)
  PROVE  IInv'
<1> USE ConstantsOK DEF IInv, TypeOK, MutualExclusion, StaleMeansMishap, HolderKnowsTree,
        SettledEntryIsWhole, PCs, Locked, Outcomes, Trees, Goto, End, Setback
<1>1. CASE Clone(c)
  BY <1>1 DEF Clone
<1>2. CASE Sparse(c)
  BY <1>2 DEF Sparse
<1>3. CASE Fetch(c)
  BY <1>3 DEF Fetch
<1>4. CASE Checkout(c)
  BY <1>4 DEF Checkout
<1>5. CASE GitFails(c)
  BY <1>5 DEF GitFails
<1>6. CASE WriteMetadata(c)
  BY <1>6 DEF WriteMetadata
<1>7. CASE MetadataFails(c)
  BY <1>7 DEF MetadataFails
<1>8. CASE Cleanup(c)
  BY <1>8 DEF Cleanup
<1>9. CASE ReleaseLock(c)
  BY <1>9 DEF ReleaseLock
<1> QED BY <1>1, <1>2, <1>3, <1>4, <1>5, <1>6, <1>7, <1>8, <1>9

LEMMA MishapSteps ==
  ASSUME IInv,
         \/ \E c \in Callers : Interrupt(c) \/ Kill(c) \/ UserDeletesTree(c)
         \/ UserDeletesLock
         \/ UNCHANGED vars
  PROVE  IInv'
<1> USE ConstantsOK DEF IInv, TypeOK, MutualExclusion, StaleMeansMishap, HolderKnowsTree,
        SettledEntryIsWhole, PCs, Locked, Outcomes, Trees, Goto, End
<1>1. CASE \E c \in Callers : Interrupt(c)
  BY <1>1 DEF Interrupt
<1>2. CASE \E c \in Callers : Kill(c)
  BY <1>2 DEF Kill
<1>3. CASE \E c \in Callers : UserDeletesTree(c)
  BY <1>3 DEF UserDeletesTree
<1>4. CASE UserDeletesLock
  BY <1>4 DEF UserDeletesLock
<1>5. CASE UNCHANGED vars
  BY <1>5 DEF vars
<1> QED BY <1>1, <1>2, <1>3, <1>4, <1>5

LEMMA NextIInv == IInv /\ [Next]_vars => IInv'
  BY OutsideSteps, HolderSteps, MishapSteps DEF Next, Step

(* The inductive invariant holds in every reachable state of the cache     *)
(* entry.                                                                  *)
THEOREM Invariance == Spec => []IInv
  BY InitIInv, NextIInv, PTL DEF Spec

--------------------------------------------------------------------------------
(* The entry, its lock file and the callers' state keep their types.       *)
THEOREM TypeCorrect == Spec => []TypeOK
  BY Invariance, PTL DEF IInv

(* The lock file excludes.                                                 *)
THEOREM LockExcludes == Spec => []MutualExclusion
  BY Invariance, PTL DEF IInv

(* An unlocked entry is complete, missing or what a cleanup left behind,   *)
(* unless a holder was interrupted or killed.                              *)
THEOREM UnlockedEntryIsWhole == Spec => []SettledEntryIsWhole
  BY Invariance, PTL DEF IInv

--------------------------------------------------------------------------------
(* Only the user, following the advice of CorruptCacheError, can change    *)
(* the directory under a holder; as long as no user did, the metadata is   *)
(* written next to a full checkout.                                        *)
MetaMeansWhole ==
  \A c \in Callers : pc[c] = "meta" => tree = "whole" \/ "deletion" \in setbacks

LEMMA NextMetaMeansWhole ==
  IInv /\ MetaMeansWhole /\ [Next]_vars => MetaMeansWhole'
<1> SUFFICES ASSUME IInv, MetaMeansWhole, [Next]_vars PROVE MetaMeansWhole' OBVIOUS
<1> USE ConstantsOK DEF IInv, TypeOK, MutualExclusion, MetaMeansWhole, Locked, Goto, End, Setback
<1>1. ASSUME NEW c \in Callers,
             Call(c) \/ CheckDir(c) \/ CheckSentinel(c) \/ AcquireLock(c) \/ LockBusy(c) \/ Load(c)
      PROVE  MetaMeansWhole'
  BY <1>1 DEF Call, CheckDir, CheckSentinel, AcquireLock, LockBusy, Load
<1>2. ASSUME NEW c \in Callers,
             Clone(c) \/ Sparse(c) \/ Fetch(c) \/ Checkout(c) \/ GitFails(c)
      PROVE  MetaMeansWhole'
  BY <1>2 DEF Clone, Sparse, Fetch, Checkout, GitFails
<1>3. ASSUME NEW c \in Callers,
             WriteMetadata(c) \/ MetadataFails(c) \/ Cleanup(c) \/ ReleaseLock(c)
      PROVE  MetaMeansWhole'
  BY <1>3 DEF WriteMetadata, MetadataFails, Cleanup, ReleaseLock
<1>4. ASSUME NEW c \in Callers, Interrupt(c) \/ Kill(c) \/ UserDeletesTree(c)
      PROVE  MetaMeansWhole'
  BY <1>4 DEF Interrupt, Kill, UserDeletesTree
<1>5. CASE UserDeletesLock \/ UNCHANGED vars
  BY <1>5 DEF UserDeletesLock, vars
<1> QED BY <1>1, <1>2, <1>3, <1>4, <1>5 DEF Next, Step

(* write_metadata only ever records a full checkout, as long as no user    *)
(* deletes the directory while it is being built.                          *)
THEOREM MetadataIsForWholeTree == Spec => MetadataNamesWholeTree
<1>1. Init => MetaMeansWhole
  BY DEF Init, MetaMeansWhole
<1>2. IInv /\ MetaMeansWhole /\ [Next]_vars => MetaMeansWhole'
  BY NextMetaMeansWhole
<1>3. MetaMeansWhole /\ [Next]_vars =>
        [meta' # meta => meta' /\ (tree = "whole" \/ "deletion" \in setbacks)]_vars
  <2> SUFFICES ASSUME MetaMeansWhole, Next, meta' # meta
               PROVE  meta' /\ (tree = "whole" \/ "deletion" \in setbacks)
    OBVIOUS
  <2>1. PICK c \in Callers : WriteMetadata(c)
    BY DEF Next, Step, Call, CheckDir, CheckSentinel, AcquireLock, LockBusy, Load, Clone,
       Sparse, Fetch, Checkout, GitFails, MetadataFails, Cleanup, ReleaseLock, Interrupt,
       Kill, UserDeletesTree, UserDeletesLock
  <2> QED BY <2>1 DEF WriteMetadata, MetaMeansWhole
<1> QED BY <1>1, <1>2, <1>3, Invariance, PTL DEF Spec, MetadataNamesWholeTree
--------------------------------------------------------------------------------
(* A lock file made by a caller is removed by that caller before it leaves *)
(* the critical section.                                                   *)
LockHasHolder == lock \in Callers => pc[lock] \in Locked

(* What a cleanup left behind is something.                                *)
LeftoverIsThere ==
  "leftover" \in setbacks => "removal" \in setbacks /\ tree # "absent"

(* As long as calls come one after the other and none is interrupted, the  *)
(* caller that passed the sentinel test, or wrote the metadata, has a full *)
(* checkout before it until its workspace is loaded, or what a cleanup     *)
(* left behind.                                                            *)
OneAtATime == \A c, d \in Callers : pc[c] # "idle" /\ pc[d] # "idle" => c = d

CleanOutcomes ==
  \A c \in Callers :
    \/ outcome[c] \in {"none", "loaded", "giterror"}
    \/ "removal" \in setbacks /\ outcome[c] \in {"corrupt", "half-loaded"}

CallerHasWhole ==
  \A c \in Callers :
    /\ pc[c] \in {"meta", "release"} => tree = "whole"
    /\ pc[c] \in {"sentinel", "load"} => tree = "whole" \/ "leftover" \in setbacks
    /\ pc[c] = "load" => Sentinel

SerialInv ==
  /\ LockHasHolder /\ LeftoverIsThere
  /\ serial => OneAtATime
  /\ serial /\ mishaps = 0 /\ HasRoots /\ "deletion" \notin setbacks
       => CleanOutcomes /\ CallerHasWhole

LEMMA InitSerialInv == Init => SerialInv
  BY ConstantsOK
  DEF Init, SerialInv, LockHasHolder, LeftoverIsThere, OneAtATime, CleanOutcomes, CallerHasWhole

LEMMA LockHasHolderSteps == IInv /\ LockHasHolder /\ [Next]_vars => LockHasHolder'
<1> SUFFICES ASSUME IInv, LockHasHolder, [Next]_vars PROVE LockHasHolder' OBVIOUS
<1> USE ConstantsOK DEF IInv, TypeOK, MutualExclusion, LockHasHolder, Locked, Goto, End, Setback
<1>1. ASSUME NEW c \in Callers,
             Call(c) \/ CheckDir(c) \/ CheckSentinel(c) \/ AcquireLock(c) \/ LockBusy(c) \/ Load(c)
      PROVE  LockHasHolder'
  BY <1>1 DEF Call, CheckDir, CheckSentinel, AcquireLock, LockBusy, Load
<1>2. ASSUME NEW c \in Callers,
             Clone(c) \/ Sparse(c) \/ Fetch(c) \/ Checkout(c) \/ GitFails(c)
      PROVE  LockHasHolder'
  BY <1>2 DEF Clone, Sparse, Fetch, Checkout, GitFails
<1>3. ASSUME NEW c \in Callers,
             WriteMetadata(c) \/ MetadataFails(c) \/ Cleanup(c) \/ ReleaseLock(c)
      PROVE  LockHasHolder'
  BY <1>3 DEF WriteMetadata, MetadataFails, Cleanup, ReleaseLock
<1>4. ASSUME NEW c \in Callers, Interrupt(c) \/ Kill(c) \/ UserDeletesTree(c)
      PROVE  LockHasHolder'
  BY <1>4 DEF Interrupt, Kill, UserDeletesTree
<1>5. CASE UserDeletesLock \/ UNCHANGED vars
  BY <1>5 DEF UserDeletesLock, vars
<1> QED BY <1>1, <1>2, <1>3, <1>4, <1>5 DEF Next, Step

(* Only a call that starts while another is running ends the seriality.    *)
LEMMA OneAtATimeSteps ==
  ASSUME IInv, serial => OneAtATime, [Next]_vars, serial'
  PROVE  serial /\ OneAtATime'
<1> USE DEF IInv, TypeOK, OneAtATime, Locked, Goto, End, Setback
<1>1. ASSUME NEW c \in Callers, Call(c)
      PROVE  serial /\ OneAtATime'
  BY <1>1 DEF Call
<1>2. ASSUME NEW c \in Callers,
             CheckDir(c) \/ CheckSentinel(c) \/ AcquireLock(c) \/ LockBusy(c) \/ Load(c)
      PROVE  serial /\ OneAtATime'
  BY <1>2 DEF CheckDir, CheckSentinel, AcquireLock, LockBusy, Load
<1>3. ASSUME NEW c \in Callers,
             Clone(c) \/ Sparse(c) \/ Fetch(c) \/ Checkout(c) \/ GitFails(c)
      PROVE  serial /\ OneAtATime'
  BY <1>3 DEF Clone, Sparse, Fetch, Checkout, GitFails
<1>4. ASSUME NEW c \in Callers,
             WriteMetadata(c) \/ MetadataFails(c) \/ Cleanup(c) \/ ReleaseLock(c)
      PROVE  serial /\ OneAtATime'
  BY <1>4 DEF WriteMetadata, MetadataFails, Cleanup, ReleaseLock
<1>5. ASSUME NEW c \in Callers, Interrupt(c) \/ Kill(c) \/ UserDeletesTree(c)
      PROVE  serial /\ OneAtATime'
  BY <1>5 DEF Interrupt, Kill, UserDeletesTree
<1>6. CASE UserDeletesLock \/ UNCHANGED vars
  BY <1>6 DEF UserDeletesLock, vars
<1> QED BY <1>1, <1>2, <1>3, <1>4, <1>5, <1>6 DEF Next, Step

LEMMA LeftoverSteps == LeftoverIsThere /\ [Next]_vars => LeftoverIsThere'
<1> SUFFICES ASSUME LeftoverIsThere, [Next]_vars PROVE LeftoverIsThere' OBVIOUS
<1> USE DEF LeftoverIsThere, Goto, End, Setback
<1>1. ASSUME NEW c \in Callers,
             Call(c) \/ CheckDir(c) \/ CheckSentinel(c) \/ AcquireLock(c) \/ LockBusy(c) \/ Load(c)
      PROVE  LeftoverIsThere'
  BY <1>1 DEF Call, CheckDir, CheckSentinel, AcquireLock, LockBusy, Load
<1>2. ASSUME NEW c \in Callers,
             Clone(c) \/ Sparse(c) \/ Fetch(c) \/ Checkout(c) \/ GitFails(c)
      PROVE  LeftoverIsThere'
  BY <1>2 DEF Clone, Sparse, Fetch, Checkout, GitFails
<1>3. ASSUME NEW c \in Callers,
             WriteMetadata(c) \/ MetadataFails(c) \/ Cleanup(c) \/ ReleaseLock(c)
      PROVE  LeftoverIsThere'
  BY <1>3 DEF WriteMetadata, MetadataFails, Cleanup, ReleaseLock
<1>4. ASSUME NEW c \in Callers, Interrupt(c) \/ Kill(c) \/ UserDeletesTree(c)
      PROVE  LeftoverIsThere'
  BY <1>4 DEF Interrupt, Kill, UserDeletesTree
<1>5. CASE UserDeletesLock \/ UNCHANGED vars
  BY <1>5 DEF UserDeletesLock, vars
<1> QED BY <1>1, <1>2, <1>3, <1>4, <1>5 DEF Next, Step

(* The caller of a serial call finds the lock free and an entry that is    *)
(* complete, missing or left behind.                                       *)
LEMMA SerialCallFindsEntrySettled ==
  ASSUME IInv, LockHasHolder, OneAtATime, mishaps = 0,
         NEW c \in Callers, pc[c] \notin Locked \cup {"idle"}
  PROVE  lock = Free /\ (tree \in {"absent", "whole"} \/ "leftover" \in setbacks)
<1>1. lock # Stale
  BY DEF IInv, StaleMeansMishap
<1>2. lock \notin Callers
  <2> SUFFICES ASSUME lock \in Callers PROVE FALSE OBVIOUS
  <2>1. pc[lock] \in Locked
    BY DEF LockHasHolder
  <2>2. pc[lock] # "idle" /\ lock # c
    BY <2>1 DEF Locked
  <2> QED BY <2>2 DEF OneAtATime
<1> QED BY <1>1, <1>2 DEF IInv, TypeOK, SettledEntryIsWhole

LEMMA CleanSteps ==
  ASSUME IInv, SerialInv, [Next]_vars, serial', mishaps' = 0, HasRoots,
         "deletion" \notin setbacks'
  PROVE  CleanOutcomes' /\ CallerHasWhole'
<1>1. serial /\ OneAtATime
  BY OneAtATimeSteps DEF SerialInv
<1>2. mishaps = 0 \/ mishaps + 1 = 0
  BY DEF IInv, TypeOK, Next, Step, vars, Call, CheckDir, CheckSentinel, AcquireLock, LockBusy,
     Load, Clone, Sparse, Fetch, Checkout, GitFails, WriteMetadata, MetadataFails, Cleanup,
     ReleaseLock, Interrupt, Kill, UserDeletesTree, UserDeletesLock
<1>3. mishaps = 0
  BY <1>2 DEF IInv, TypeOK
<1>0. "deletion" \notin setbacks
  BY DEF Next, Step, vars, Call, CheckDir, CheckSentinel, AcquireLock, LockBusy, Setback,
     Load, Clone, Sparse, Fetch, Checkout, GitFails, WriteMetadata, MetadataFails, Cleanup,
     ReleaseLock, Interrupt, Kill, UserDeletesTree, UserDeletesLock
<1>4. CleanOutcomes /\ CallerHasWhole /\ LockHasHolder /\ LeftoverIsThere
  BY <1>0, <1>1, <1>3 DEF SerialInv
<1> USE <1>1, <1>3, <1>4 DEF IInv, TypeOK, OneAtATime, CleanOutcomes, CallerHasWhole, Locked,
        LeftoverIsThere, Sentinel, Goto, End, Setback
<1>5. ASSUME NEW c \in Callers, Call(c)
      PROVE  CleanOutcomes' /\ CallerHasWhole'
  BY <1>5 DEF Call
<1>6. ASSUME NEW c \in Callers, CheckDir(c) \/ CheckSentinel(c) \/ LockBusy(c)
      PROVE  CleanOutcomes' /\ CallerHasWhole'
  <2>1. lock = Free /\ (tree \in {"absent", "whole"} \/ "leftover" \in setbacks)
    <3>1. pc[c] \notin Locked \cup {"idle"}
      BY <1>6 DEF CheckDir, CheckSentinel, LockBusy
    <3> QED BY <3>1, SerialCallFindsEntrySettled
  <2> QED BY <1>6, <2>1 DEF CheckDir, CheckSentinel, LockBusy, Sentinel
<1>7. ASSUME NEW c \in Callers, AcquireLock(c) \/ Load(c)
      PROVE  CleanOutcomes' /\ CallerHasWhole'
  BY <1>7 DEF AcquireLock, Load, Sentinel
<1>8. ASSUME NEW c \in Callers,
             Clone(c) \/ Sparse(c) \/ Fetch(c) \/ Checkout(c) \/ GitFails(c)
      PROVE  CleanOutcomes' /\ CallerHasWhole'
  BY <1>8 DEF Clone, Sparse, Fetch, Checkout, GitFails
<1>9. ASSUME NEW c \in Callers,
             WriteMetadata(c) \/ MetadataFails(c) \/ Cleanup(c) \/ ReleaseLock(c)
      PROVE  CleanOutcomes' /\ CallerHasWhole'
  BY <1>9 DEF WriteMetadata, MetadataFails, Cleanup, ReleaseLock
<1>10. ASSUME NEW c \in Callers, Interrupt(c) \/ Kill(c) \/ UserDeletesTree(c)
       PROVE  CleanOutcomes' /\ CallerHasWhole'
  BY <1>10 DEF Interrupt, Kill, UserDeletesTree
<1>11. CASE UserDeletesLock \/ UNCHANGED vars
  BY <1>11 DEF UserDeletesLock, vars
<1> QED BY <1>5, <1>6, <1>7, <1>8, <1>9, <1>10, <1>11 DEF Next, Step

LEMMA NextSerialInv == IInv /\ SerialInv /\ [Next]_vars => SerialInv'
<1> SUFFICES ASSUME IInv, SerialInv, [Next]_vars PROVE SerialInv' OBVIOUS
<1>1. LockHasHolder' /\ LeftoverIsThere'
  BY LockHasHolderSteps, LeftoverSteps DEF SerialInv
<1>2. serial' => OneAtATime'
  BY OneAtATimeSteps DEF SerialInv
<1>3. serial' /\ mishaps' = 0 /\ HasRoots /\ "deletion" \notin setbacks'
        => CleanOutcomes' /\ CallerHasWhole'
  BY CleanSteps
<1> QED BY <1>1, <1>2, <1>3 DEF SerialInv

(* Calls made one after the other, none interrupted, end with the whole    *)
(* workspace or with git's own error, and after an incomplete cleanup with *)
(* "corrupt" or with what was left behind.                                 *)
THEOREM SerialCallsEndClean == Spec => []SerialCallsAreClean
<1>1. SerialInv => SerialCallsAreClean
  BY DEF SerialInv, SerialCallsAreClean, CleanOutcomes
<1> QED BY <1>1, InitSerialInv, NextSerialInv, Invariance, PTL DEF Spec

--------------------------------------------------------------------------------
(* The entity of a label (EntityLookup).                                   *)

(* What the registry keeps: entries with their entities, and for each kind the *)
(* entity of a name, which is that of some entry of the kind and name.         *)
EntityType == [key : Kinds \X Files \X Names, rev : Nat, whole : BOOLEAN]
EntryType == [kind : Kinds, stem : Files, name : Names, entity : EntityType]
RegistryType == [all : Seq(EntryType), byName : [Kinds -> [Names -> EntityType \union {NoOne}]]]
Tabled(r) ==
  \A i \in DOMAIN r.all : \E j \in DOMAIN r.all :
    /\ r.all[j].kind = r.all[i].kind /\ r.all[j].name = r.all[i].name
    /\ r.byName[r.all[i].kind][r.all[i].name] = r.all[j].entity
RegistryOK(r) == r \in RegistryType /\ Tabled(r)

(* A set of numbers that is not empty has a least one.                         *)
LEMMA Least ==
  ASSUME NEW S \in SUBSET Nat, S # {}
  PROVE  Min(S) \in S /\ \A j \in S : Min(S) <= j
<1> DEFINE Above == {p \in Nat \X Nat : p[1] < p[2]}
<1>1. IsWellFoundedOn(Above, Nat)
  <2>1. Above = OpToRel(<, Nat)
    BY DEF OpToRel
  <2> QED BY <2>1, NatLessThanWellFounded
<1>2. PICK m \in S : \A k \in S : <<k, m>> \notin Above
  <2> HIDE DEF Above
  <2> QED BY <1>1, WFMin
<1>3. \A k \in S : m <= k
  <2> SUFFICES ASSUME NEW k \in S, k < m PROVE FALSE OBVIOUS
  <2>1. <<k, m>> \in Above
    OBVIOUS
  <2> QED BY <1>2, <2>1
<1> QED BY <1>3 DEF Min

(* Putting the chosen entries one after the other: the registry after the      *)
(* first i of them follows from the registry after i - 1.                      *)
PutSteps(f, r, es, chosen, n) ==
  [i \in 0..n |-> IF i = 0 THEN r ELSE IF i \in chosen THEN Put(f[i - 1], es[i]) ELSE f[i - 1]]

LEMMA StepsExist ==
  ASSUME NEW r, NEW es, NEW chosen, NEW n \in Nat
  PROVE  \E f : f = PutSteps(f, r, es, chosen, n)
<1> DEFINE Without == {m \in Nat : ~ \E f : f = PutSteps(f, r, es, chosen, m)}
<1> SUFFICES ASSUME Without # {} PROVE FALSE OBVIOUS
<1>1. PICK m \in Without : \A k \in Without : m <= k
  <2>1. Without \in SUBSET Nat
    OBVIOUS
  <2> HIDE DEF Without
  <2> QED BY <2>1, Least
<1>2. m # 0
  <2> DEFINE g == [i \in 0..0 |-> r]
  <2>1. g = PutSteps(g, r, es, chosen, 0)
    BY DEF PutSteps
  <2> QED BY <2>1
<1>3. m - 1 \in Nat /\ m - 1 \notin Without
  BY <1>1, <1>2
<1>4. PICK f : f = PutSteps(f, r, es, chosen, m - 1)
  BY <1>3
<1> DEFINE g == [i \in 0..m |-> IF i < m THEN f[i]
                               ELSE IF m \in chosen THEN Put(f[m - 1], es[m]) ELSE f[m - 1]]
<1>5. ASSUME NEW i \in 0..m
      PROVE  g[i] = IF i = 0 THEN r ELSE IF i \in chosen THEN Put(g[i - 1], es[i]) ELSE g[i - 1]
  <2>1. i < m => f[i] = IF i = 0 THEN r ELSE IF i \in chosen THEN Put(f[i - 1], es[i]) ELSE f[i - 1]
    BY <1>3, <1>4 DEF PutSteps
  <2>2. i # 0 => i - 1 \in 0..m /\ i - 1 < m
    OBVIOUS
  <2>3. i # 0 => g[i - 1] = f[i - 1]
    BY <2>2
  <2>4. CASE i < m
    BY <2>1, <2>3, <2>4
  <2>5. CASE i = m
    BY <1>2, <2>3, <2>5
  <2> QED BY <2>4, <2>5
<1>6. g = PutSteps(g, r, es, chosen, m)
  <2>1. g = [i \in 0..m |-> g[i]]
    OBVIOUS
  <2> HIDE DEF g
  <2> QED BY <1>5, <2>1 DEF PutSteps
<1> QED BY <1>6

(* Entry e put in its place.                                                   *)
LEMMA PutOK ==
  ASSUME NEW r, RegistryOK(r), NEW e \in EntryType
  PROVE  RegistryOK(Put(r, e))
<1> DEFINE a == r.all
           b == r.byName
           a1 == PutAll(a, e)
           b1 == PutName(b, e)
<1>1. /\ a \in Seq(EntryType) /\ b \in [Kinds -> [Names -> EntityType \union {NoOne}]]
      /\ Tabled(r)
  BY DEF RegistryOK, RegistryType
<1>2. /\ e.kind \in Kinds /\ e.name \in Names /\ e.entity \in EntityType
  BY DEF EntryType
<1>3. /\ b1 \in [Kinds -> [Names -> EntityType \union {NoOne}]]
      /\ b1[e.kind][e.name] = e.entity
      /\ \A k \in Kinds, n \in Names : <<k, n>> # <<e.kind, e.name>> => b1[k][n] = b[k][n]
  <2> HIDE DEF b
  <2> QED BY <1>1, <1>2 DEF PutName
<1> HIDE DEF a, b
<1>4. a1 \in Seq(EntryType)
  <2>1. CASE \E i \in DOMAIN a : SameKey(a[i], e)
    <3>1. a1 = [i \in DOMAIN a |-> IF SameKey(a[i], e) THEN e ELSE a[i]]
      BY <2>1 DEF PutAll
    <3>2. DOMAIN a = 1..Len(a) /\ Len(a) \in Nat
      BY <1>1
    <3> HIDE DEF a1
    <3> QED BY <1>1, <3>1, <3>2
  <2>2. CASE ~ \E i \in DOMAIN a : SameKey(a[i], e)
    BY <1>1, <2>2 DEF PutAll
  <2> QED BY <2>1, <2>2
<1>5. /\ \A i \in DOMAIN a : i \in DOMAIN a1 /\ (~SameKey(a[i], e) => a1[i] = a[i])
      /\ \E i \in DOMAIN a1 : a1[i] = e
      /\ \A i \in DOMAIN a1 : a1[i] = e \/ (i \in DOMAIN a /\ a1[i] = a[i])
  <2>1. CASE \E i \in DOMAIN a : SameKey(a[i], e)
    <3>1. a1 = [i \in DOMAIN a |-> IF SameKey(a[i], e) THEN e ELSE a[i]]
      BY <2>1 DEF PutAll
    <3> HIDE DEF a1
    <3> QED BY <2>1, <3>1
  <2>2. CASE ~ \E i \in DOMAIN a : SameKey(a[i], e)
    <3>1. a1 = Append(a, e)
      BY <2>2 DEF PutAll
    <3>2. /\ DOMAIN a = 1..Len(a) /\ DOMAIN a1 = 1..Len(a) + 1 /\ Len(a) \in Nat
          /\ \A i \in 1..Len(a) : a1[i] = a[i]
          /\ a1[Len(a) + 1] = e
      BY <1>1, <3>1
    <3> HIDE DEF a1
    <3> QED BY <3>2
  <2> QED BY <2>1, <2>2
<1>6. Put(r, e) = [all |-> a1, byName |-> b1]
  BY DEF Put, a, b
<1> HIDE DEF a1, b1
<1>7. ASSUME NEW i \in DOMAIN a1
      PROVE  \E j \in DOMAIN a1 : /\ a1[j].kind = a1[i].kind /\ a1[j].name = a1[i].name
                                  /\ b1[a1[i].kind][a1[i].name] = a1[j].entity
  <2>1. CASE a1[i].kind = e.kind /\ a1[i].name = e.name
    BY <1>3, <1>5, <2>1
  <2>2. CASE ~ (a1[i].kind = e.kind /\ a1[i].name = e.name)
    <3>1. i \in DOMAIN a /\ a1[i] = a[i]
      BY <1>5, <2>2
    <3>2. PICK j \in DOMAIN a : /\ a[j].kind = a[i].kind /\ a[j].name = a[i].name
                                /\ b[a[i].kind][a[i].name] = a[j].entity
      BY <1>1, <3>1 DEF Tabled, a, b
    <3>3. j \in DOMAIN a1 /\ a1[j] = a[j]
      BY <1>5, <2>2, <3>1, <3>2 DEF SameKey
    <3>4. a[i].kind \in Kinds /\ a[i].name \in Names
      <4>1. a[i] \in EntryType
        BY <1>1, <3>1
      <4> QED BY <4>1 DEF EntryType
    <3> QED BY <1>3, <2>2, <3>1, <3>2, <3>3, <3>4
  <2> QED BY <2>1, <2>2
<1> QED BY <1>3, <1>4, <1>6, <1>7 DEF RegistryOK, RegistryType, Tabled

LEMMA PutEachOK ==
  ASSUME NEW r, RegistryOK(r), NEW es, NEW chosen, Len(es) \in Nat,
         \A i \in chosen : es[i] \in EntryType
  PROVE  RegistryOK(PutEach(r, es, chosen))
<1> DEFINE n == Len(es)
           upto == CHOOSE f : f = PutSteps(f, r, es, chosen, n)
           Bad == {i \in 0..n : ~RegistryOK(upto[i])}
<1>1. upto = PutSteps(upto, r, es, chosen, n)
  BY StepsExist
<1>2. PutEach(r, es, chosen) = upto[n]
  BY DEF PutEach, PutSteps
<1> HIDE DEF upto
<1>3. \A i \in 0..n : upto[i] = IF i = 0 THEN r ELSE IF i \in chosen THEN Put(upto[i - 1], es[i])
                                ELSE upto[i - 1]
  BY <1>1 DEF PutSteps
<1>4. ASSUME Bad # {} PROVE FALSE
  <2>1. PICK m \in Bad : \A k \in Bad : m <= k
    <3>1. Bad \in SUBSET Nat
      OBVIOUS
    <3> HIDE DEF Bad
    <3> QED BY <1>4, <3>1, Least
  <2>2. m # 0
    BY <1>3
  <2>3. m - 1 \in 0..n /\ RegistryOK(upto[m - 1])
    BY <2>1, <2>2
  <2>4. RegistryOK(upto[m])
    BY <1>3, <2>2, <2>3, PutOK
  <2> QED BY <2>4
<1> QED BY <1>2, <1>4
--------------------------------------------------------------------------------
(* The positions of the entries that an anchor chooses from, and its choice.   *)
LEMMA ForemostIn ==
  ASSUME NEW r \in RegistryType, NEW found \in SUBSET (DOMAIN r.all), found # {}
  PROVE  \E i \in found : Foremost(r, found) = r.all[i]
<1> DEFINE Ranks == {Rank(r.all[i].kind) : i \in found}
           best == {i \in found : \A j \in found : Rank(r.all[i].kind) <= Rank(r.all[j].kind)}
<1>1. \A k : Rank(k) \in Nat
  BY DEF Rank
<1>2. PICK m \in Ranks : \A q \in Ranks : m <= q
  <2>1. Ranks \in SUBSET Nat /\ Ranks # {}
    BY <1>1
  <2> HIDE DEF Ranks
  <2> QED BY <2>1, Least
<1>3. best # {}
  BY <1>2
<1>4. best \in SUBSET Nat
  BY DEF RegistryType
<1>5. Min(best) \in best
  <2> HIDE DEF best
  <2> QED BY <1>3, <1>4, Least
<1>6. Foremost(r, found) = r.all[Min(best)]
  BY DEF Foremost
<1> QED BY <1>5, <1>6

LEMMA PreferredIn ==
  ASSUME NEW r, NEW label, NEW found, found # {}
  PROVE  Preferred(r, label, found) # {} /\ Preferred(r, label, found) \in SUBSET found
BY DEF Preferred

(* An anchor in the registry is one of the entries that match the label.       *)
LEMMA AnchorMatches ==
  ASSUME NEW r \in RegistryType, NEW label, Anchor(r, label).how = "registry"
  PROVE  /\ label.name # ""
         /\ \E i \in Matches(r, label) : Anchor(r, label).entry = r.all[i]
<1> DEFINE found == Matches(r, label)
<1>1. /\ label.name # "" /\ found # {}
      /\ Anchor(r, label).entry = Foremost(r, Preferred(r, label, found))
  <2> HIDE DEF found
  <2>1. CASE label.name = ""
    BY <2>1 DEF Anchor
  <2>2. CASE label.name # "" /\ label.root \in Bare
    BY <2>2 DEF Anchor
  <2>3. CASE label.name # "" /\ label.root \notin Bare /\ label.root # "" /\ ~HasPlace(label.root)
    BY <2>3 DEF Anchor
  <2>4. CASE /\ label.name # "" /\ label.root \notin Bare
             /\ label.root # "" => HasPlace(label.root)
    <3>1. CASE found # {}
      <4>1. PICK e : e = Foremost(r, Preferred(r, label, found))
        OBVIOUS
      <4>2. Anchor(r, label) = [how |-> "registry", entry |-> e]
        BY <2>4, <3>1, <4>1 DEF Anchor, found
      <4>3. Anchor(r, label).entry = e
        BY <4>2
      <4> QED BY <2>4, <3>1, <4>1, <4>3
    <3>2. CASE found = {}
      BY <2>4, <3>2 DEF Anchor, found
    <3> QED BY <3>1, <3>2
  <2> QED BY <2>1, <2>2, <2>3, <2>4
<1>2. found \in SUBSET (DOMAIN r.all)
  BY DEF Matches
<1> HIDE DEF found
<1>3. /\ Preferred(r, label, found) # {} /\ Preferred(r, label, found) \in SUBSET (DOMAIN r.all)
      /\ Preferred(r, label, found) \in SUBSET found
  BY <1>1, <1>2, PreferredIn
<1>4. PICK i \in Preferred(r, label, found) : Foremost(r, Preferred(r, label, found)) = r.all[i]
  BY <1>3, ForemostIn
<1> QED BY <1>1, <1>3, <1>4 DEF found

LEMMA MatchesAre ==
  ASSUME NEW r, NEW label, NEW i \in Matches(r, label)
  PROVE  /\ i \in DOMAIN r.all /\ r.all[i].name = label.name
         /\ r.all[i].stem = StemOf(label) \/ Fits(label, r.all[i].stem)
BY DEF Matches

(* The type of the state, and what the registry's table of names holds.        *)
LookupInv ==
  /\ writes \in Nat /\ rel \in Rels
  /\ RegistryOK(reg)

LEMMA DefinitionsAre ==
  ASSUME NEW c \in Modules
  PROVE  /\ Len(c) \in Nat /\ DOMAIN c = 1..Len(c)
         /\ \A i \in DOMAIN c : c[i].kind \in Kinds /\ c[i].name \in Names \ {""}
<1> DEFINE D == [kind : Kinds, name : Names \ {""}]
<1>1. c \in Seq(D)
  BY LookupAssumption
<1> HIDE DEF D
<1>2. Len(c) \in Nat /\ DOMAIN c = 1..Len(c)
  BY <1>1
<1>3. \A i \in DOMAIN c : c[i] \in D
  BY <1>1
<1> QED BY <1>2, <1>3 DEF D

LEMMA EntriesAre ==
  ASSUME NEW r \in RegistryType, NEW i \in DOMAIN r.all
  PROVE  r.all[i] \in EntryType
<1>1. r.all \in Seq(EntryType)
  BY DEF RegistryType
<1> QED BY <1>1

LEMMA NamesNotEmpty == "" \notin Names
<1> SUFFICES ASSUME "" \in Names PROVE FALSE OBVIOUS
<1>1. PICK c \in Modules : \E d \in Range(c) : d.name = ""
  BY DEF Names
<1>2. PICK i \in DOMAIN c : c[i].name = ""
  BY <1>1 DEF Range
<1> QED BY <1>2, DefinitionsAre

LEMMA RegisteredOK ==
  ASSUME NEW r, RegistryOK(r), NEW f \in Files, NEW c \in Modules
  PROVE  RegistryOK(Registered(r, f, c))
<1> DEFINE es == [i \in DOMAIN c |->
                    Entry(c[i].kind, f, c[i].name,
                          [key |-> <<c[i].kind, f, c[i].name>>, rev |-> 0, whole |-> FALSE])]
<1>1. Len(c) \in Nat /\ DOMAIN c = 1..Len(c)
  BY DefinitionsAre
<1>2. \A i \in DOMAIN c : es[i] \in EntryType
  <2> SUFFICES ASSUME NEW i \in DOMAIN c PROVE es[i] \in EntryType OBVIOUS
  <2>1. c[i].kind \in Kinds /\ c[i].name \in Names
    BY DefinitionsAre
  <2> QED BY <2>1 DEF Entry, EntryType, EntityType
<1>3. Len(es) = Len(c)
  BY <1>1
<1>4. Registered(r, f, c) = PutEach(r, es, DOMAIN c)
  BY DEF Registered
<1> HIDE DEF es
<1> QED BY <1>1, <1>2, <1>3, <1>4, PutEachOK

LEMMA RebuiltOK ==
  ASSUME NEW r, RegistryOK(r)
  PROVE  RegistryOK(Rebuilt(r))
<1> DEFINE es == [i \in DOMAIN r.all |-> [r.all[i] EXCEPT !.entity.whole = TRUE]]
           chosen == {i \in DOMAIN r.all : r.all[i].kind \in {"task", "action"}}
<1>1. r.all \in Seq(EntryType)
  BY DEF RegistryOK, RegistryType
<1>2. \A i \in DOMAIN r.all : es[i] \in EntryType
  <2> SUFFICES ASSUME NEW i \in DOMAIN r.all PROVE es[i] \in EntryType OBVIOUS
  <2>1. r.all[i] \in EntryType
    BY <1>1
  <2> QED BY <2>1 DEF EntryType, EntityType
<1>3. Len(es) \in Nat
  BY <1>1
<1>4. Rebuilt(r) = PutEach(r, es, chosen)
  BY DEF Rebuilt, SetEntities
<1>5. \A i \in chosen : es[i] \in EntryType
  BY <1>2
<1> HIDE DEF es, chosen
<1> QED BY <1>3, <1>4, <1>5, PutEachOK

LEMMA StampedIs ==
  ASSUME NEW e \in EntryType, writes \in Nat
  PROVE  [e EXCEPT !.entity.rev = writes + 1] \in EntryType
BY DEF EntryType, EntityType

LEMMA WrittenOK ==
  ASSUME NEW r, RegistryOK(r), writes \in Nat, NEW labels, Len(labels) \in Nat,
         DOMAIN labels = 1..Len(labels),
         \A i \in DOMAIN labels : Anchor(r, labels[i]).how = "registry"
  PROVE  RegistryOK(Written(r, labels))
<1> DEFINE es == [i \in DOMAIN labels |->
                    [Anchor(r, labels[i]).entry EXCEPT !.entity.rev = writes + 1]]
           chosen == {i \in DOMAIN labels : \A j \in 1..(i - 1) : labels[j] # labels[i]}
<1>1. r \in RegistryType /\ r.all \in Seq(EntryType)
  BY DEF RegistryOK, RegistryType
<1>2. \A i \in DOMAIN labels : es[i] \in EntryType
  <2> SUFFICES ASSUME NEW i \in DOMAIN labels PROVE es[i] \in EntryType OBVIOUS
  <2>1. PICK k \in Matches(r, labels[i]) : Anchor(r, labels[i]).entry = r.all[k]
    BY <1>1, AnchorMatches
  <2>2. r.all[k] \in EntryType
    BY <1>1, MatchesAre
  <2>3. es[i] = [r.all[k] EXCEPT !.entity.rev = writes + 1]
    BY <2>1
  <2> HIDE DEF es
  <2> QED BY <2>2, <2>3, StampedIs
<1>3. Len(es) = Len(labels)
  OBVIOUS
<1>4. Written(r, labels) = PutEach(r, es, chosen)
  BY DEF Written, SetEntities
<1>5. \A i \in chosen : es[i] \in EntryType
  BY <1>2
<1> HIDE DEF es, chosen
<1> QED BY <1>3, <1>4, <1>5, PutEachOK
--------------------------------------------------------------------------------
(* Paths: what a prefix and a suffix are, token by token.                      *)
LEMMA PrefixIs ==
  ASSUME NEW T, NEW s \in Seq(T), NEW t \in Seq(T)
  PROVE  IsPrefix(s, t) <=> Len(s) <= Len(t) /\ \A i \in 1..Len(s) : s[i] = t[i]
<1>1. Len(s) \in Nat /\ Len(t) \in Nat
  BY LenProperties
<1>2. SubSeq(s, 1, Len(s)) = s
  BY SubSeqFull
<1>3. ASSUME Len(s) <= Len(t)
      PROVE  /\ SubSeq(t, 1, Len(s)) \in Seq(T) /\ Len(SubSeq(t, 1, Len(s))) = Len(s)
             /\ \A i \in 1..Len(s) : SubSeq(t, 1, Len(s))[i] = t[i]
  <2>1. \A i \in 1..Len(s) : t[i] \in T
    BY <1>1, <1>3, ElementOfSeq
  <2>2. /\ SubSeq(t, 1, Len(s)) \in Seq(T)
        /\ Len(SubSeq(t, 1, Len(s))) = IF 1 <= Len(s) THEN Len(s) - 1 + 1 ELSE 0
        /\ \A i \in 1..Len(s) - 1 + 1 : SubSeq(t, 1, Len(s))[i] = t[1 + i - 1]
    BY <1>1, <2>1, SubSeqProperties
  <2> QED BY <1>1, <2>2
<1>4. ASSUME IsPrefix(s, t) PROVE Len(s) <= Len(t) /\ \A i \in 1..Len(s) : s[i] = t[i]
  BY <1>2, <1>3, <1>4 DEF IsPrefix
<1>5. ASSUME Len(s) <= Len(t), \A i \in 1..Len(s) : s[i] = t[i] PROVE IsPrefix(s, t)
  <2>1. s = SubSeq(t, 1, Len(s))
    BY <1>3, <1>5, SeqEqual
  <2> QED BY <1>2, <1>5, <2>1 DEF IsPrefix
<1> QED BY <1>4, <1>5

LEMMA ReverseIs ==
  ASSUME NEW T, NEW s \in Seq(T)
  PROVE  /\ Reverse(s) \in Seq(T) /\ Len(Reverse(s)) = Len(s)
         /\ \A i \in 1..Len(s) : Reverse(s)[i] = s[(Len(s) - i) + 1]
<1>1. Len(s) \in Nat
  BY LenProperties
<1>2. \A i \in 1..Len(s) : s[(Len(s) - i) + 1] \in T
  <2> SUFFICES ASSUME NEW i \in 1..Len(s) PROVE s[(Len(s) - i) + 1] \in T OBVIOUS
  <2>1. (Len(s) - i) + 1 \in 1..Len(s)
    BY <1>1
  <2> QED BY <2>1, ElementOfSeq
<1>3. Reverse(s) = [i \in 1..Len(s) |-> s[(Len(s) - i) + 1]]
  BY DEF Reverse
<1>4. Reverse(s) \in [1..Len(s) -> T]
  BY <1>2, <1>3
<1> QED BY <1>1, <1>3, <1>4

LEMMA SuffixIs ==
  ASSUME NEW T, NEW s \in Seq(T), NEW t \in Seq(T), Len(s) <= Len(t),
         \A i \in 1..Len(s) : s[i] = t[(Len(t) - Len(s)) + i]
  PROVE  IsSuffix(s, t)
<1>1. Len(s) \in Nat /\ Len(t) \in Nat
  BY LenProperties
<1>2. ASSUME NEW i \in 1..Len(s) PROVE Reverse(s)[i] = Reverse(t)[i]
  <2>1. /\ (Len(s) - i) + 1 \in 1..Len(s) /\ i \in 1..Len(t)
        /\ (Len(t) - Len(s)) + ((Len(s) - i) + 1) = (Len(t) - i) + 1
    BY <1>1
  <2> QED BY <2>1, ReverseIs
<1>3. IsPrefix(Reverse(s), Reverse(t))
  <2>1. /\ Reverse(s) \in Seq(T) /\ Reverse(t) \in Seq(T)
        /\ Len(Reverse(s)) = Len(s) /\ Len(Reverse(t)) = Len(t)
    BY ReverseIs
  <2> QED BY <1>2, <2>1, PrefixIs
<1> QED BY <1>3 DEF IsSuffix

(* A path below a place begins with the place and ends with the path.          *)
LEMMA UnderFits ==
  ASSUME NEW place \in Seq(Tokens), NEW path \in Seq(Tokens)
  PROVE  IsPrefix(place, Under(place, path)) /\ IsSuffix(path, Under(place, path))
<1> DEFINE u == Under(place, path)
<1>1. /\ Len(place) \in Nat /\ Len(path) \in Nat
      /\ place = <<>> <=> Len(place) = 0
      /\ path = <<>> <=> Len(path) = 0
  BY LenProperties, EmptySeq
<1>2. CASE place = <<>>
  <2>1. u = path
    BY <1>2 DEF Under
  <2> HIDE DEF u
  <2>2. IsPrefix(place, path)
    <3>1. Len(place) <= Len(path) /\ \A i \in 1..Len(place) : place[i] = path[i]
      BY <1>1, <1>2
    <3> QED BY <3>1, PrefixIs
  <2>3. IsSuffix(path, path)
    BY <1>1, SuffixIs
  <2> QED BY <2>1, <2>2, <2>3 DEF u
<1>3. CASE place # <<>> /\ path = <<>>
  <2>1. u = place
    BY <1>3 DEF Under
  <2> HIDE DEF u
  <2>2. IsPrefix(place, place)
    BY <1>1, PrefixIs
  <2>3. IsSuffix(path, place)
    <3>1. /\ Len(path) <= Len(place)
          /\ \A i \in 1..Len(path) : path[i] = place[(Len(place) - Len(path)) + i]
      BY <1>1, <1>3
    <3> QED BY <3>1, SuffixIs
  <2> QED BY <2>1, <2>2, <2>3 DEF u
<1>4. CASE place # <<>> /\ path # <<>>
  <2> DEFINE p == place \o <<"/">>
  <2>1. u = p \o path
    BY <1>4 DEF Under
  <2>2. /\ p \in Seq(Tokens) /\ Len(p) = Len(place) + 1
        /\ \A i \in 1..Len(place) : p[i] = place[i]
    <3>1. <<"/">> \in Seq(Tokens) /\ Len(<<"/">>) = 1 /\ <<"/">>[1] = "/"
      <4>1. PICK t \in Tokens : t = "/"
        BY LookupAssumption
      <4>2. <<t>> \in Seq(Tokens) /\ Len(<<t>>) = 1 /\ <<t>>[1] = t
        OBVIOUS
      <4> QED BY <4>1, <4>2
    <3> QED BY <1>1, <3>1, ConcatProperties
  <2> HIDE DEF u, p
  <2>3. /\ u \in Seq(Tokens) /\ Len(u) = Len(p) + Len(path)
        /\ \A i \in 1..Len(p) + Len(path) :
             u[i] = IF i <= Len(p) THEN p[i] ELSE path[i - Len(p)]
    <3>1. /\ p \o path \in Seq(Tokens) /\ Len(p \o path) = Len(p) + Len(path)
          /\ \A i \in 1..Len(p) + Len(path) :
               (p \o path)[i] = IF i <= Len(p) THEN p[i] ELSE path[i - Len(p)]
      BY <2>2, ConcatProperties
    <3> QED BY <2>1, <3>1
  <2>4. IsPrefix(place, u)
    <3>1. ASSUME NEW i \in 1..Len(place) PROVE place[i] = u[i]
      <4>1. i \in 1..Len(p) + Len(path) /\ i <= Len(p)
        BY <1>1, <2>2
      <4> QED BY <2>2, <2>3, <4>1
    <3>2. Len(place) <= Len(u)
      BY <1>1, <2>2, <2>3
    <3> QED BY <2>3, <3>1, <3>2, PrefixIs
  <2>5. IsSuffix(path, u)
    <3>1. ASSUME NEW i \in 1..Len(path) PROVE path[i] = u[(Len(u) - Len(path)) + i]
      <4>1. (Len(u) - Len(path)) + i = Len(p) + i /\ Len(p) + i \in 1..Len(p) + Len(path)
            /\ ~(Len(p) + i <= Len(p)) /\ (Len(p) + i) - Len(p) = i
        BY <1>1, <2>2, <2>3
      <4> QED BY <2>3, <4>1
    <3>2. Len(path) <= Len(u)
      BY <1>1, <2>2, <2>3
    <3> QED BY <2>3, <3>1, <3>2, SuffixIs
  <2> QED BY <2>4, <2>5 DEF u
<1> QED BY <1>2, <1>3, <1>4

(* The rest of a file's path below a root ends it, and is empty for the root's *)
(* own path only.                                                              *)
LEMMA EndOf ==
  ASSUME NEW T, NEW f \in Seq(T), NEW k \in 1..Len(f) + 1
  PROVE  /\ SubSeq(f, k, Len(f)) \in Seq(T) /\ Len(SubSeq(f, k, Len(f))) = (Len(f) - k) + 1
         /\ \A i \in 1..(Len(f) - k) + 1 : SubSeq(f, k, Len(f))[i] = f[(k + i) - 1]
         /\ IsSuffix(SubSeq(f, k, Len(f)), f)
<1> DEFINE e == SubSeq(f, k, Len(f))
<1>1. Len(f) \in Nat
  BY LenProperties
<1>2. \A i \in k..Len(f) : f[i] \in T
  BY <1>1, ElementOfSeq
<1>3. /\ e \in Seq(T) /\ Len(e) = IF k <= Len(f) THEN Len(f) - k + 1 ELSE 0
      /\ \A i \in 1..Len(f) - k + 1 : e[i] = f[k + i - 1]
  BY <1>1, <1>2, SubSeqProperties
<1> HIDE DEF e
<1>4. Len(e) = (Len(f) - k) + 1
  BY <1>1, <1>3
<1>5. ASSUME NEW i \in 1..Len(e) PROVE e[i] = f[(Len(f) - Len(e)) + i]
  <2>1. i \in 1..Len(f) - k + 1 /\ (Len(f) - Len(e)) + i = k + i - 1
    BY <1>1, <1>4
  <2> QED BY <1>3, <2>1
<1>6. IsSuffix(e, f)
  <2>1. Len(e) <= Len(f)
    BY <1>1, <1>4
  <2> QED BY <1>3, <1>5, <2>1, SuffixIs
<1> QED BY <1>3, <1>4, <1>6 DEF e

LEMMA RestIs ==
  ASSUME NEW f \in Files, NEW r, HasPlace(r) => IsPrefix(Places[r], f)
  PROVE  /\ Rest(r, f) \in Seq(Tokens) /\ IsSuffix(Rest(r, f), f)
         /\ (HasPlace(r) => f # Places[r]) => Rest(r, f) # <<>>
<1>1. /\ f \in Seq(Tokens) /\ f # <<>> /\ f[Len(f)] # "/"
      /\ Len(f) \in Nat \ {0}
  BY LookupAssumption, EmptySeq
<1>2. CASE ~HasPlace(r)
  <2>1. IsSuffix(f, f)
    BY <1>1, SuffixIs
  <2> QED BY <1>1, <1>2, <2>1 DEF Rest
<1>3. CASE HasPlace(r)
  <2> DEFINE P == Places[r]
             k == Len(P) + 1
             e == SubSeq(f, k, Len(f))
  <2>1. /\ P \in Seq(Tokens) /\ Len(P) \in Nat
        /\ Len(P) <= Len(f) /\ \A i \in 1..Len(P) : P[i] = f[i]
    <3>1. P \in Seq(Tokens)
      BY <1>3, LookupAssumption DEF HasPlace
    <3> QED BY <1>1, <1>3, <3>1, PrefixIs, LenProperties
  <2>2. Rest(r, f) = IF e # <<>> /\ e[1] = "/" THEN Tail(e) ELSE e
    BY <1>3 DEF Rest, Stripped
  <2> HIDE DEF P
  <2>3. k \in 1..Len(f) + 1
    BY <1>1, <2>1
  <2>4. /\ e \in Seq(Tokens) /\ Len(e) = (Len(f) - k) + 1
        /\ \A i \in 1..(Len(f) - k) + 1 : e[i] = f[(k + i) - 1]
        /\ IsSuffix(e, f)
    BY <1>1, <2>3, EndOf
  <2>5. f # P => Len(P) < Len(f)
    BY <1>1, <2>1, SeqEqual
  <2> HIDE DEF e, k
  <2>6. CASE ~(e # <<>> /\ e[1] = "/")
    <3>1. Rest(r, f) = e
      BY <2>2, <2>6
    <3>2. f # P => Len(e) # 0
      BY <1>1, <2>1, <2>4, <2>5 DEF k
    <3>3. f # P => e # <<>>
      BY <3>2, EmptySeq
    <3> QED BY <1>3, <2>4, <3>1, <3>3 DEF P
  <2>7. CASE e # <<>> /\ e[1] = "/"
    <3>1. Rest(r, f) = Tail(e)
      BY <2>2, <2>7
    <3>2. /\ Tail(e) \in Seq(Tokens) /\ Len(Tail(e)) = Len(e) - 1
          /\ \A i \in 1..Len(Tail(e)) : Tail(e)[i] = e[i + 1]
          /\ Len(e) \in Nat \ {0}
      BY <2>4, <2>7, HeadTailProperties, EmptySeq
    <3>3. ASSUME Len(e) = 1 PROVE FALSE
      <4>0. Len(f) \in Int /\ k \in Int /\ (Len(f) - k) + 1 = 1
        <5>1. Len(f) \in Int
          BY <1>1
        <5>2. k \in Int
          BY <2>3, <5>1
        <5>3. Len(e) = (Len(f) - k) + 1
          BY <2>4
        <5>4. Len(e) = 1
          BY <3>3
        <5> QED BY <5>1, <5>2, <5>3, <5>4
      <4>1. k = Len(f)
        <5>1. \A m, n \in Int : (m - n) + 1 = 1 => n = m
          OBVIOUS
        <5> QED BY <4>0, <5>1
      <4>2. (k + 1) - 1 = k /\ 1 \in 1..(Len(f) - k) + 1
        BY <1>1, <4>1
      <4> QED BY <1>1, <2>4, <2>7, <4>1, <4>2
    <3>4. IsSuffix(Tail(e), f)
      <4> DEFINE t == Tail(e)
      <4>1. Len(t) <= Len(f) /\ Len(t) = Len(f) - k
        BY <1>1, <2>3, <2>4, <3>2
      <4> HIDE DEF t
      <4>2. ASSUME NEW i \in 1..Len(t) PROVE t[i] = f[(Len(f) - Len(t)) + i]
        <5>0. Len(f) \in Nat /\ k \in Nat /\ i \in Nat /\ i >= 1 /\ i <= Len(f) - k
          BY <1>1, <2>3, <4>1
        <5>1. /\ i + 1 \in 1..(Len(f) - k) + 1 /\ (k + (i + 1)) - 1 = k + i
              /\ (Len(f) - Len(t)) + i = k + i
          BY <4>1, <5>0
        <5>2. t[i] = e[i + 1]
          BY <3>2 DEF t
        <5> QED BY <2>4, <5>1, <5>2
      <4>3. t \in Seq(Tokens)
        BY <3>2 DEF t
      <4>4. IsSuffix(t, f)
        BY <1>1, <4>1, <4>2, <4>3, SuffixIs
      <4> QED BY <4>4 DEF t
    <3>5. Tail(e) # <<>>
      BY <3>2, <3>3
    <3> QED BY <3>1, <3>2, <3>4, <3>5
  <2> QED BY <2>6, <2>7
<1> QED BY <1>2, <1>3
--------------------------------------------------------------------------------
LEMMA InitLookup == LookupInit => LookupInv
<1> SUFFICES ASSUME LookupInit PROVE LookupInv OBVIOUS
<1>1. /\ reg = [all |-> <<>>, byName |-> [k \in Kinds |-> [n \in Names |-> NoOne]]]
      /\ writes = 0 /\ rel \in Rels
  BY DEF LookupInit
<1>2. reg.all \in Seq(EntryType) /\ DOMAIN reg.all = {}
  BY <1>1
<1>3. reg \in RegistryType
  BY <1>1, <1>2 DEF RegistryType
<1> QED BY <1>1, <1>2, <1>3 DEF LookupInv, RegistryOK, Tabled

LEMMA AnchorModule ==
  ASSUME NEW r, NEW label, Anchor(r, label).how = "module"
  PROVE  label.path \in Files
<1> SUFFICES ASSUME label.path \notin Files PROVE FALSE OBVIOUS
<1> DEFINE found == Matches(r, label)
<1>1. CASE label.name = ""
  BY <1>1 DEF Anchor
<1>2. CASE label.name # "" /\ label.root \in Bare
  BY <1>2 DEF Anchor
<1>3. CASE label.name # "" /\ label.root \notin Bare /\ label.root # "" /\ ~HasPlace(label.root)
  BY <1>3 DEF Anchor
<1>4. CASE /\ label.name # "" /\ label.root \notin Bare
           /\ label.root # "" => HasPlace(label.root)
  <2> HIDE DEF found
  <2>1. CASE found # {}
    <3>1. PICK e : e = Foremost(r, Preferred(r, label, found))
      OBVIOUS
    <3>2. Anchor(r, label) = [how |-> "registry", entry |-> e]
      BY <1>4, <2>1, <3>1 DEF Anchor, found
    <3> QED BY <3>2
  <2>2. CASE found = {}
    BY <1>4, <2>2 DEF Anchor, found
  <2> QED BY <2>1, <2>2
<1> QED BY <1>1, <1>2, <1>3, <1>4

LEMMA ImageIsFinite ==
  ASSUME NEW S, IsFiniteSet(S), NEW f, DOMAIN f = S
  PROVE  IsFiniteSet({f[x] : x \in S})
<1> DEFINE T == {f[x] : x \in S}
           g == [x \in S |-> f[x]]
<1>1. g \in Surjection(S, T)
  BY DEF Surjection
<1> HIDE DEF g
<1> QED BY <1>1, FS_Surjection

LEMMA InOrder ==
  ASSUME NEW r \in RegistryType, NEW label
  PROVE  LET labels == ExpandInOrder(r, label)
         IN Len(labels) \in Nat /\ DOMAIN labels = 1..Len(labels)
<1> DEFINE items == {[stem |-> e.stem, name |-> Concrete(label, e).name] : e \in Expanded(r, label)}
           sorted == ByStem(items)
           n == Cardinality(items)
<1>1. IsFiniteSet(DOMAIN r.all)
  <2>1. r.all \in Seq(EntryType)
    BY DEF RegistryType
  <2>2. DOMAIN r.all = 1..Len(r.all) /\ Len(r.all) \in Nat
    BY <2>1
  <2> QED BY <2>2, FS_Interval
<1>2. IsFiniteSet(Range(r.all))
  <2>1. Range(r.all) = {r.all[i] : i \in DOMAIN r.all}
    BY DEF Range
  <2> QED BY <1>1, <2>1, ImageIsFinite
<1>3. IsFiniteSet(Expanded(r, label))
  <2>1. Expanded(r, label) \subseteq Range(r.all)
    BY DEF Expanded, Candidates
  <2> QED BY <1>2, <2>1, FS_Subset
<1>4. IsFiniteSet(items)
  <2> DEFINE item == [e \in Expanded(r, label) |->
                       [stem |-> e.stem, name |-> Concrete(label, e).name]]
  <2>1. items = {item[e] : e \in Expanded(r, label)}
    OBVIOUS
  <2>2. DOMAIN item = Expanded(r, label)
    OBVIOUS
  <2> HIDE DEF item, items
  <2> QED BY <1>3, <2>1, <2>2, ImageIsFinite
<1>5. n \in Nat
  BY <1>4, FS_CardinalityType
<1>6. ExpandInOrder(r, label) = [i \in 1..n |-> Concrete(label, sorted[i])]
  BY DEF ExpandInOrder
<1> HIDE DEF n, sorted
<1> QED BY <1>5, <1>6

LEMMA SetfLookup ==
  ASSUME LookupInv, NEW label \in Labels, Setf(label)
  PROVE  LookupInv'
<1> DEFINE labels == IF label.wildcard THEN ExpandInOrder(reg, label) ELSE <<label>>
<1>1. /\ \A i \in DOMAIN labels : Anchor(reg, labels[i]).how = "registry"
      /\ reg' = Written(reg, labels) /\ writes' = writes + 1 /\ rel' = rel
  BY DEF Setf
<1>2. Len(labels) \in Nat /\ DOMAIN labels = 1..Len(labels)
  <2>1. CASE label.wildcard
    BY <2>1, InOrder DEF LookupInv, RegistryOK
  <2>2. CASE ~label.wildcard
    BY <2>2
  <2> QED BY <2>1, <2>2
<1> HIDE DEF labels
<1>3. RegistryOK(Written(reg, labels))
  BY <1>1, <1>2, WrittenOK DEF LookupInv
<1> QED BY <1>1, <1>3 DEF LookupInv

LEMMA NextLookup == LookupInv /\ [LookupNext]_lookupVars => LookupInv'
<1> SUFFICES ASSUME LookupInv, [LookupNext]_lookupVars PROVE LookupInv' OBVIOUS
<1>1. ASSUME NEW f \in Files, NEW c \in Modules, NEW symbols, Evaluated(f, c, symbols),
             rel' = rel, writes' \in Nat
      PROVE  LookupInv'
  BY <1>1, RegisteredOK DEF LookupInv, Evaluated
<1>2. ASSUME NEW f \in Files, NEW c \in Modules, LoadFile(f, c) PROVE LookupInv'
  BY <1>1, <1>2 DEF LoadFile, LookupInv
<1>3. CASE Finish
  BY <1>3, RebuiltOK DEF LookupInv, Finish
<1>4. ASSUME NEW label \in Labels, Setf(label) PROVE LookupInv'
  BY <1>4, SetfLookup
<1>5. ASSUME NEW label \in Labels, NEW c \in Modules, ResolveLoads(label, c) PROVE LookupInv'
  <2>1. label.path \in Files
    BY <1>5, AnchorModule DEF ResolveLoads
  <2>2. Evaluated(label.path, c, Symbols(label.path, c)) /\ rel' = rel /\ writes' \in Nat
    BY <1>5 DEF ResolveLoads, LookupInv
  <2> QED BY <1>1, <2>1, <2>2
<1>6. ASSUME NEW label \in Labels, NEW c \in Modules, SetfSymbol(label, c) PROVE LookupInv'
  <2>1. label.path \in Files
    BY <1>6, AnchorModule DEF SetfSymbol
  <2>2. PICK symbols : Evaluated(label.path, c, symbols)
    BY <1>6 DEF SetfSymbol
  <2>3. rel' = rel /\ writes' \in Nat
    BY <1>6 DEF SetfSymbol, LookupInv
  <2> QED BY <1>1, <2>1, <2>2, <2>3
<1>7. CASE UNCHANGED lookupVars
  BY <1>7 DEF lookupVars, LookupInv, RegistryOK, Tabled
<1> QED BY <1>2, <1>3, <1>4, <1>5, <1>6, <1>7 DEF LookupNext

(* The registry keeps its shape, and its table of names gives for each kind and *)
(* name that is registered the entity of an entry of that kind and name.       *)
THEOREM RegistryIsTabled == LookupSpec => []LookupInv
  BY InitLookup, NextLookup, PTL DEF LookupSpec

(* What show prints as an entity is the table's entity for an entry that is    *)
(* named like the label, in a file that fits it.                               *)
LEMMA LookupIs ==
  ASSUME NEW r \in RegistryType, NEW stem, NEW name, NEW query,
         LookupEntity(r, stem, name, query) # NoOne
  PROVE  \E i \in DOMAIN r.all :
           /\ r.all[i].stem = stem /\ r.all[i].name = name
           /\ LookupEntity(r, stem, name, query) = Canonical(r, r.all[i])
<1> DEFINE here == {i \in DOMAIN r.all : r.all[i].stem = stem /\ r.all[i].name = name}
           asked == {i \in here : Canonical(r, r.all[i]).key[1] \in query}
           left == IF asked = {} THEN here ELSE asked
           known == {i \in left : r.all[i].kind \in Traversed}
           choice == IF known = {} THEN left ELSE known
<1>1. here # {} /\ LookupEntity(r, stem, name, query) = Canonical(r, r.all[Min(choice)])
  BY DEF LookupEntity
<1>2. choice \in SUBSET here /\ choice # {}
  BY <1>1
<1>3. here \in SUBSET Nat
  BY DEF RegistryType
<1>4. Min(choice) \in here
  <2> HIDE DEF choice, here
  <2> QED BY <1>2, <1>3, Least
<1> QED BY <1>1, <1>4

LEMMA ShowIs ==
  ASSUME NEW r \in RegistryType, NEW label \in Labels, rel \in Rels,
         Show(r, label).what = "entity"
  PROVE  \E i \in DOMAIN r.all :
           /\ Fits(label, r.all[i].stem) /\ r.all[i].name = label.name
           /\ Show(r, label).entities = {Canonical(r, r.all[i])}
<1> DEFINE place == ShownBelow(label.root)
           stem == Under(place, label.path)
           entity == LookupEntity(r, stem, label.name, label.query)
<1>1. entity # NoOne /\ Show(r, label).entities = {entity}
  <2> HIDE DEF entity, stem
  <2>1. CASE label.root # "" /\ ~HasPlace(label.root)
    BY <2>1 DEF Show
  <2>2. CASE /\ label.root # "" => HasPlace(label.root)
             /\ IsFolder(stem) \/ stem \notin Files
    BY <2>2 DEF Show, stem
  <2>3. CASE /\ label.root # "" => HasPlace(label.root)
             /\ ~IsFolder(stem) /\ stem \in Files /\ label.name = ""
    BY <2>3 DEF Show, stem
  <2>4. CASE /\ label.root # "" => HasPlace(label.root)
             /\ ~IsFolder(stem) /\ stem \in Files /\ label.name # ""
    <3>1. CASE entity = NoOne \/ entity.key[1] \notin Traversed
      BY <2>4, <3>1 DEF Show, stem, entity
    <3>2. CASE ~(entity = NoOne \/ entity.key[1] \notin Traversed)
      <4>1. PICK x : x = entity
        OBVIOUS
      <4>2. Show(r, label) = [what |-> "entity", entities |-> {x}]
        BY <2>4, <3>2, <4>1 DEF Show, stem, entity
      <4> QED BY <3>2, <4>1, <4>2
    <3> QED BY <3>1, <3>2
  <2> QED BY <2>1, <2>2, <2>3, <2>4
<1>2. PICK i \in DOMAIN r.all : /\ r.all[i].stem = stem /\ r.all[i].name = label.name
                                /\ entity = Canonical(r, r.all[i])
  <2> HIDE DEF stem
  <2> QED BY <1>1, LookupIs
<1>3. place \in Seq(Tokens) /\ label.path \in Seq(Tokens)
  BY LookupAssumption DEF HasPlace, ShownBelow
<1>4. Fits(label, stem)
  <2>1. IsPrefix(place, stem) /\ IsSuffix(label.path, stem)
    <3> HIDE DEF place
    <3> QED BY <1>3, UnderFits
  <2>2. stem \in Seq(Tokens)
    <3> HIDE DEF stem, entity
    <3>1. r.all[i] \in EntryType
      BY <1>2, EntriesAre DEF RegistryType
    <3> QED BY <1>2, <3>1, LookupAssumption DEF EntryType
  <2> HIDE DEF stem
  <2>3. HasPlace(label.root) => IsPrefix(Places[label.root], stem)
    <3>1. CASE HasPlace(label.root) /\ Places[label.root] # <<>>
      BY <2>1, <3>1 DEF ShownBelow
    <3>2. CASE HasPlace(label.root) /\ Places[label.root] = <<>>
      <4>1. <<>> \in Seq(Tokens) /\ Len(<<>>) = 0 /\ Len(stem) \in Nat
        BY <2>2, LenProperties
      <4>2. Len(<<>>) <= Len(stem) /\ \A k \in 1..Len(<<>>) : <<>>[k] = stem[k]
        BY <4>1
      <4>3. IsPrefix(<<>>, stem)
        BY <2>2, <4>1, <4>2, PrefixIs
      <4> QED BY <3>2, <4>3
    <3> QED BY <3>1, <3>2
  <2> QED BY <2>1, <2>3 DEF Fits
<1> QED BY <1>1, <1>2, <1>4

(* The two ways to look up a label find the same entity as it was last written: *)
(* the one entry that matches the label is the anchor of setf, and, as its name *)
(* is registered once, what the table of its kind has for it.                  *)
LEMMA OneLookup == LookupInv => ResolversAgree
<1> SUFFICES ASSUME LookupInv, NEW label \in Labels,
                    Anchor(reg, label).how = "registry", Show(reg, label).what = "entity",
                    Lone(Anchor(reg, label).entry), Plainly(label, Anchor(reg, label).entry)
             PROVE  Show(reg, label).entities = {Anchor(reg, label).entry.entity}
  BY DEF ResolversAgree
<1> DEFINE e == Anchor(reg, label).entry
<1>1. reg \in RegistryType /\ Tabled(reg) /\ rel \in Rels
  BY DEF LookupInv, RegistryOK
<1>2. PICK i \in Matches(reg, label) : e = reg.all[i]
  BY <1>1, AnchorMatches
<1>3. i \in DOMAIN reg.all /\ e.name = label.name
  BY <1>2, MatchesAre
<1>4. PICK j \in DOMAIN reg.all :
        /\ Fits(label, reg.all[j].stem) /\ reg.all[j].name = label.name
        /\ Show(reg, label).entities = {Canonical(reg, reg.all[j])}
  BY <1>1, ShowIs
<1>5. reg.all[j] = e
  <2>1. reg.all[j] \in Range(reg.all)
    BY DEF Range
  <2> HIDE DEF e
  <2> QED BY <1>3, <1>4, <2>1 DEF Plainly, e
<1>6. PICK k \in DOMAIN reg.all :
        /\ reg.all[k].kind = e.kind /\ reg.all[k].name = e.name
        /\ reg.byName[e.kind][e.name] = reg.all[k].entity
  BY <1>1, <1>2, <1>3 DEF Tabled
<1>7. reg.all[k] = e
  <2>1. reg.all[k] \in Range(reg.all)
    BY DEF Range
  <2> HIDE DEF e
  <2> QED BY <1>6, <2>1 DEF Lone, e
<1> QED BY <1>4, <1>5, <1>6, <1>7 DEF Canonical

(* Whatever was loaded, rebuilt and assigned, setf and show agree on a label   *)
(* whose name is registered once.                                              *)
THEOREM ResolversFindTheSame == LookupSpec => []ResolversAgree
  BY RegistryIsTabled, OneLookup, PTL

--------------------------------------------------------------------------------
(* The label that a wildcard gives for an entry finds an entry of that name, and *)
(* of the same file if the label means no other.                               *)
LEMMA ConcreteFinds ==
  ASSUME LookupInv, NEW label \in Labels,
         label.name # "" \/ label.query # {}, label.root \notin Bare,
         label.root = "" \/ HasPlace(label.root),
         NEW e \in Candidates(reg, label), Rest(label.root, e.stem) # <<>>
  PROVE  LET a == Anchor(reg, Concrete(label, e)) IN
         /\ a.how = "registry"
         /\ MeansOnly(Concrete(label, e), e) =>
              a.entry.stem = e.stem /\ a.entry.name = e.name
<1> DEFINE l == Concrete(label, e)
           q == Rest(label.root, e.stem)
           found == Matches(reg, l)
<1>1. reg \in RegistryType /\ reg.all \in Seq(EntryType)
  BY DEF LookupInv, RegistryOK, RegistryType
<1>2. PICK n \in DOMAIN reg.all : e = reg.all[n]
  BY DEF Candidates, Range
<1>3. \A i \in DOMAIN reg.all : reg.all[i].stem \in Files /\ reg.all[i].name \in Names
  <2> SUFFICES ASSUME NEW i \in DOMAIN reg.all
               PROVE  reg.all[i].stem \in Files /\ reg.all[i].name \in Names OBVIOUS
  <2>1. reg.all[i] \in EntryType
    BY <1>1, EntriesAre
  <2> QED BY <2>1 DEF EntryType
<1>4. l.root = label.root /\ l.path = q /\ l.name = e.name
  BY DEF Concrete, Candidates
<1>5. HasPlace(label.root) => IsPrefix(Places[label.root], e.stem)
  BY DEF Candidates, Fits
<1>6. q \in Seq(Tokens) /\ IsSuffix(q, e.stem) /\ q # <<>>
  BY <1>2, <1>3, <1>5, RestIs
<1> HIDE DEF l, q
<1>7. Fits(l, e.stem)
  BY <1>4, <1>5, <1>6 DEF Fits
<1>10. found # {}
  BY <1>2, <1>4, <1>7 DEF Matches
<1>11. MeansOnly(l, e) => \A i \in found : reg.all[i].stem = e.stem /\ reg.all[i].name = e.name
  <2> SUFFICES ASSUME MeansOnly(l, e), NEW i \in found
               PROVE  reg.all[i].stem = e.stem /\ reg.all[i].name = e.name OBVIOUS
  <2>1. /\ i \in DOMAIN reg.all /\ reg.all[i].name = l.name
        /\ reg.all[i].stem = StemOf(l) \/ Fits(l, reg.all[i].stem)
    BY MatchesAre
  <2>2. CASE e.stem = StemOf(l)
    <3>1. n \in {k \in {m \in DOMAIN reg.all : reg.all[m].name = l.name} :
                   reg.all[k].stem = StemOf(l)}
      BY <1>2, <1>4, <2>2
    <3>2. reg.all[i].stem = StemOf(l)
      BY <3>1 DEF Matches
    <3> QED BY <1>4, <2>1, <2>2, <3>2
  <2>3. CASE e.stem # StemOf(l)
    <3>1. reg.all[i] \in Range(reg.all)
      BY <2>1 DEF Range
    <3> QED BY <1>4, <2>1, <2>3, <3>1 DEF MeansOnly
  <2> QED BY <2>2, <2>3
<1>12. Anchor(reg, l).how = "registry"
  <2> HIDE DEF found
  <2>1. e.name # ""
    BY <1>2, <1>3, NamesNotEmpty
  <2>2. PICK x : x = Foremost(reg, Preferred(reg, l, found))
    OBVIOUS
  <2>3. Anchor(reg, l) = [how |-> "registry", entry |-> x]
    BY <1>4, <1>10, <2>1, <2>2 DEF Anchor, found
  <2>4. [how |-> "registry", entry |-> x].how = "registry"
    OBVIOUS
  <2> QED BY <2>3, <2>4, Zenon
<1>13. PICK i \in found : Anchor(reg, l).entry = reg.all[i]
  BY <1>1, <1>12, AnchorMatches
<1> QED BY <1>11, <1>12, <1>13 DEF l

LEMMA ExactExpansion == LookupInv => ExpansionIsExact
<1> SUFFICES ASSUME LookupInv, NEW label \in Labels,
                    label.name # "" \/ label.query # {},
                    label.root \notin Bare, label.root = "" \/ HasPlace(label.root)
             PROVE
      LET asked == {e \in Candidates(reg, label) :
                      /\ label.name = "" => e.kind \in label.query
                      /\ ~HasPlace(label.root) \/ e.stem # Places[label.root]}
      IN /\ \A l \in Expand(reg, label) : l.path # <<>> => Anchor(reg, l).how = "registry"
         /\ \A e \in asked :
              LET l == Concrete(label, e)
                  entry == Anchor(reg, l).entry
              IN /\ l \in Expand(reg, label)
                 /\ MeansOnly(l, e) => entry.stem = e.stem /\ entry.name = e.name
  BY DEF ExpansionIsExact
<1>1. ASSUME NEW l \in Expand(reg, label), l.path # <<>>
      PROVE  Anchor(reg, l).how = "registry"
  <2>1. PICK e \in Expanded(reg, label) : l = Concrete(label, e)
    BY DEF Expand
  <2>2. e \in Candidates(reg, label) /\ Rest(label.root, e.stem) # <<>>
    BY <1>1, <2>1 DEF Expanded, Concrete
  <2> QED BY <2>1, <2>2, ConcreteFinds
<1>2. ASSUME NEW e \in Candidates(reg, label), label.name = "" => e.kind \in label.query,
             ~HasPlace(label.root) \/ e.stem # Places[label.root]
      PROVE  LET l == Concrete(label, e)
                 entry == Anchor(reg, l).entry
             IN /\ l \in Expand(reg, label)
                /\ MeansOnly(l, e) => entry.stem = e.stem /\ entry.name = e.name
  <2>1. e.stem \in Files
    <3>1. PICK n \in DOMAIN reg.all : e = reg.all[n]
      BY DEF Candidates, Range
    <3>2. reg \in RegistryType
      BY DEF LookupInv, RegistryOK
    <3>3. e \in EntryType
      BY <3>1, <3>2, EntriesAre
    <3> QED BY <3>3 DEF EntryType
  <2>2. Rest(label.root, e.stem) # <<>>
    <3>1. HasPlace(label.root) => IsPrefix(Places[label.root], e.stem)
      BY DEF Candidates, Fits
    <3> QED BY <1>2, <2>1, <3>1, RestIs
  <2>3. e \in Expanded(reg, label)
    BY <1>2, <2>2 DEF Expanded
  <2>4. Concrete(label, e) \in Expand(reg, label)
    BY <2>3 DEF Expand
  <2> QED BY <2>2, <2>4, ConcreteFinds
<1> QED BY <1>1, <1>2

(* In whatever order files were loaded and labels assigned, each label of a     *)
(* wildcard's expansion has an anchor, and each entity that was asked for is   *)
(* the anchor of its own label unless that label means another file too.       *)
THEOREM WildcardsAreExact == LookupSpec => []ExpansionIsExact
  BY RegistryIsTabled, ExactExpansion, PTL
================================================================================
