------------------------------ MODULE SingleFlight ------------------------------
(***************************************************************************)
(* What a per-key build cache promises its callers: a key is built by at   *)
(* most one thread at a time, only the thread that claimed the key fills   *)
(* its slot, and whoever claimed it gives the claim back when it fills the *)
(* slot or gives up.  Nothing here says how callers wait or wake up.       *)
(***************************************************************************)
EXTENDS Integers

CONSTANTS Threads,      \* who may build
          Keys,         \* what is built
          Nobody        \* "no thread claims the key"

VARIABLES slot,         \* slot[k]: the version held for k, or Empty
          claim         \* claim[k]: the thread building k, or Nobody

Empty == -1

Init == /\ slot = [k \in Keys |-> Empty]
        /\ claim = [k \in Keys |-> Nobody]

(* An unclaimed empty key may be claimed.                                  *)
Claim(t, k) == /\ slot[k] = Empty
               /\ claim[k] = Nobody
               /\ claim' = [claim EXCEPT ![k] = t]
               /\ UNCHANGED slot

(* The claimant delivers a version and its claim ends.                     *)
Fill(t, k) == /\ claim[k] = t
              /\ slot[k] = Empty
              /\ slot'[k] \in Nat
              /\ slot' = [slot EXCEPT ![k] = slot'[k]]
              /\ claim' = [claim EXCEPT ![k] = Nobody]

(* The claimant gives up: the slot stays as it is.                         *)
GiveUp(t, k) == /\ claim[k] = t
                /\ claim' = [claim EXCEPT ![k] = Nobody]
                /\ UNCHANGED slot

(* Some keys are emptied; claims are not touched.                          *)
Drop(K) == /\ slot' = [k \in Keys |-> IF k \in K THEN Empty ELSE slot[k]]
           /\ UNCHANGED claim

Next == \/ \E t \in Threads, k \in Keys :
              \/ Claim(t, k)
              \/ GiveUp(t, k)
              \/ Fill(t, k)
        \/ \E K \in SUBSET Keys : Drop(K)

Spec == Init /\ [][Next]_<<slot, claim>>
=================================================================================
