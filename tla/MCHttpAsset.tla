------------------------------ MODULE MCHttpAsset ------------------------------
EXTENDS HttpAsset, TLC

(* Two versions.  The plain HEAD gives an etag and a length, the GitHub    *)
(* API a blob sha in the same "digest" field and a length.                 *)
MCVersions == {0, 1}
MCFields == {"digest", "length"}
MCKinds == {"head", "api"}

(* The digests tell the versions apart; the lengths of both are the same.  *)
MCFieldOf == [k \in MCKinds |-> [v \in MCVersions |->
  [f \in MCFields |-> IF f = "length" THEN 1
                      ELSE (IF k = "head" THEN 10 ELSE 20) + v]]]
MCSizeOf == [c \in MCVersions \X BOOLEAN |-> IF c[2] THEN 1 ELSE 0]

NoField == -1

ASSUME DigestsDiffer == MetadataTellsVersions

Symmetry == Permutations(Procs)
================================================================================
