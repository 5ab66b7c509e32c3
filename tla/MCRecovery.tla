----------------------------- MODULE MCRecovery -----------------------------
(***************************************************************************)
(* Model checking Recovery: up to two requests and three versions of the   *)
(* remote file.  The second has another etag than the first; the third is  *)
(* sent without one, and not told from the second by its last_modified.    *)
(* A run starts from the second, so that one change can be one the server  *)
(* shows and one it does not, and from a file that is to be replaced; a    *)
(* crash before the promotion leads to the start without one.              *)
(***************************************************************************)
EXTENDS Recovery_proofs

CONSTANTS r1, r2, v1, v2, v3

MCRequests == {r1, r2}
MCOneRequest == {r1}
MCOneVersion == {v1}
MCVersions == {v1, v2, v3}
MCValidators ==
  [v \in Versions |->
     [etag |-> IF v = v1 THEN "a" ELSE IF v = v2 THEN "b" ELSE NoValidator,
      last_modified |-> IF v = v1 THEN "monday" ELSE "tuesday"]]

MCInit == Init /\ remote = v2 /\ output = OldFile
MCFairSpec == MCInit /\ [][Next]_vars /\ Fairness

\* Bounds: of what comes after exposure nothing is claimed but its type; and no run is
\* started where a file without its tail was published, since none reads the output and
\* so each goes on as where it was published whole.
Explored ==
  /\ ~exposed
  /\ phase = "off" => output \in {NoFile, OldFile} \cup WholeFiles
=============================================================================
