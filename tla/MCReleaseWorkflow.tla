--------------------------- MODULE MCReleaseWorkflow ---------------------------
(* ReleaseWorkflow on a small instance.                                        *)
EXTENDS ReleaseWorkflow

(* Requests, and resumes, are interchangeable and made in one order only.      *)
InOrder ==
    /\ \A r, s \in Requests : r < s /\ pc[r] = "idle" => pc'[s] = "idle"
    /\ \A u, v \in Resumes : u < v /\ pc[u] = "idle" => pc'[v] = "idle"

(* What follows an irregular step is of no concern to the passing properties.  *)
Regular == ~irregular

================================================================================
