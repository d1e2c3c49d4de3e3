--------------------------- MODULE MCWorkflowJournal ---------------------------
(* WorkflowJournal on a small instance.                                        *)
EXTENDS WorkflowJournal, TLC

(* Clients, and stamps, are interchangeable.                                   *)
ClientsAndStamps == Permutations(Clients) \cup Permutations(Stamps)

================================================================================
