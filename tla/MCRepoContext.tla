----------------------------- MODULE MCRepoContext -----------------------------
(* Small instances of RepoContext for TLC. *)
EXTENDS RepoContext

Ended == phase \in {"returned", "raised"} /\ UNCHANGED contextVars

MCSpec == ContextInit /\ [][ContextNext \/ Ended]_contextVars

=============================================================================
