------------------------------ MODULE MCStorage ------------------------------
(* The caches of two processes over one storage, and the packages of         *)
(* artifacts that are kept in it: two parts that share no state here, one of *)
(* them in each behaviour.                                                   *)
EXTENDS MCDurableStore, ArtifactStore

VARIABLE part  \* the part that runs

storageVars == <<part, vars, artifactVars>>

StorageInit == part \in {"caches", "packages"} /\ Init /\ ArtifactInit

StorageNext ==
    /\ \/ part = "caches" /\ Next /\ UNCHANGED artifactVars
       \/ part = "packages" /\ ArtifactNext /\ UNCHANGED vars
    /\ UNCHANGED part

StorageSpec == StorageInit /\ [][StorageNext]_storageVars

\* Every variable has its type.
StorageTypeOK == TypeOK /\ ArtifactTypeOK
=============================================================================
