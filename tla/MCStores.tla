------------------------------ MODULE MCStores ------------------------------
(***************************************************************************)
(* The adapters, the blob stores and the in-memory entities side by side:  *)
(* a behaviour picks one part and stays with it, so the state counts add.  *)
(***************************************************************************)
EXTENDS AdapterStore, BlobStores, EntityStore

VARIABLE part

storeVars == <<part, adapterVars, blobVars, entityVars>>

Init ==
    /\ part \in {"adapters", "blobs", "named", "packages", "trees", "users"}
    /\ InitAdapters /\ InitBlobs /\ InitEntities
    \* The parts that do not move start in one state.
    /\ part # "adapters" => kindA = (CHOOSE a \in Adapters : TRUE) /\ born = 0
    /\ part # "blobs" => backend = CHOOSE b \in Backends : TRUE

NextEntityPart ==
    \/ part = "named" /\ NextNamed
    \/ part = "packages" /\ NextPackages
    \/ part = "trees" /\ NextTrees
    \/ part = "users" /\ NextUsers

Next ==
    \/ part = "adapters" /\ NextAdapters /\ UNCHANGED <<part, blobVars, entityVars>>
    \/ part = "blobs" /\ NextBlobs /\ UNCHANGED <<part, adapterVars, entityVars>>
    \/ NextEntityPart /\ UNCHANGED <<part, adapterVars, blobVars>>

(* Initially nothing in FairBlobs is enabled, so the other parts'          *)
(* behaviours satisfy it.                                                  *)
Spec == Init /\ [][Next]_storeVars /\ FairBlobs
=============================================================================
