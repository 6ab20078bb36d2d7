----------------------- MODULE MCSurfaceTransactions -----------------------
(***************************************************************************)
(* Model-checking instance of SurfaceTransactions.  A behaviour starts     *)
(* after two get_subsurface requests have built the chain                  *)
(*     Root <- Middle <- Leaf                                              *)
(* through the wl_subsurface objects OfMiddle and OfLeaf.                  *)
(***************************************************************************)
EXTENDS SurfaceTransactions

CONSTANTS Root, Middle, Leaf, OfMiddle, OfLeaf

ChainInit ==
    /\ alive = {Root, Middle, Leaf}
    /\ parent = (Root :> None @@ Middle :> Root @@ Leaf :> Middle)
    /\ children = (Root :> <<Root, Middle>> @@ Middle :> <<Middle, Leaf>> @@ Leaf :> <<Leaf>>)
    /\ role = (Root :> "none" @@ Middle :> "subsurface" @@ Leaf :> "subsurface")
    /\ subsurface = (OfMiddle :> Middle @@ OfLeaf :> Leaf)
    /\ sync = (Root :> "unset" @@ Middle :> "sync" @@ Leaf :> "sync")
    /\ panicked = FALSE
    /\ TQ!Init
    /\ StateInit

ChainSpec == ChainInit /\ [][SyncNext]_allVars
=============================================================================
