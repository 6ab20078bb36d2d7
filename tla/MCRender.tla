------------------------------ MODULE MCRender ------------------------------
(* Model-checking instance of the damage tracker and of the DrmCompositor,   *)
(* which uses one: a behaviour is one of either component.                   *)
EXTENDS DamageTracker, DrmCompositor, TLC

VARIABLE part

renderVars == <<damageVars, drmVars, part>>

RenderInit ==
    /\ part \in {"tracker", "compositor"}
    /\ DamageInit /\ DrmInit

RenderNext ==
    \/ part = "tracker" /\ DamageNext /\ UNCHANGED <<drmVars, part>>
    \/ part = "compositor" /\ DrmNext /\ UNCHANGED <<damageVars, part>>

RenderSpec == RenderInit /\ [][RenderNext]_renderVars

(* The states of both components have their types.                           *)
RenderTypeOK ==
    /\ part = "tracker" => DamageTypeOK
    /\ part = "compositor" => DrmTypeOK

Symmetry == Permutations(Element) \cup Permutations(Target)
=============================================================================
