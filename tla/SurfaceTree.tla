---------------------------- MODULE SurfaceTree ----------------------------
(***************************************************************************)
(* The tree of wl_surfaces and wl_subsurfaces                              *)
(* (wayland/compositor/tree.rs and the wl_subcompositor, wl_subsurface and *)
(* wl_surface handlers of handlers.rs): who is whose parent, the stacking  *)
(* order of the children, and the synchronisation mode of a subsurface.    *)
(*                                                                         *)
(* commit, is_ancestor and is_effectively_sync walk this tree recursively, *)
(* commit while it holds the mutex of the surface it started from, so a    *)
(* cycle would be an endless recursion or a deadlock on a surface's mutex. *)
(*                                                                         *)
(* A request the code answers with a protocol error changes nothing here.  *)
(* The client is then disconnected, which destroys its objects one by one, *)
(* in any order: the destroy actions below, which are always enabled.      *)
(***************************************************************************)
EXTENDS Integers, Sequences, SequencesExt, Subsequence

CONSTANTS
    Surface,        \* the surfaces of one client
    Subsurface,     \* bound: wl_subsurface objects that exist at one time
    None,           \* no parent, no surface
    SelfSibling     \* do clients name a surface as its own sibling?

ASSUME NoneAssumption == None \notin Surface
ASSUME SelfSiblingAssumption == SelfSibling \in BOOLEAN

VARIABLES
    alive,          \* surfaces whose object exists
    parent,         \* PrivateSurfaceData::parent
    children,       \* PrivateSurfaceData::children, the surface itself included
    role,           \* SurfaceData::role
    subsurface,     \* SubsurfaceUserData::surface of each wl_subsurface object
    sync,           \* SubsurfaceState::sync, "unset" while there is none
    panicked        \* Vec::insert was called with an index out of range

treeVars == <<alive, parent, children, role, subsurface, sync, panicked>>

Role == {"none", "subsurface", "other"}
Sync == {"unset", "sync", "desync"}

\* s and the surfaces is_ancestor reaches from it by following parent.
AncestorsOrSelf(s) ==
    {a \in Surface :
        \A S \in SUBSET Surface :
            s \in S /\ (\A x \in S : parent[x] \in Surface => parent[x] \in S)
                => a \in S}

\* get_children: the children without the surface itself.
Kids(s) == ToSet(children[s]) \ {s}

\* is_effectively_sync: sync itself or below a sync surface.
EffectivelySync(s) == \E a \in AncestorsOrSelf(s) : sync[a] = "sync"

\* Vec::retain(|c| c.id() != s.id())
Retain(q, s) == Select(q, {k \in DOMAIN q : q[k] # s})

IndexOf(q, s) == CHOOSE k \in DOMAIN q : q[k] = s
-----------------------------------------------------------------------------
TreeTypeOK ==
    /\ alive \subseteq Surface
    /\ parent \in [Surface -> Surface \cup {None}]
    /\ children \in [Surface -> Seq(Surface)]
    /\ role \in [Surface -> Role]
    /\ subsurface \in [Subsurface -> Surface \cup {None}]
    /\ sync \in [Surface -> Sync]
    /\ panicked \in BOOLEAN
    \* set_sync and set_desync unwrap the SubsurfaceState
    /\ \A o \in Subsurface : subsurface[o] # None => sync[subsurface[o]] # "unset"

\* Every surface has been created: PrivateSurfaceData::new and init.
TreeInit ==
    /\ alive = Surface
    /\ parent = [s \in Surface |-> None]
    /\ children = [s \in Surface |-> <<s>>]
    /\ role = [s \in Surface |-> "none"]
    /\ subsurface = [o \in Subsurface |-> None]
    /\ sync = [s \in Surface |-> "unset"]
    /\ panicked = FALSE
-----------------------------------------------------------------------------
\* set_role for the role of another protocol (xdg_toplevel, cursor, ...).
SetRole(s) ==
    /\ s \in alive
    /\ role[s] \in {"none", "other"}
    /\ role' = [role EXCEPT ![s] = "other"]
    /\ UNCHANGED <<alive, parent, children, subsurface, sync, panicked>>

\* Wrong variant: only the surface itself is rejected as a parent.
CanSetParentUnchecked(c, p) ==
    /\ c # p
    /\ role[c] \in {"none", "subsurface"}
    /\ parent[c] = None

\* set_parent fails on a cycle, on another role and on a second parent.
CanSetParent(c, p) ==
    /\ c \notin AncestorsOrSelf(p)
    /\ role[c] \in {"none", "subsurface"}
    /\ parent[c] = None

\* Wrong variant: no SubsurfaceState is inserted.
WithoutState(c) == sync

\* insert_if_missing: a new SubsurfaceState is sync, an old one is kept.
WithState(c) == [sync EXCEPT ![c] = IF @ = "unset" THEN "sync" ELSE @]

\* wl_subcompositor.get_subsurface
GetSubsurface(o, c, p) ==
    /\ subsurface[o] = None
    /\ {c, p} \subseteq alive
    /\ CanSetParent(c, p)
    /\ role' = [role EXCEPT ![c] = "subsurface"]
    /\ parent' = [parent EXCEPT ![c] = p]
    /\ children' = [children EXCEPT ![p] = Append(@, c)]
    /\ subsurface' = [subsurface EXCEPT ![o] = c]
    /\ sync' = WithState(c)
    /\ UNCHANGED <<alive, panicked>>

\* Wrong variants: the removal is not accounted for, above and below swapped.
NewIndexUnshifted(me, other, to) == other + (IF to = "After" THEN 1 ELSE 0)
NewIndexSwapped(me, other, to) ==
    (IF me < other THEN other - 1 ELSE other) + (IF to = "After" THEN 0 ELSE 1)

\* Where reorder inserts the surface, once it has been removed from position me
\* of the list; other is the position of relative_to before the removal.
NewIndex(me, other, to) ==
    (IF me < other THEN other - 1 ELSE other) + (IF to = "After" THEN 1 ELSE 0)

\* wl_subsurface.place_above ("After") and place_below ("Before").  Fails when
\* the surface has no parent or relative_to is not in the parent's list.
Reorder(o, to, relativeTo) ==
    LET s == subsurface[o]
        q == children[parent[s]]
        rest == RemoveAt(q, IndexOf(q, s))
        new == NewIndex(IndexOf(q, s), IndexOf(q, relativeTo), to)
    IN  /\ s # None
        /\ relativeTo \in alive
        /\ SelfSibling \/ relativeTo # s
        /\ parent[s] # None
        /\ relativeTo \in ToSet(q)
        /\ IF new <= Len(rest) + 1
           THEN /\ children' = [children EXCEPT ![parent[s]] = InsertAt(rest, new, s)]
                /\ UNCHANGED panicked
           ELSE /\ panicked' = TRUE
                /\ UNCHANGED children
        /\ UNCHANGED <<alive, parent, role, subsurface, sync>>

SetSync(o) ==
    /\ subsurface[o] # None
    /\ sync' = [sync EXCEPT ![subsurface[o]] = "sync"]
    /\ UNCHANGED <<alive, parent, children, role, subsurface, panicked>>

SetDesync(o) ==
    /\ subsurface[o] # None
    /\ sync' = [sync EXCEPT ![subsurface[o]] = "desync"]
    /\ UNCHANGED <<alive, parent, children, role, subsurface, panicked>>

\* The children lists once s has been unlinked from its parent (unset_parent).
Unlinked(s) ==
    IF parent[s] = None THEN children
    ELSE [children EXCEPT ![parent[s]] = Retain(@, s)]

\* wl_subsurface destroyed: unset_parent, and back to sync.
DestroySubsurface(o) ==
    LET s == subsurface[o]
    IN  /\ s # None
        /\ children' = Unlinked(s)
        /\ parent' = [parent EXCEPT ![s] = None]
        /\ sync' = [sync EXCEPT ![s] = "sync"]
        /\ subsurface' = [subsurface EXCEPT ![o] = None]
        /\ UNCHANGED <<alive, role, panicked>>

\* Wrong variant: the children keep their parent link.
NotOrphaned(s) == [parent EXCEPT ![s] = None]

\* The parent links once s is gone and its children are orphans.
Orphaned(s) == [c \in Surface |-> IF c = s \/ c \in Kids(s) THEN None ELSE parent[c]]

\* wl_surface destroyed: cleanup unlinks it and orphans its children.
DestroySurface(s) ==
    /\ s \in alive
    /\ alive' = alive \ {s}
    /\ children' = [Unlinked(s) EXCEPT ![s] = <<>>]
    /\ parent' = Orphaned(s)
    /\ UNCHANGED <<role, subsurface, sync, panicked>>

TreeNext ==
    /\ ~ panicked
    /\ \/ \E s \in Surface : SetRole(s) \/ DestroySurface(s)
       \/ \E o \in Subsurface, c, p \in Surface : GetSubsurface(o, c, p)
       \/ \E o \in Subsurface, to \in {"Before", "After"}, s \in Surface : Reorder(o, to, s)
       \/ \E o \in Subsurface : SetSync(o) \/ SetDesync(o) \/ DestroySubsurface(o)

TreeSpec == TreeInit /\ [][TreeNext]_treeVars
-----------------------------------------------------------------------------
(* Properties. *)

\* The parent links contain no cycle: every non-empty set of surfaces has one
\* whose parent is outside of it, so every walk up or down the tree ends and
\* no walk meets a mutex it holds.
Acyclic ==
    \A S \in SUBSET Surface : S # {} => \E s \in S : parent[s] \notin S

\* Parents and children agree: the list of a live surface holds the surface and
\* the surfaces whose parent it is, each once (reorder relies on it with an
\* unwrap), and no link leads to or from a destroyed surface.
LinksAgree ==
    /\ \A p \in alive :
          /\ ToSet(children[p]) = {p} \cup {c \in Surface : parent[c] = p}
          /\ IsInjective(children[p])
    /\ \A s \in Surface \ alive : parent[s] = None /\ children[s] = <<>>
    /\ \A s \in Surface : parent[s] \in alive \cup {None}

\* reorder fails with an error or inserts in range ("Fails if `relative_to` is
\* not a sibling or parent of `surface`").
NeverPanics == ~ panicked

\* A successful place_above or place_below leaves the surface directly above or
\* below its reference, and the other children in their order.
PlacedNextTo ==
    [][\A o \in Subsurface, to \in {"Before", "After"}, r \in Surface :
          LET s == subsurface[o]
              q == children'[parent[s]]
          IN  Reorder(o, to, r) /\ r # s =>
                /\ IndexOf(q, s) = IndexOf(q, r) + (IF to = "After" THEN 1 ELSE -1)
                /\ Retain(q, s) = Retain(children[parent[s]], s)]_treeVars
=============================================================================
