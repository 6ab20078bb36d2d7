------------------------------ MODULE XdgSurface ------------------------------
(* The configure / ack_configure / commit exchange of one wl_surface with an *)
(* xdg_toplevel or xdg_popup role object: the role's attributes, its         *)
(* double-buffered last_acked, the commit hook, the compositor's commit      *)
(* handler (anvil's, which sends the initial configure), and the client at   *)
(* the other end, whose events arrive late.                                  *)
(*                                                                           *)
(* A commit is applied later than it is made when a transaction blocker      *)
(* holds it; commits of one surface are applied in order (SurfaceTransactions*)
(* models why).  Geometry, decorations, titles, parents of toplevels and the *)
(* ping of the shell client are left out.                                    *)
EXTENDS Naturals, Sequences, Subsequence

CONSTANTS
    Flag,               \* what a configure state consists of: maximized, ...
    Reactive,           \* the flag of a popup whose positioner is reactive
    MaxConfigures,      \* bound: configures sent
    MaxCommits,         \* bound: commits held by blockers
    ReuseXdgSurface,    \* may a client create its next role object from the
                        \* xdg_surface of the destroyed one?
    NoConfigure,
    NoState

ASSUME XdgConstants ==
    /\ Reactive \in Flag
    /\ MaxConfigures \in Nat /\ MaxCommits \in Nat /\ ReuseXdgSurface \in BOOLEAN
    /\ \A st \in SUBSET Flag : NoState # st
    /\ NoConfigure \notin [serial : 1..MaxConfigures, state : SUBSET Flag]

VARIABLES
    xdgKind,        \* "toplevel" or "popup": a surface keeps its role
    xdgAlive,       \* the role object exists
    xdgRole,        \* Xdg{Toplevel,Popup}SurfaceRoleAttributes
    xdgCached,      \* {Toplevel,Popup}CachedState, pending and current
    xdgCommits,     \* commits waiting to be applied
    xdgShown,       \* the applied buffer: "none", "own", or "old" if it
                    \* comes from a role object that was destroyed
    xdgSerial,      \* serials used
    inFlight,       \* configures on their way to the client
    received,       \* serials the client may acknowledge
    stage,          \* where the client is in mapping its surface
    obeyed,         \* the client has broken no rule of the protocol
    xdgKilled,      \* a protocol error was posted
    wanted          \* history: the state the compositor asked for

xdgVars == <<xdgKind, xdgAlive, xdgRole, xdgCached, xdgCommits, xdgShown, xdgSerial,
             inFlight, received, stage, obeyed, xdgKilled, wanted>>
wlClientVars == <<received, stage, obeyed>>

Configures == [serial : 1..MaxConfigures, state : SUBSET Flag]

RoleType == [sent : BOOLEAN, configures : Seq(Configures),
             serverPending : {NoState} \cup SUBSET Flag,
             acked : {NoConfigure} \cup Configures,
             parent : BOOLEAN, grab : BOOLEAN]

CommitType == [buffer : {"new", "removed", "none"}, acked : {NoConfigure} \cup Configures]

DefaultRole(parent) ==
    [sent |-> FALSE, configures |-> <<>>, serverPending |-> NoState,
     acked |-> NoConfigure, parent |-> parent, grab |-> FALSE]

(* get_toplevel and get_popup.                                               *)
NewRole(kind, state) == [DefaultRole(kind = "popup") EXCEPT !.serverPending = state]

FreshState(kind) == IF kind = "popup" THEN SUBSET Flag ELSE {{}}

XdgInit ==
    /\ xdgKind \in {"toplevel", "popup"} /\ xdgAlive = TRUE
    /\ wanted \in FreshState(xdgKind)
    /\ xdgRole = NewRole(xdgKind, wanted)
    /\ xdgCached = [pending |-> NoConfigure, current |-> NoConfigure]
    /\ xdgCommits = <<>> /\ xdgShown = "none" /\ xdgSerial = 0
    /\ inFlight = <<>> /\ received = {} /\ stage = "new"
    /\ obeyed = TRUE /\ xdgKilled = FALSE

-----------------------------------------------------------------------------
(* Wrong variant: only an acknowledged configure counts.                     *)
CurrentServerStateAcked(r) == IF r.acked # NoConfigure THEN r.acked.state ELSE {}

(* current_server_state, and the state the next configure would carry.       *)
CurrentServerState(r) ==
    IF r.configures # <<>> THEN r.configures[Len(r.configures)].state
    ELSE IF r.acked # NoConfigure THEN r.acked.state ELSE {}

ServerState(r) == IF r.serverPending # NoState THEN r.serverPending ELSE CurrentServerState(r)

(* ToplevelSurface::send_configure and PopupSurface::send_configure_internal *)
(* from the attributes r: a pending state that changes nothing is not taken  *)
(* by a toplevel.                                                            *)
SendConfigure(r) ==
    LET same == r.serverPending = CurrentServerState(r)
        c == [serial |-> xdgSerial + 1, state |-> ServerState(r)]
    IN  /\ xdgSerial < MaxConfigures
        /\ xdgSerial' = xdgSerial + 1
        /\ xdgRole' = [r EXCEPT !.configures = Append(@, c),
                                !.serverPending =
                                    IF xdgKind = "toplevel" /\ r.sent /\ same THEN @ ELSE NoState,
                                !.sent = TRUE]
        /\ inFlight' = Append(inFlight, c.serial)

(* with_pending_state: the compositor changes its mind about one flag.       *)
SetState(f) ==
    LET st == ServerState(xdgRole)
    IN  /\ xdgAlive /\ ~xdgKilled
        /\ wanted' = IF f \in st THEN st \ {f} ELSE st \cup {f}
        /\ xdgRole' = [xdgRole EXCEPT !.serverPending = wanted']
        /\ UNCHANGED <<xdgKind, xdgAlive, xdgCached, xdgCommits, xdgShown, xdgSerial,
                       inFlight, wlClientVars, xdgKilled>>

(* The compositor sends a configure after the initial one; a popup's only    *)
(* if its committed positioner is reactive.                                  *)
Reconfigure ==
    /\ xdgAlive /\ ~xdgKilled /\ xdgRole.sent
    /\ xdgKind = "popup" => /\ xdgCached.current # NoConfigure
                            /\ Reactive \in xdgCached.current.state
    /\ SendConfigure(xdgRole)
    /\ UNCHANGED <<xdgKind, xdgAlive, xdgCached, xdgCommits, xdgShown, wlClientVars,
                   xdgKilled, wanted>>

(* xdg_popup.reposition, answered at once with the new state.                *)
Reposition(st) ==
    /\ xdgAlive /\ ~xdgKilled /\ xdgKind = "popup" /\ stage \in {"configured", "mapped"}
    /\ wanted' = st
    /\ SendConfigure([xdgRole EXCEPT !.serverPending = st])
    /\ UNCHANGED <<xdgKind, xdgAlive, xdgCached, xdgCommits, xdgShown, wlClientVars, xdgKilled>>

-----------------------------------------------------------------------------
(* The client reads its next event.                                          *)
Receive ==
    /\ ~xdgKilled /\ inFlight # <<>>
    /\ inFlight' = Tail(inFlight)
    /\ received' = received \cup {Head(inFlight)}
    /\ stage' = IF stage \in {"waiting", "remapping"} THEN "told" ELSE stage
    /\ UNCHANGED <<xdgKind, xdgAlive, xdgRole, xdgCached, xdgCommits, xdgShown, xdgSerial,
                   obeyed, xdgKilled, wanted>>

(* xdg_surface.ack_configure: an unknown serial is a protocol error, a known *)
(* one discards the older ones.                                              *)
AckConfigure(s) ==
    /\ ~xdgKilled /\ xdgAlive /\ s \in received
    /\ received' = {x \in received : x > s}
    /\ stage' = IF stage = "told" THEN "configured" ELSE stage
    /\ IF \E i \in DOMAIN xdgRole.configures : xdgRole.configures[i].serial = s
       THEN /\ xdgRole' = [xdgRole EXCEPT
                   !.acked = CHOOSE c \in {xdgRole.configures[i] :
                                           i \in DOMAIN xdgRole.configures} : c.serial = s,
                   !.configures = Select(@, {i \in DOMAIN @ : @[i].serial > s})]
            /\ UNCHANGED xdgKilled
       ELSE xdgKilled' = TRUE /\ UNCHANGED xdgRole
    /\ UNCHANGED <<xdgKind, xdgAlive, xdgCached, xdgCommits, xdgShown, xdgSerial, inFlight,
                   obeyed, wanted>>

(* xdg_popup.grab is remembered until the next commit.                       *)
RequestGrab ==
    /\ ~xdgKilled /\ xdgAlive /\ xdgKind = "popup" /\ ~xdgRole.grab
    /\ xdgRole' = [xdgRole EXCEPT !.grab = TRUE]
    /\ obeyed' = (obeyed /\ stage # "mapped")
    /\ UNCHANGED <<xdgKind, xdgAlive, xdgCached, xdgCommits, xdgShown, xdgSerial, inFlight,
                   received, stage, xdgKilled, wanted>>

-----------------------------------------------------------------------------
(* wl_surface.commit with a new, a null or no attached buffer.               *)
HadBuffer == xdgCached.pending # NoConfigure

HasBuffer(att) == att = "new" \/ (att = "none" /\ HadBuffer)

(* Wrong variant: a buffer may come before the first ack_configure.          *)
CommitErrorLax(att) ==
    xdgKind = "popup" /\ (~xdgRole.parent \/ (xdgRole.grab /\ HadBuffer))

(* The protocol errors of the pre-commit hooks, if any.                      *)
CommitError(att) ==
    \/ xdgKind = "popup" /\ (~xdgRole.parent \/ (xdgRole.grab /\ HadBuffer))
    \/ HasBuffer(att) /\ xdgRole.acked = NoConfigure

(* Wrong variant: unmapping drops the configures that are on their way.      *)
RoleAfterCommitReset(att) ==
    IF HadBuffer /\ ~HasBuffer(att)
    THEN [DefaultRole(FALSE) EXCEPT
             !.serverPending = IF xdgKind = "toplevel" THEN {} ELSE NoState]
    ELSE [xdgRole EXCEPT !.grab = FALSE]

(* The rest of the hooks.  An unmapped surface starts over, but keeps the    *)
(* configures it has not acknowledged.                                       *)
RoleAfterCommit(att) ==
    IF HadBuffer /\ ~HasBuffer(att)
    THEN [DefaultRole(FALSE) EXCEPT
             !.configures = xdgRole.configures,
             !.serverPending = IF xdgKind = "toplevel" THEN {} ELSE NoState]
    ELSE [xdgRole EXCEPT !.grab = FALSE]

(* What the client takes itself to have done.                                *)
StageAfterCommit(att) ==
    CASE stage = "new" /\ att # "new" -> "waiting"
      [] stage = "unmapped" /\ att # "new" -> "remapping"
      [] stage = "configured" /\ att = "new" -> "mapped"
      [] stage = "mapped" /\ att = "removed" ->
            IF xdgKind = "popup" THEN "gone" ELSE "unmapped"
      [] stage = "bare" /\ att = "removed" -> "none"
      [] OTHER -> stage

Commit(att) ==
    LET error == CommitError(att)
        acked == IF error THEN xdgCached.pending
                 ELSE IF HasBuffer(att) THEN xdgRole.acked ELSE NoConfigure
    IN  /\ ~xdgKilled /\ Len(xdgCommits) < MaxCommits
        /\ ~xdgAlive => stage = "bare" /\ att = "removed"
        /\ obeyed' = (obeyed /\ stage # "gone"
                             /\ (att = "new" => stage \in {"configured", "mapped"}))
        /\ xdgKilled' = (error /\ xdgAlive)
        /\ IF error THEN UNCHANGED <<xdgRole, wanted>>
           ELSE /\ xdgRole' = RoleAfterCommit(att)
                /\ wanted' = IF HadBuffer /\ ~HasBuffer(att) THEN {} ELSE wanted
        /\ xdgCached' = [xdgCached EXCEPT !.pending = acked]
        /\ xdgCommits' = Append(xdgCommits, [buffer |-> att, acked |-> acked])
        /\ stage' = StageAfterCommit(att)
        /\ UNCHANGED <<xdgKind, xdgAlive, xdgShown, xdgSerial, inFlight, received>>

(* The oldest commit is applied, and the compositor's commit handler sends   *)
(* the initial configure if none was sent.                                   *)
Apply ==
    LET c == Head(xdgCommits)
    IN  /\ ~xdgKilled /\ xdgCommits # <<>>
        /\ xdgCommits' = Tail(xdgCommits)
        /\ xdgCached' = [xdgCached EXCEPT !.current = c.acked]
        /\ xdgShown' = CASE c.buffer = "new" -> IF xdgAlive THEN "own" ELSE "old"
                         [] c.buffer = "removed" -> "none"
                         [] c.buffer = "none" -> xdgShown
        /\ IF xdgAlive /\ ~xdgRole.sent THEN SendConfigure(xdgRole)
           ELSE UNCHANGED <<xdgRole, xdgSerial, inFlight>>
        /\ UNCHANGED <<xdgKind, xdgAlive, wlClientVars, xdgKilled, wanted>>

-----------------------------------------------------------------------------
(* The role object is destroyed.  Its attributes and the cached states are   *)
(* reset, except those of commits that still wait.  Events for an xdg_surface*)
(* that the client destroys too are not seen by it.                          *)
DestroyRole ==
    /\ ~xdgKilled /\ xdgAlive
    /\ xdgAlive' = FALSE
    /\ xdgRole' = DefaultRole(FALSE)
    /\ xdgCached' = [pending |-> NoConfigure, current |-> NoConfigure]
    /\ xdgShown' = IF xdgShown = "own" THEN "old" ELSE xdgShown
    /\ stage' = IF HadBuffer THEN "bare" ELSE "none"
    /\ inFlight' = IF ReuseXdgSurface THEN inFlight ELSE <<>>
    /\ received' = {}
    /\ UNCHANGED <<xdgKind, xdgCommits, xdgSerial, obeyed, xdgKilled, wanted>>

(* A new role object, once the client has taken its buffer away.             *)
GetRole(st) ==
    /\ ~xdgKilled /\ ~xdgAlive /\ stage = "none"
    /\ st \in FreshState(xdgKind)
    /\ xdgAlive' = TRUE
    /\ xdgRole' = NewRole(xdgKind, st)
    /\ wanted' = st /\ stage' = "new"
    /\ UNCHANGED <<xdgKind, xdgCached, xdgCommits, xdgShown, xdgSerial, inFlight, received,
                   obeyed, xdgKilled>>

XdgNext ==
    \/ \E f \in Flag : SetState(f)
    \/ \E st \in SUBSET Flag : Reposition(st) \/ GetRole(st)
    \/ Reconfigure \/ Receive \/ RequestGrab \/ Apply \/ DestroyRole
    \/ \E s \in received : AckConfigure(s)
    \/ \E att \in {"new", "removed", "none"} : Commit(att)

XdgSpec == XdgInit /\ [][XdgNext]_xdgVars

-----------------------------------------------------------------------------
XdgTypeOK ==
    /\ xdgKind \in {"toplevel", "popup"} /\ xdgAlive \in BOOLEAN
    /\ xdgRole \in RoleType
    /\ xdgCached \in [{"pending", "current"} -> {NoConfigure} \cup Configures]
    /\ xdgCommits \in Seq(CommitType)
    /\ xdgShown \in {"none", "own", "old"} /\ xdgSerial \in 0..MaxConfigures
    /\ inFlight \in Seq(1..MaxConfigures) /\ received \subseteq 1..MaxConfigures
    /\ stage \in {"new", "waiting", "told", "configured", "mapped", "unmapped",
                 "remapping", "gone", "bare", "none"}
    /\ obeyed \in BOOLEAN /\ xdgKilled \in BOOLEAN /\ wanted \subseteq Flag

(* A client that acknowledges only configures it received and attaches a     *)
(* buffer only after acknowledging one is never disconnected, although the   *)
(* configures it acknowledges may have been sent before it unmapped.         *)
KilledOnlyIfWrong == xdgKilled => ~obeyed

(* No content is on screen under a live role object unless the client had    *)
(* acknowledged a configure when it committed it.                            *)
ShownIsConfigured ==
    xdgShown = "own" /\ xdgAlive /\ ~xdgKilled => xdgCached.current # NoConfigure

(* What the compositor asked for is never lost among the states that are     *)
(* pending, sent and acknowledged: the next configure still carries it.      *)
(* (A popup that was unmapped has lost its parent, and cannot be mapped.)    *)
StateNotLost ==
    xdgAlive /\ ~xdgKilled /\ (xdgKind = "popup" => xdgRole.parent)
        => ServerState(xdgRole) = wanted
=============================================================================
