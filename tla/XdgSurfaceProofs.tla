-------------------------- MODULE XdgSurfaceProofs --------------------------
(* What XdgSurface promises about configures and commits, for any set of     *)
(* state flags and any number of configures and commits.                     *)
(*                                                                           *)
(* The three properties rest on three invariants that do not need each       *)
(* other: the configures of a role object are in the order of their serials  *)
(* (so what ack_configure discards is a prefix, and the last one survives    *)
(* unless it is the acknowledged one); each waiting commit carries an        *)
(* acknowledged configure if it leaves the surface with a buffer; and a      *)
(* client that obeys the protocol knows how far the role object is.          *)
EXTENDS XdgSurface, SubsequenceProofs, TLAPS

InOrder(q) == \A i, j \in DOMAIN q : i < j => q[i].serial < q[j].serial

Discard(q, s) == Select(q, {i \in DOMAIN q : q[i].serial > s})

(* ack_configure keeps the configures sent after the acknowledged one, the   *)
(* last one among them if there are any.                                     *)
LEMMA DiscardOlder ==
    ASSUME NEW q \in Seq(Configures), InOrder(q), NEW s \in Nat
    PROVE  /\ Discard(q, s) \in Seq(Configures)
           /\ InOrder(Discard(q, s))
           /\ \A i \in DOMAIN Discard(q, s) :
                  /\ Discard(q, s)[i].serial > s
                  /\ \E j \in DOMAIN q : Discard(q, s)[i] = q[j]
           /\ \A j \in DOMAIN q : q[j].serial > s =>
                  \E i \in DOMAIN Discard(q, s) : Discard(q, s)[i] = q[j]
           /\ Discard(q, s) # <<>> =>
                  q # <<>> /\ Discard(q, s)[Len(Discard(q, s))] = q[Len(q)]
  <1> DEFINE K == {i \in DOMAIN q : q[i].serial > s}
             r == Select(q, K)
  <1>1. Discard(q, s) = r
    BY DEF Discard
  <1>2. K \in SUBSET DOMAIN q
    OBVIOUS
  <1>3. DOMAIN q = 1 .. Len(q) /\ Len(q) \in Nat /\ \A i \in DOMAIN q : q[i].serial \in Nat
    <2>1. DOMAIN q = 1 .. Len(q) /\ Len(q) \in Nat /\ \A i \in DOMAIN q : q[i] \in Configures
      OBVIOUS
    <2>2. \A c \in Configures : c.serial \in Nat
      BY DEF Configures
    <2> QED
      BY <2>1, <2>2
  <1> HIDE DEF r
  <1>4. PICK m : /\ r \in Seq(Configures)
                 /\ Enumerates(m, Len(r), K)
                 /\ \A j \in DOMAIN r : r[j] = q[m[j]]
    <2> HIDE DEF K
    <2> QED
      BY <1>2, SelectIsSubsequence DEF r
  <1>5. DOMAIN r = 1 .. Len(r) /\ Len(r) \in Nat
    BY <1>4
  <1>6. \A j \in DOMAIN r : m[j] \in DOMAIN q /\ q[m[j]].serial > s
    BY <1>4, <1>5 DEF Enumerates
  <1>7. \A i, j \in DOMAIN r : i < j => m[i] < m[j]
    BY <1>4, <1>5 DEF Enumerates
  <1>8. \A k \in DOMAIN q : q[k].serial > s => \E j \in DOMAIN r : m[j] = k
    BY <1>4, <1>5 DEF Enumerates
  <1>9. InOrder(r)
    BY <1>4, <1>6, <1>7 DEF InOrder
  <1>10. ASSUME r # <<>> PROVE q # <<>> /\ r[Len(r)] = q[Len(q)]
    <2>1. Len(r) \in DOMAIN r
      BY <1>4, <1>5, <1>10
    <2>2. m[Len(r)] \in DOMAIN q /\ q[m[Len(r)]].serial > s
      BY <1>6, <2>1
    <2>3. Len(q) \in DOMAIN q
      BY <1>3, <2>2
    <2>4. q[Len(q)].serial > s
      <3>1. CASE m[Len(r)] = Len(q)
        BY <2>2, <3>1
      <3>2. CASE m[Len(r)] # Len(q)
        <4>1. m[Len(r)] < Len(q)
          BY <1>3, <2>2, <3>2
        <4>2. q[m[Len(r)]].serial < q[Len(q)].serial
          BY <2>2, <2>3, <4>1 DEF InOrder
        <4> QED
          BY <1>3, <2>2, <2>3, <4>2
      <3> QED
        BY <3>1, <3>2
    <2>5. PICK j \in DOMAIN r : m[j] = Len(q)
      BY <1>8, <2>3, <2>4
    <2>6. j = Len(r)
      <3>1. j < Len(r) => Len(q) < m[Len(r)]
        BY <1>7, <2>1, <2>5
      <3> QED
        BY <1>3, <1>5, <2>2, <3>1
    <2> QED
      BY <1>3, <1>4, <2>1, <2>3, <2>5, <2>6
  <1> QED
    BY <1>1, <1>4, <1>6, <1>8, <1>9, <1>10, SMTT(30)

-----------------------------------------------------------------------------
(* The state a configure carries is a set of flags.                          *)
LEMMA ServerStateType ==
    ASSUME NEW r \in RoleType
    PROVE  CurrentServerState(r) \subseteq Flag /\ ServerState(r) \subseteq Flag
  <1>1. r.configures \in Seq(Configures) /\ r.acked \in {NoConfigure} \cup Configures
        /\ r.serverPending \in {NoState} \cup SUBSET Flag
    BY DEF RoleType
  <1>2. r.configures # <<>> => Len(r.configures) \in DOMAIN r.configures
    BY <1>1
  <1>3. r.configures # <<>> => r.configures[Len(r.configures)] \in Configures
    BY <1>1, <1>2
  <1>4. CurrentServerState(r) \subseteq Flag
    BY <1>1, <1>3 DEF CurrentServerState, Configures
  <1> QED
    BY <1>1, <1>4 DEF ServerState

(* send_configure keeps the attributes but for the three it assigns.         *)
LEMMA SendFields ==
    ASSUME XdgTypeOK, NEW r \in RoleType, SendConfigure(r)
    PROVE  \E c \in Configures :
              /\ c.serial = xdgSerial + 1 /\ c.state = ServerState(r)
              /\ xdgSerial' = xdgSerial + 1 /\ xdgSerial' \in 0..MaxConfigures
              /\ inFlight' = Append(inFlight, c.serial)
              /\ inFlight' \in Seq(1..MaxConfigures)
              /\ xdgRole' \in RoleType
              /\ xdgRole'.configures = Append(r.configures, c)
              /\ \/ xdgRole'.serverPending = NoState
                 \/ xdgRole'.serverPending = r.serverPending
              /\ xdgRole'.acked = r.acked /\ xdgRole'.parent = r.parent
              /\ xdgRole'.grab = r.grab /\ xdgRole'.sent = TRUE
  <1> DEFINE c == [serial |-> xdgSerial + 1, state |-> ServerState(r)]
             p == IF xdgKind = "toplevel" /\ r.sent /\ r.serverPending = CurrentServerState(r)
                  THEN r.serverPending ELSE NoState
             q == Append(r.configures, c)
  <1>1. xdgSerial + 1 \in 1..MaxConfigures /\ xdgSerial' = xdgSerial + 1
        /\ inFlight' = Append(inFlight, c.serial)
    BY XdgConstants DEF SendConfigure, XdgTypeOK
  <1>2. c \in Configures
    BY <1>1, ServerStateType DEF Configures
  <1>3. q \in Seq(Configures)
    <2>1. r.configures \in Seq(Configures)
      BY DEF RoleType
    <2> QED
      BY <1>2, <2>1
  <1>4. p \in {NoState, r.serverPending} /\ p \in {NoState} \cup SUBSET Flag
    BY DEF RoleType
  <1>5. xdgRole' = [r EXCEPT !.configures = q, !.serverPending = p, !.sent = TRUE]
    BY DEF SendConfigure
  <1>6. inFlight' \in Seq(1..MaxConfigures)
    BY <1>1 DEF XdgTypeOK
  <1> HIDE DEF q, p
  <1>7. /\ xdgRole' \in RoleType /\ xdgRole'.configures = q /\ xdgRole'.serverPending = p
        /\ xdgRole'.acked = r.acked /\ xdgRole'.parent = r.parent
        /\ xdgRole'.grab = r.grab /\ xdgRole'.sent = TRUE
    BY <1>3, <1>4, <1>5 DEF RoleType
  <1> QED
    BY <1>1, <1>2, <1>4, <1>6, <1>7, XdgConstants DEF q

(* ack_configure of a configure that was sent, and of one that was not.      *)
LEMMA AckFields ==
    ASSUME XdgTypeOK, InOrder(xdgRole.configures), NEW s \in received, AckConfigure(s)
    PROVE  /\ s \in Nat
           /\ \/ /\ \A i \in DOMAIN xdgRole.configures : xdgRole.configures[i].serial # s
                 /\ xdgKilled' /\ xdgRole' = xdgRole
              \/ /\ xdgKilled' = xdgKilled
                 /\ xdgRole' \in RoleType
                 /\ xdgRole'.configures = Discard(xdgRole.configures, s)
                 /\ \E i \in DOMAIN xdgRole.configures :
                       /\ xdgRole.configures[i].serial = s
                       /\ xdgRole'.acked = xdgRole.configures[i]
                 /\ xdgRole'.acked \in Configures
                 /\ xdgRole'.serverPending = xdgRole.serverPending
                 /\ xdgRole'.sent = xdgRole.sent /\ xdgRole'.parent = xdgRole.parent
                 /\ xdgRole'.grab = xdgRole.grab
  <1> DEFINE q == xdgRole.configures
             a == CHOOSE c \in {q[i] : i \in DOMAIN q} : c.serial = s
             d == Discard(q, s)
  <1>1. s \in Nat /\ q \in Seq(Configures) /\ xdgRole \in RoleType
    <2>1. xdgRole \in RoleType /\ received \subseteq 1..MaxConfigures
      BY DEF XdgTypeOK
    <2>2. q \in Seq(Configures)
      BY <2>1 DEF RoleType
    <2> QED
      BY <2>1, <2>2, XdgConstants
  <1>2. CASE ~ \E i \in DOMAIN q : q[i].serial = s
    BY <1>1, <1>2 DEF AckConfigure
  <1>3. CASE \E i \in DOMAIN q : q[i].serial = s
    <2>1. \E i \in DOMAIN q : a = q[i] /\ q[i].serial = s
      BY <1>3
    <2>2. \A i \in DOMAIN q : q[i] \in Configures
      BY <1>1
    <2>3. d \in Seq(Configures)
      BY <1>1, DiscardOlder
    <2>4. xdgRole' = [xdgRole EXCEPT !.acked = a, !.configures = d] /\ xdgKilled' = xdgKilled
      BY <1>3 DEF AckConfigure, Discard
    <2> HIDE DEF a, d
    <2>5. a \in Configures
      BY <2>1, <2>2
    <2>6. /\ xdgRole' \in RoleType
          /\ xdgRole'.configures = d /\ xdgRole'.acked = a
          /\ xdgRole'.serverPending = xdgRole.serverPending
          /\ xdgRole'.sent = xdgRole.sent /\ xdgRole'.parent = xdgRole.parent
          /\ xdgRole'.grab = xdgRole.grab
      BY <1>1, <2>3, <2>4, <2>5 DEF RoleType
    <2> QED
      BY <1>1, <2>1, <2>4, <2>5, <2>6 DEF d
  <1> QED
    BY <1>2, <1>3

(* A commit that the hooks accept: what becomes of the attributes.           *)
LEMMA CommitFields ==
    ASSUME XdgTypeOK, NEW att
    PROVE  /\ RoleAfterCommit(att) \in RoleType
           /\ RoleAfterCommit(att).configures = xdgRole.configures
           /\ RoleAfterCommit(att).grab = FALSE
           /\ HadBuffer /\ ~HasBuffer(att) =>
                 /\ RoleAfterCommit(att).parent = FALSE
                 /\ xdgKind = "toplevel" => RoleAfterCommit(att).serverPending = {}
           /\ ~(HadBuffer /\ ~HasBuffer(att)) =>
                 /\ RoleAfterCommit(att).serverPending = xdgRole.serverPending
                 /\ RoleAfterCommit(att).acked = xdgRole.acked
                 /\ RoleAfterCommit(att).parent = xdgRole.parent
  <1>1. xdgRole \in RoleType /\ xdgRole.configures \in Seq(Configures)
    BY DEF XdgTypeOK, RoleType
  <1>2. CASE HadBuffer /\ ~HasBuffer(att)
    <2> DEFINE p == IF xdgKind = "toplevel" THEN {} ELSE NoState
               q == xdgRole.configures
    <2>1. RoleAfterCommit(att) =
             [sent |-> FALSE, configures |-> q, serverPending |-> p,
              acked |-> NoConfigure, parent |-> FALSE, grab |-> FALSE]
      BY <1>2 DEF RoleAfterCommit, DefaultRole
    <2>2. p \in {NoState} \cup SUBSET Flag
      OBVIOUS
    <2>3. xdgKind = "toplevel" => p = {}
      OBVIOUS
    <2>4. q \in Seq(Configures) /\ q = xdgRole.configures
      BY <1>1
    <2> HIDE DEF p, q
    <2>5. RoleAfterCommit(att) \in RoleType
      BY <2>1, <2>2, <2>4 DEF RoleType
    <2>6. /\ RoleAfterCommit(att).configures = q /\ RoleAfterCommit(att).grab = FALSE
          /\ RoleAfterCommit(att).parent = FALSE /\ RoleAfterCommit(att).serverPending = p
      BY <2>1
    <2> QED
      BY <1>2, <2>3, <2>4, <2>5, <2>6
  <1>3. CASE ~(HadBuffer /\ ~HasBuffer(att))
    <2>1. RoleAfterCommit(att) = [xdgRole EXCEPT !.grab = FALSE]
      BY <1>3 DEF RoleAfterCommit
    <2> QED
      BY <1>1, <1>3, <2>1 DEF RoleType
  <1> QED
    BY <1>2, <1>3

(* A new or forgotten role object has sent nothing.                          *)
LEMMA NewRoleFields ==
    ASSUME NEW parent \in BOOLEAN
    PROVE  /\ DefaultRole(parent) \in RoleType
           /\ DefaultRole(parent).configures = <<>>
           /\ DefaultRole(parent).acked = NoConfigure
           /\ \A kind \in {"toplevel", "popup"}, st \in SUBSET Flag :
                 /\ NewRole(kind, st) \in RoleType
                 /\ NewRole(kind, st).configures = <<>>
                 /\ NewRole(kind, st).serverPending = st
                 /\ NewRole(kind, st).acked = NoConfigure
                 /\ NewRole(kind, st).parent = (kind = "popup")
                 /\ NewRole(kind, st).grab = FALSE
  <1>1. <<>> \in Seq(Configures)
    OBVIOUS
  <1>2. DefaultRole(parent) \in RoleType
    BY <1>1 DEF DefaultRole, RoleType
  <1>3. DefaultRole(parent).configures = <<>> /\ DefaultRole(parent).acked = NoConfigure
    BY DEF DefaultRole
  <1>4. ASSUME NEW kind \in {"toplevel", "popup"}, NEW st \in SUBSET Flag
        PROVE  /\ NewRole(kind, st) \in RoleType
               /\ NewRole(kind, st).configures = <<>>
               /\ NewRole(kind, st).serverPending = st
               /\ NewRole(kind, st).acked = NoConfigure
               /\ NewRole(kind, st).parent = (kind = "popup")
               /\ NewRole(kind, st).grab = FALSE
    <2> DEFINE b == kind = "popup"
    <2>1. b \in BOOLEAN
      OBVIOUS
    <2>2. NewRole(kind, st) = [DefaultRole(b) EXCEPT !.serverPending = st]
      BY DEF NewRole
    <2> HIDE DEF b
    <2>3. NewRole(kind, st) =
             [sent |-> FALSE, configures |-> <<>>, serverPending |-> st,
              acked |-> NoConfigure, parent |-> b, grab |-> FALSE]
      BY <2>2 DEF DefaultRole
    <2>4. /\ NewRole(kind, st) \in RoleType /\ NewRole(kind, st).configures = <<>>
          /\ NewRole(kind, st).serverPending = st /\ NewRole(kind, st).acked = NoConfigure
          /\ NewRole(kind, st).parent = b /\ NewRole(kind, st).grab = FALSE
      BY <1>1, <2>1, <2>3 DEF RoleType
    <2> QED
      BY <2>4 DEF b
  <1> QED
    BY <1>2, <1>3, <1>4

-----------------------------------------------------------------------------
(* Types and serials: the configures a role object has not seen acknowledged *)
(* and the events on their way are in the order of their serials, and what   *)
(* the client has received is older than what is on its way.                 *)
RoleInOrder ==
    /\ InOrder(xdgRole.configures)
    /\ \A i \in DOMAIN xdgRole.configures : xdgRole.configures[i].serial <= xdgSerial

EventsInOrder ==
    /\ \A i, j \in DOMAIN inFlight : i < j => inFlight[i] < inFlight[j]
    /\ \A i \in DOMAIN inFlight : inFlight[i] <= xdgSerial
    /\ \A s \in received : s <= xdgSerial /\ \A i \in DOMAIN inFlight : s < inFlight[i]

XdgInv == XdgTypeOK /\ RoleInOrder /\ EventsInOrder

(* Any S: the provers take an interval apart where they should not.          *)
LEMMA SeqElements ==
    ASSUME NEW S, NEW q \in Seq(S)
    PROVE  DOMAIN q = 1 .. Len(q) /\ \A i \in 1 .. Len(q) : q[i] \in S
  OBVIOUS

(* A configure is newer than everything that was sent before it.             *)
LEMMA SendInOrder ==
    ASSUME XdgInv, NEW r \in RoleType, r.configures = xdgRole.configures,
           SendConfigure(r), received' = received
    PROVE  RoleInOrder' /\ EventsInOrder'
  <1> DEFINE q == xdgRole.configures
  <1>1. PICK c \in Configures :
           /\ c.serial = xdgSerial + 1 /\ xdgSerial' = xdgSerial + 1
           /\ inFlight' = Append(inFlight, c.serial)
           /\ xdgRole'.configures = Append(q, c)
    BY SendFields DEF XdgInv
  <1>2. xdgSerial \in Nat /\ q \in Seq(Configures) /\ inFlight \in Seq(1..MaxConfigures)
        /\ received \subseteq 1..MaxConfigures
    BY XdgConstants DEF XdgInv, XdgTypeOK, RoleType
  <1>3. \A i \in DOMAIN q : q[i].serial \in Nat /\ q[i].serial <= xdgSerial
    <2>1. \A x \in Configures : x.serial \in Nat
      BY DEF Configures
    <2> QED
      BY <1>2, <2>1 DEF XdgInv, RoleInOrder
  <1>4. /\ DOMAIN q = 1 .. Len(q) /\ Len(q) \in Nat
        /\ DOMAIN Append(q, c) = 1 .. Len(q) + 1
        /\ \A i \in 1 .. Len(q) : Append(q, c)[i] = q[i]
        /\ Append(q, c)[Len(q) + 1] = c
    BY <1>2
  <1>5. InOrder(q)
    BY DEF XdgInv, RoleInOrder
  <1>6. ASSUME NEW i \in DOMAIN Append(q, c)
        PROVE  Append(q, c)[i].serial <= xdgSerial + 1
    <2>1. CASE i = Len(q) + 1
      BY <1>1, <1>2, <1>4, <2>1
    <2>2. CASE i # Len(q) + 1
      BY <1>2, <1>3, <1>4, <2>2
    <2> QED
      BY <2>1, <2>2
  <1>7. ASSUME NEW i \in DOMAIN Append(q, c), NEW j \in DOMAIN Append(q, c), i < j
        PROVE  Append(q, c)[i].serial < Append(q, c)[j].serial
    <2>1. i \in DOMAIN q /\ Append(q, c)[i] = q[i]
      BY <1>4, <1>7
    <2>2. CASE j = Len(q) + 1
      BY <1>1, <1>2, <1>3, <1>4, <2>1, <2>2
    <2>3. CASE j # Len(q) + 1
      <3>1. j \in DOMAIN q /\ Append(q, c)[j] = q[j]
        BY <1>4, <2>3
      <3> QED
        BY <1>5, <1>7, <2>1, <3>1 DEF InOrder
    <2> QED
      BY <2>2, <2>3
  <1>8. RoleInOrder'
    BY <1>1, <1>6, <1>7 DEF RoleInOrder, InOrder
  <1>9. EventsInOrder'
    <2>1. DOMAIN inFlight' = 1 .. Len(inFlight) + 1 /\ Len(inFlight) \in Nat
          /\ DOMAIN inFlight = 1 .. Len(inFlight)
          /\ inFlight'[Len(inFlight) + 1] = xdgSerial + 1
          /\ \A i \in 1 .. Len(inFlight) : inFlight'[i] = inFlight[i] /\ inFlight[i] \in Nat
      <3>1. inFlight' = Append(inFlight, xdgSerial + 1)
        BY <1>1
      <3>2. \A i \in 1 .. Len(inFlight) : inFlight[i] \in 1..MaxConfigures
        BY <1>2, SeqElements
      <3>3. 1..MaxConfigures \subseteq Nat
        BY XdgConstants
      <3> QED
        BY <1>2, <3>1, <3>2, <3>3
    <2>2. /\ \A i, j \in 1 .. Len(inFlight) : i < j => inFlight[i] < inFlight[j]
          /\ \A i \in 1 .. Len(inFlight) : inFlight[i] <= xdgSerial
          /\ \A s \in received : s <= xdgSerial /\ s \in Nat
          /\ \A s \in received : \A i \in 1 .. Len(inFlight) : s < inFlight[i]
      <3>1. \A s \in received : s \in Nat
        BY <1>2, XdgConstants
      <3> QED
        BY <2>1, <3>1 DEF XdgInv, EventsInOrder
    <2>3. \A i \in DOMAIN inFlight' : i \in 1 .. Len(inFlight) \/ i = Len(inFlight) + 1
      BY <2>1
    <2>4. ASSUME NEW i \in DOMAIN inFlight', NEW j \in DOMAIN inFlight', i < j
          PROVE  inFlight'[i] < inFlight'[j]
      <3>1. i \in 1 .. Len(inFlight) /\ inFlight'[i] = inFlight[i]
        BY <2>1, <2>4
      <3>2. CASE j = Len(inFlight) + 1
        BY <1>2, <2>1, <2>2, <3>1, <3>2
      <3>3. CASE j \in 1 .. Len(inFlight)
        BY <2>1, <2>2, <2>4, <3>1, <3>3
      <3> QED
        BY <2>3, <3>2, <3>3
    <2>5. \A i \in DOMAIN inFlight' : inFlight'[i] <= xdgSerial'
      BY <1>1, <1>2, <2>1, <2>2, <2>3
    <2>6. \A s \in received : s <= xdgSerial' /\ \A i \in DOMAIN inFlight' : s < inFlight'[i]
      BY <1>1, <1>2, <2>1, <2>2, <2>3
    <2> QED
      BY <2>4, <2>5, <2>6 DEF EventsInOrder
  <1> QED
    BY <1>8, <1>9

(* Only the serials matter: a step that leaves them alone keeps the order.   *)
LEMMA SameOrder ==
    ASSUME XdgInv, xdgRole'.configures = xdgRole.configures, inFlight' = inFlight,
           received' = received, xdgSerial' = xdgSerial
    PROVE  RoleInOrder' /\ EventsInOrder'
  BY DEF XdgInv, RoleInOrder, EventsInOrder

LEMMA XdgInvInit == XdgInit => XdgInv
  <1> SUFFICES ASSUME XdgInit PROVE XdgInv
    OBVIOUS
  <1>1. xdgKind \in {"toplevel", "popup"} /\ wanted \in SUBSET Flag
    BY DEF XdgInit, FreshState
  <1>2. xdgRole \in RoleType /\ xdgRole.configures = <<>>
    BY <1>1, NewRoleFields DEF XdgInit
  <1>3. XdgTypeOK
    <2>1. xdgCommits \in Seq(CommitType) /\ inFlight \in Seq(1..MaxConfigures)
      BY DEF XdgInit
    <2>2. xdgSerial \in 0..MaxConfigures
      BY XdgConstants DEF XdgInit
    <2>3. xdgCached \in [{"pending", "current"} -> {NoConfigure} \cup Configures]
      BY DEF XdgInit
    <2> QED
      BY <1>1, <1>2, <2>1, <2>2, <2>3 DEF XdgInit, XdgTypeOK
  <1>4. RoleInOrder /\ EventsInOrder
    BY <1>2 DEF XdgInit, RoleInOrder, EventsInOrder, InOrder
  <1> QED
    BY <1>3, <1>4 DEF XdgInv

LEMMA XdgInvStep == XdgInv /\ [XdgNext]_xdgVars => XdgInv'
  <1> SUFFICES ASSUME XdgInv, [XdgNext]_xdgVars PROVE XdgInv'
    OBVIOUS
  <1>0. XdgTypeOK /\ xdgRole \in RoleType /\ InOrder(xdgRole.configures)
    BY DEF XdgInv, XdgTypeOK, RoleInOrder
  <1> USE DEF wlClientVars
  <1>1. ASSUME NEW f \in Flag, SetState(f) PROVE XdgInv'
    <2>1. wanted' \subseteq Flag /\ xdgRole' = [xdgRole EXCEPT !.serverPending = wanted']
      BY <1>0, <1>1, ServerStateType DEF SetState
    <2>2. xdgRole' \in RoleType /\ xdgRole'.configures = xdgRole.configures
      BY <1>0, <2>1 DEF RoleType
    <2>3. XdgTypeOK'
      BY <1>0, <1>1, <2>1, <2>2 DEF SetState, XdgTypeOK
    <2> QED
      BY <1>1, <2>2, <2>3, SameOrder DEF SetState, XdgInv
  <1>2. ASSUME NEW st \in SUBSET Flag, Reposition(st) PROVE XdgInv'
    <2> DEFINE r == [xdgRole EXCEPT !.serverPending = st]
    <2>1. r \in RoleType /\ r.configures = xdgRole.configures
      BY <1>0 DEF RoleType
    <2>2. SendConfigure(r) /\ received' = received
      BY <1>2 DEF Reposition
    <2> HIDE DEF r
    <2>3. xdgSerial' \in 0..MaxConfigures /\ inFlight' \in Seq(1..MaxConfigures)
          /\ xdgRole' \in RoleType
      BY <1>0, <2>1, <2>2, SendFields
    <2>4. XdgTypeOK'
      BY <1>0, <1>2, <2>3 DEF Reposition, XdgTypeOK
    <2> QED
      BY <2>1, <2>2, <2>4, SendInOrder DEF XdgInv
  <1>3. ASSUME NEW st \in SUBSET Flag, GetRole(st) PROVE XdgInv'
    <2>1. xdgRole' \in RoleType /\ xdgRole'.configures = <<>>
      BY <1>0, <1>3, NewRoleFields DEF GetRole, XdgTypeOK
    <2>2. XdgTypeOK'
      BY <1>0, <1>3, <2>1 DEF GetRole, XdgTypeOK
    <2>3. RoleInOrder' /\ EventsInOrder'
      BY <1>3, <2>1 DEF GetRole, XdgInv, RoleInOrder, EventsInOrder, InOrder
    <2> QED
      BY <2>2, <2>3 DEF XdgInv
  <1>4. CASE Reconfigure
    <2>1. SendConfigure(xdgRole) /\ received' = received
      BY <1>4 DEF Reconfigure
    <2>2. xdgSerial' \in 0..MaxConfigures /\ inFlight' \in Seq(1..MaxConfigures)
          /\ xdgRole' \in RoleType
      BY <1>0, <2>1, SendFields
    <2>3. XdgTypeOK'
      BY <1>0, <1>4, <2>2 DEF Reconfigure, XdgTypeOK
    <2> QED
      BY <1>0, <2>1, <2>3, SendInOrder DEF XdgInv
  <1>5. CASE Receive
    <2>1. inFlight \in Seq(1..MaxConfigures) /\ inFlight # <<>>
          /\ received \subseteq 1..MaxConfigures
      BY <1>0, <1>5 DEF Receive, XdgTypeOK
    <2>2. /\ inFlight' = Tail(inFlight) /\ received' = received \cup {Head(inFlight)}
          /\ xdgRole' = xdgRole /\ xdgSerial' = xdgSerial
      BY <1>5 DEF Receive
    <2>3. /\ inFlight' \in Seq(1..MaxConfigures) /\ Len(inFlight') = Len(inFlight) - 1
          /\ Head(inFlight) = inFlight[1] /\ 1 \in DOMAIN inFlight
          /\ \A i \in DOMAIN inFlight' : inFlight'[i] = inFlight[i + 1] /\ i + 1 \in DOMAIN inFlight
          /\ \A i \in DOMAIN inFlight : inFlight[i] \in 1..MaxConfigures
          /\ DOMAIN inFlight' = 1 .. Len(inFlight) - 1
      <3>1. inFlight' \in Seq(1..MaxConfigures) /\ Len(inFlight') = Len(inFlight) - 1
            /\ DOMAIN inFlight' = 1 .. Len(inFlight) - 1
        BY <2>1, <2>2
      <3>2. Head(inFlight) = inFlight[1] /\ 1 \in DOMAIN inFlight
        BY <2>1
      <3>3. \A i \in 1 .. Len(inFlight) - 1 :
               Tail(inFlight)[i] = inFlight[i + 1] /\ i + 1 \in DOMAIN inFlight
        BY <2>1
      <3>4. \A i \in DOMAIN inFlight : inFlight[i] \in 1..MaxConfigures
        BY <2>1, SeqElements
      <3> QED
        BY <2>2, <3>1, <3>2, <3>3, <3>4
    <2>4. received' \subseteq 1..MaxConfigures
      BY <2>1, <2>2, <2>3
    <2>5. XdgTypeOK'
      BY <1>0, <1>5, <2>3, <2>4 DEF Receive, XdgTypeOK
    <2>6. RoleInOrder'
      BY <2>2 DEF XdgInv, RoleInOrder
    <2>7. \A i \in DOMAIN inFlight' : inFlight[1] < inFlight'[i]
      <3>1. \A i \in DOMAIN inFlight' : i + 1 \in DOMAIN inFlight /\ 1 < i + 1
        BY <2>3
      <3> QED
        BY <2>3, <3>1 DEF XdgInv, EventsInOrder
    <2>8. \A i, j \in DOMAIN inFlight' : i < j => inFlight'[i] < inFlight'[j]
      <3>1. \A i, j \in DOMAIN inFlight' : i < j => i + 1 < j + 1
        BY <2>3
      <3> QED
        BY <2>3, <3>1 DEF XdgInv, EventsInOrder
    <2>9. EventsInOrder'
      BY <2>2, <2>3, <2>7, <2>8 DEF XdgInv, EventsInOrder
    <2> QED
      BY <2>5, <2>6, <2>9 DEF XdgInv
  <1>6. CASE RequestGrab
    <2>1. xdgRole' = [xdgRole EXCEPT !.grab = TRUE]
      BY <1>6 DEF RequestGrab
    <2>2. xdgRole' \in RoleType /\ xdgRole'.configures = xdgRole.configures
      BY <1>0, <2>1 DEF RoleType
    <2>3. XdgTypeOK'
      BY <1>0, <1>6, <2>2 DEF RequestGrab, XdgTypeOK
    <2> QED
      BY <1>6, <2>2, <2>3, SameOrder DEF RequestGrab, XdgInv
  <1>7. CASE Apply
    <2>1. xdgCommits \in Seq(CommitType) /\ xdgCommits # <<>>
      BY <1>0, <1>7 DEF Apply, XdgTypeOK
    <2>2. xdgCommits' \in Seq(CommitType) /\ Head(xdgCommits) \in CommitType
      BY <1>7, <2>1 DEF Apply
    <2>3. xdgCached' \in [{"pending", "current"} -> {NoConfigure} \cup Configures]
          /\ xdgShown' \in {"none", "own", "old"}
      BY <1>0, <1>7, <2>2 DEF Apply, XdgTypeOK, CommitType
    <2>4. received' = received
      BY <1>7 DEF Apply
    <2>5. CASE SendConfigure(xdgRole)
      <3>1. xdgSerial' \in 0..MaxConfigures /\ inFlight' \in Seq(1..MaxConfigures)
            /\ xdgRole' \in RoleType
        BY <1>0, <2>5, SendFields
      <3>2. XdgTypeOK'
        BY <1>0, <1>7, <2>2, <2>3, <3>1 DEF Apply, XdgTypeOK
      <3> QED
        BY <1>0, <2>4, <2>5, <3>2, SendInOrder DEF XdgInv
    <2>6. CASE UNCHANGED <<xdgRole, xdgSerial, inFlight>>
      <3>1. XdgTypeOK'
        BY <1>0, <1>7, <2>2, <2>3, <2>6 DEF Apply, XdgTypeOK
      <3> QED
        BY <2>4, <2>6, <3>1, SameOrder DEF XdgInv
    <2> QED
      BY <1>7, <2>5, <2>6 DEF Apply
  <1>8. CASE DestroyRole
    <2>1. xdgRole' \in RoleType /\ xdgRole'.configures = <<>>
      BY <1>8, NewRoleFields DEF DestroyRole
    <2>2. inFlight' = inFlight \/ inFlight' = <<>>
      BY <1>8 DEF DestroyRole
    <2>3. inFlight' \in Seq(1..MaxConfigures)
      <3>1. inFlight \in Seq(1..MaxConfigures) /\ <<>> \in Seq(1..MaxConfigures)
        BY <1>0 DEF XdgTypeOK
      <3> QED
        BY <2>2, <3>1
    <2>4. xdgCached' \in [{"pending", "current"} -> {NoConfigure} \cup Configures]
      BY <1>8 DEF DestroyRole
    <2>5. XdgTypeOK'
      BY <1>0, <1>8, <2>1, <2>3, <2>4 DEF DestroyRole, XdgTypeOK
    <2>6. RoleInOrder'
      BY <2>1 DEF RoleInOrder, InOrder
    <2>7. received' = {} /\ xdgSerial' = xdgSerial
      BY <1>8 DEF DestroyRole
    <2>8. EventsInOrder'
      <3>1. CASE inFlight' = inFlight
        BY <2>7, <3>1 DEF XdgInv, EventsInOrder
      <3>2. CASE inFlight' = <<>>
        BY <2>7, <3>2 DEF EventsInOrder
      <3> QED
        BY <2>2, <3>1, <3>2
    <2> QED
      BY <2>5, <2>6, <2>8 DEF XdgInv
  <1>9. ASSUME NEW s \in received, AckConfigure(s) PROVE XdgInv'
    <2>1. xdgRole' \in RoleType
          /\ xdgRole'.configures \in {xdgRole.configures, Discard(xdgRole.configures, s)}
          /\ xdgKilled' \in BOOLEAN /\ s \in Nat
      BY <1>0, <1>9, AckFields DEF XdgTypeOK
    <2>2. XdgTypeOK'
      BY <1>0, <1>9, <2>1 DEF AckConfigure, XdgTypeOK
    <2>3. RoleInOrder'
      <3>1. xdgRole.configures \in Seq(Configures) /\ xdgSerial' = xdgSerial
        BY <1>0, <1>9 DEF RoleType, AckConfigure
      <3>2. CASE xdgRole'.configures = xdgRole.configures
        BY <3>1, <3>2 DEF XdgInv, RoleInOrder
      <3>3. CASE xdgRole'.configures = Discard(xdgRole.configures, s)
        <4>1. /\ InOrder(Discard(xdgRole.configures, s))
              /\ \A i \in DOMAIN Discard(xdgRole.configures, s) :
                    \E j \in DOMAIN xdgRole.configures :
                        Discard(xdgRole.configures, s)[i] = xdgRole.configures[j]
          BY <1>0, <2>1, <3>1, DiscardOlder
        <4> QED
          BY <3>1, <3>3, <4>1 DEF XdgInv, RoleInOrder
      <3> QED
        BY <2>1, <3>2, <3>3
    <2>4. EventsInOrder'
      BY <1>9 DEF AckConfigure, XdgInv, EventsInOrder
    <2> QED
      BY <2>2, <2>3, <2>4 DEF XdgInv
  <1>10. ASSUME NEW att \in {"new", "removed", "none"}, Commit(att) PROVE XdgInv'
    <2>1. xdgRole' \in {xdgRole, RoleAfterCommit(att)} /\ wanted' \in {wanted, {}}
          /\ UNCHANGED <<xdgSerial, inFlight, received>>
      BY <1>10 DEF Commit
    <2>2. xdgRole' \in RoleType /\ xdgRole'.configures = xdgRole.configures
      BY <1>0, <2>1, CommitFields
    <2>3. PICK acked \in {xdgCached.pending, xdgRole.acked, NoConfigure} :
             /\ xdgCached' = [xdgCached EXCEPT !.pending = acked]
             /\ xdgCommits' = Append(xdgCommits, [buffer |-> att, acked |-> acked])
      BY <1>10 DEF Commit
    <2>4. acked \in {NoConfigure} \cup Configures
      BY <1>0 DEF XdgTypeOK, RoleType
    <2>5. xdgCached' \in [{"pending", "current"} -> {NoConfigure} \cup Configures]
      BY <1>0, <2>3, <2>4 DEF XdgTypeOK
    <2>6. [buffer |-> att, acked |-> acked] \in CommitType
      BY <2>4 DEF CommitType
    <2>7. xdgCommits' \in Seq(CommitType)
      BY <1>0, <2>3, <2>6 DEF XdgTypeOK
    <2>8. obeyed' \in BOOLEAN /\ xdgKilled' \in BOOLEAN
      BY <1>0, <1>10 DEF Commit, CommitError, XdgTypeOK
    <2>9. stage' \in {"new", "waiting", "told", "configured", "mapped", "unmapped",
                      "remapping", "gone", "bare", "none"}
      BY <1>0, <1>10 DEF Commit, StageAfterCommit, XdgTypeOK
    <2>10. XdgTypeOK'
      BY <1>0, <1>10, <2>1, <2>2, <2>5, <2>7, <2>8, <2>9 DEF Commit, XdgTypeOK
    <2> QED
      BY <2>1, <2>2, <2>10, SameOrder DEF XdgInv
  <1>11. CASE UNCHANGED xdgVars
    <2>1. XdgTypeOK'
      BY <1>0, <1>11 DEF xdgVars, XdgTypeOK
    <2> QED
      BY <1>11, <2>1, SameOrder DEF xdgVars, XdgInv
  <1> QED
    BY <1>1, <1>2, <1>3, <1>4, <1>5, <1>6, <1>7, <1>8, <1>9, <1>10, <1>11 DEF XdgNext

LEMMA XdgInductive == XdgSpec => []XdgInv
  BY XdgInvInit, XdgInvStep, PTL DEF XdgSpec

(* The attributes of the role object, the cached states and the commits that *)
(* wait keep their types.                                                    *)
THEOREM XdgTypeCorrect == XdgSpec => []XdgTypeOK
  <1>1. XdgInv => XdgTypeOK
    BY DEF XdgInv
  <1> QED
    BY <1>1, XdgInductive, PTL

-----------------------------------------------------------------------------
(* The state the compositor asked for travels from server_pending to the     *)
(* last configure to last_acked, and no hop drops it.                        *)

LEMMA ServerStateOf ==
    ASSUME NEW r, NEW q \in RoleType, q.configures = r.configures, q.acked = r.acked,
           q.serverPending = r.serverPending
    PROVE  ServerState(q) = ServerState(r)
  BY DEF ServerState, CurrentServerState

LEMMA PendingIsServerState ==
    ASSUME NEW r \in RoleType, NEW st \in SUBSET Flag, r.serverPending = st
    PROVE  ServerState(r) = st
  BY XdgConstants DEF ServerState

(* send_configure sends what was pending, or repeats what was sent last.     *)
LEMMA SendKeepsState ==
    ASSUME XdgTypeOK, NEW r \in RoleType, SendConfigure(r)
    PROVE  ServerState(xdgRole') = ServerState(r) /\ xdgRole'.parent = r.parent
  <1>1. PICK c \in Configures :
           /\ c.state = ServerState(r)
           /\ xdgRole'.configures = Append(r.configures, c)
           /\ \/ xdgRole'.serverPending = NoState
              \/ xdgRole'.serverPending = r.serverPending
           /\ xdgRole'.parent = r.parent
    BY SendFields
  <1>2. r.configures \in Seq(Configures)
    BY DEF RoleType
  <1>3. /\ Append(r.configures, c) # <<>>
        /\ Append(r.configures, c)[Len(Append(r.configures, c))] = c
    BY <1>2
  <1>4. CurrentServerState(xdgRole') = c.state
    BY <1>1, <1>3 DEF CurrentServerState
  <1>5. CASE xdgRole'.serverPending = NoState
    BY <1>1, <1>4, <1>5 DEF ServerState
  <1>6. CASE xdgRole'.serverPending # NoState
    BY <1>1, <1>6 DEF ServerState
  <1> QED
    BY <1>1, <1>5, <1>6

(* ack_configure moves a state to last_acked only if no newer one was sent.  *)
LEMMA AckKeepsState ==
    ASSUME XdgInv, NEW s \in received, AckConfigure(s)
    PROVE  ServerState(xdgRole') = ServerState(xdgRole) /\ xdgRole'.parent = xdgRole.parent
  <1> DEFINE q == xdgRole.configures
             d == Discard(q, s)
  <1>1. XdgTypeOK /\ xdgRole \in RoleType /\ InOrder(q) /\ q \in Seq(Configures)
    BY DEF XdgInv, XdgTypeOK, RoleType, RoleInOrder
  <1>2. CASE xdgRole' = xdgRole
    BY <1>2
  <1>3. CASE xdgRole' # xdgRole
    <2>1. /\ s \in Nat
          /\ xdgRole'.configures = d
          /\ xdgRole'.serverPending = xdgRole.serverPending
          /\ xdgRole'.parent = xdgRole.parent
          /\ xdgRole'.acked \in Configures
          /\ \E i \in DOMAIN q : q[i].serial = s /\ xdgRole'.acked = q[i]
      BY <1>1, <1>3, AckFields
    <2>2. PICK i \in DOMAIN q : q[i].serial = s /\ xdgRole'.acked = q[i]
      BY <2>1
    <2>3. /\ DOMAIN q = 1 .. Len(q) /\ Len(q) \in Nat /\ Len(q) \in DOMAIN q /\ q # <<>>
          /\ \A n \in DOMAIN q : q[n] \in Configures
      BY <1>1, <2>2
    <2>4. /\ \A j \in DOMAIN q : q[j].serial > s => \E n \in DOMAIN d : d[n] = q[j]
          /\ d # <<>> => d[Len(d)] = q[Len(q)]
      BY <1>1, <2>1, DiscardOlder
    <2>5. CASE d # <<>>
      <3>1. CurrentServerState(xdgRole') = CurrentServerState(xdgRole)
        BY <2>1, <2>3, <2>4, <2>5 DEF CurrentServerState
      <3> QED
        BY <2>1, <3>1 DEF ServerState
    <2>6. CASE d = <<>>
      <3>1. ~(q[Len(q)].serial > s)
        BY <2>3, <2>4, <2>6
      <3>2. i = Len(q)
        <4>1. \A c \in Configures : c.serial \in Nat
          BY DEF Configures
        <4>2. i < Len(q) => q[i].serial < q[Len(q)].serial
          BY <1>1, <2>2, <2>3 DEF InOrder
        <4>3. q[Len(q)].serial \in Nat /\ q[i].serial \in Nat
          BY <2>2, <2>3, <4>1
        <4> QED
          BY <2>2, <2>3, <3>1, <4>2, <4>3
      <3>3. xdgRole'.acked # NoConfigure
        BY <2>1, XdgConstants DEF Configures
      <3>4. CurrentServerState(xdgRole') = CurrentServerState(xdgRole)
        BY <2>1, <2>2, <2>3, <2>6, <3>2, <3>3 DEF CurrentServerState
      <3> QED
        BY <2>1, <3>4 DEF ServerState
    <2> QED
      BY <2>1, <2>5, <2>6
  <1> QED
    BY <1>2, <1>3

LEMMA StateKept == XdgInv /\ StateNotLost /\ [XdgNext]_xdgVars => StateNotLost'
  <1> SUFFICES ASSUME XdgInv, StateNotLost, [XdgNext]_xdgVars,
                      xdgAlive', ~xdgKilled', xdgKind' = "popup" => xdgRole'.parent
               PROVE  ServerState(xdgRole') = wanted'
    BY DEF StateNotLost, ServerState, CurrentServerState
  <1>0. XdgTypeOK /\ xdgRole \in RoleType /\ xdgKind \in {"toplevel", "popup"}
        /\ xdgAlive \in BOOLEAN /\ xdgKilled \in BOOLEAN
    BY DEF XdgInv, XdgTypeOK
  <1> USE DEF wlClientVars
  <1>1. ASSUME NEW f \in Flag, SetState(f) PROVE ServerState(xdgRole') = wanted'
    <2>1. wanted' \in SUBSET Flag /\ xdgRole' = [xdgRole EXCEPT !.serverPending = wanted']
      BY <1>0, <1>1, ServerStateType DEF SetState
    <2>2. xdgRole' \in RoleType /\ xdgRole'.serverPending = wanted'
      BY <1>0, <2>1 DEF RoleType
    <2> QED
      BY <2>1, <2>2, PendingIsServerState
  <1>2. ASSUME NEW st \in SUBSET Flag, Reposition(st) PROVE ServerState(xdgRole') = wanted'
    <2> DEFINE r == [xdgRole EXCEPT !.serverPending = st]
    <2>1. r \in RoleType /\ r.serverPending = st
      BY <1>0 DEF RoleType
    <2>2. SendConfigure(r) /\ wanted' = st
      BY <1>2 DEF Reposition
    <2> HIDE DEF r
    <2> QED
      BY <1>0, <2>1, <2>2, SendKeepsState, PendingIsServerState
  <1>3. ASSUME NEW st \in SUBSET Flag, GetRole(st) PROVE ServerState(xdgRole') = wanted'
    <2>1. xdgRole' \in RoleType /\ xdgRole'.serverPending = st /\ wanted' = st
      BY <1>0, <1>3, NewRoleFields DEF GetRole
    <2> QED
      BY <2>1, PendingIsServerState
  <1>4. CASE Reconfigure
    <2>1. SendConfigure(xdgRole) /\ UNCHANGED <<xdgKind, xdgAlive, xdgKilled, wanted>>
      BY <1>4 DEF Reconfigure
    <2> QED
      BY <1>0, <2>1, SendKeepsState DEF StateNotLost
  <1>5. CASE Receive
    BY <1>5 DEF Receive, StateNotLost
  <1>6. CASE RequestGrab
    <2>1. xdgRole' = [xdgRole EXCEPT !.grab = TRUE]
          /\ UNCHANGED <<xdgKind, xdgAlive, xdgKilled, wanted>>
      BY <1>6 DEF RequestGrab
    <2>2. /\ xdgRole' \in RoleType /\ xdgRole'.configures = xdgRole.configures
          /\ xdgRole'.acked = xdgRole.acked /\ xdgRole'.parent = xdgRole.parent
          /\ xdgRole'.serverPending = xdgRole.serverPending
      BY <1>0, <2>1 DEF RoleType
    <2> QED
      BY <2>1, <2>2, ServerStateOf DEF StateNotLost
  <1>7. CASE Apply
    <2>1. UNCHANGED <<xdgKind, xdgAlive, xdgKilled, wanted>>
      BY <1>7 DEF Apply
    <2>2. CASE SendConfigure(xdgRole)
      BY <1>0, <2>1, <2>2, SendKeepsState DEF StateNotLost
    <2>3. CASE xdgRole' = xdgRole
      BY <2>1, <2>3 DEF StateNotLost
    <2> QED
      BY <1>7, <2>2, <2>3 DEF Apply
  <1>8. CASE DestroyRole
    BY <1>8 DEF DestroyRole
  <1>9. ASSUME NEW s \in received, AckConfigure(s) PROVE ServerState(xdgRole') = wanted'
    <2>1. ~xdgKilled /\ UNCHANGED <<xdgKind, xdgAlive, wanted>>
      BY <1>9 DEF AckConfigure
    <2> QED
      BY <1>9, <2>1, AckKeepsState DEF StateNotLost
  <1>10. ASSUME NEW att \in {"new", "removed", "none"}, Commit(att)
         PROVE  ServerState(xdgRole') = wanted'
    <2>1. ~xdgKilled /\ UNCHANGED <<xdgKind, xdgAlive>>
      BY <1>10 DEF Commit
    <2>2. ~CommitError(att)
      <3>1. xdgKilled' = (CommitError(att) /\ xdgAlive)
        BY <1>10 DEF Commit
      <3> QED
        BY <2>1, <3>1
    <2>3. /\ xdgRole' = RoleAfterCommit(att)
          /\ wanted' = IF HadBuffer /\ ~HasBuffer(att) THEN {} ELSE wanted
      BY <1>10, <2>2 DEF Commit
    <2>4. CASE HadBuffer /\ ~HasBuffer(att)
      <3>1. xdgRole' \in RoleType /\ xdgRole'.parent = FALSE
            /\ (xdgKind = "toplevel" => xdgRole'.serverPending = {})
        BY <1>0, <2>3, <2>4, CommitFields
      <3>2. xdgKind = "toplevel"
        BY <1>0, <2>1, <3>1
      <3> QED
        BY <2>3, <2>4, <3>1, <3>2, PendingIsServerState
    <2>5. CASE ~(HadBuffer /\ ~HasBuffer(att))
      <3>1. /\ xdgRole' \in RoleType /\ xdgRole'.configures = xdgRole.configures
            /\ xdgRole'.acked = xdgRole.acked /\ xdgRole'.parent = xdgRole.parent
            /\ xdgRole'.serverPending = xdgRole.serverPending
        BY <1>0, <2>3, <2>5, CommitFields
      <3>2. ServerState(xdgRole') = ServerState(xdgRole)
        BY <3>1, ServerStateOf
      <3> QED
        BY <2>1, <2>3, <2>5, <3>1, <3>2 DEF StateNotLost
    <2> QED
      BY <2>4, <2>5
  <1>11. CASE UNCHANGED xdgVars
    BY <1>11 DEF xdgVars, StateNotLost
  <1> QED
    BY <1>1, <1>2, <1>3, <1>4, <1>5, <1>6, <1>7, <1>8, <1>9, <1>10, <1>11 DEF XdgNext

(* What the compositor asked for is in the next configure, whatever was      *)
(* sent, acknowledged, repeated or unmapped meanwhile.                       *)
THEOREM StatesAreNotLost == XdgSpec => []StateNotLost
  <1>1. XdgInit => StateNotLost
    <2> SUFFICES ASSUME XdgInit PROVE ServerState(xdgRole) = wanted
      BY DEF StateNotLost
    <2>1. xdgKind \in {"toplevel", "popup"} /\ wanted \in SUBSET Flag
      BY DEF XdgInit, FreshState
    <2>2. xdgRole \in RoleType /\ xdgRole.serverPending = wanted
      BY <2>1, NewRoleFields DEF XdgInit
    <2> QED
      BY <2>1, <2>2, PendingIsServerState
  <1> QED
    BY <1>1, StateKept, XdgInductive, PTL DEF XdgSpec

-----------------------------------------------------------------------------
(* Content on screen was configured.  The commits that wait decide what will *)
(* be on screen: each one that attaches a buffer, or keeps one that the one  *)
(* before it had, carries an acknowledged configure.                         *)

Before(k) == IF k = 1 THEN xdgCached.current ELSE xdgCommits[k - 1].acked

LastAcked ==
    IF xdgCommits = <<>> THEN xdgCached.current ELSE xdgCommits[Len(xdgCommits)].acked

CommitConfigured(k) ==
    /\ xdgCommits[k].buffer = "new" => xdgCommits[k].acked # NoConfigure
    /\ xdgCommits[k].buffer = "none" /\ Before(k) # NoConfigure
          => xdgCommits[k].acked # NoConfigure

ShownInv ==
    /\ \A k \in DOMAIN xdgCommits : CommitConfigured(k)
    /\ xdgAlive => /\ LastAcked # NoConfigure => xdgCached.pending # NoConfigure
                   /\ stage \notin {"bare", "none"}
    /\ ~xdgAlive => /\ xdgShown # "own"
                    /\ xdgCached.pending = NoConfigure
                    /\ stage = "none" => LastAcked = NoConfigure
    /\ xdgShown = "own" => xdgCached.current # NoConfigure

(* A step that leaves the commits and the cached states alone.               *)
LEMMA SameCommits ==
    ASSUME XdgInv, ShownInv, UNCHANGED <<xdgAlive, xdgCached, xdgCommits, xdgShown>>,
           stage' = stage \/ (stage \notin {"bare", "none"} /\ stage' \notin {"bare", "none"})
    PROVE  ShownInv'
  <1>1. (\A k \in DOMAIN xdgCommits : CommitConfigured(k))'
    BY DEF ShownInv, CommitConfigured, Before
  <1>2. LastAcked' = LastAcked
    BY DEF LastAcked
  <1> QED
    BY <1>1, <1>2 DEF ShownInv

(* wl_surface.commit adds a commit that is configured.                       *)
LEMMA ShownCommit ==
    ASSUME XdgInv, ShownInv, ~xdgKilled, NEW att \in {"new", "removed", "none"},
           Commit(att), ~xdgKilled'
    PROVE  ShownInv'
  <1>0. XdgTypeOK /\ xdgAlive \in BOOLEAN /\ xdgCommits \in Seq(CommitType)
        /\ xdgCached \in [{"pending", "current"} -> {NoConfigure} \cup Configures]
    BY DEF XdgInv, XdgTypeOK
  <1> DEFINE acked == IF CommitError(att) THEN xdgCached.pending
                      ELSE IF HasBuffer(att) THEN xdgRole.acked ELSE NoConfigure
             new == [buffer |-> att, acked |-> acked]
  <1>1. /\ xdgCached' = [xdgCached EXCEPT !.pending = acked]
        /\ xdgCommits' = Append(xdgCommits, new)
        /\ stage' = StageAfterCommit(att)
        /\ UNCHANGED <<xdgAlive, xdgShown>>
        /\ ~xdgAlive => stage = "bare" /\ att = "removed"
        /\ xdgKilled' = (CommitError(att) /\ xdgAlive)
    BY DEF Commit
  <1>2. xdgCached'.pending = acked /\ xdgCached'.current = xdgCached.current
        /\ new.buffer = att /\ new.acked = acked
    BY <1>0, <1>1
  <1>3. xdgAlive => ~CommitError(att)
    BY <1>1
  <1>4. xdgAlive /\ HasBuffer(att) => acked # NoConfigure
    BY <1>3 DEF CommitError
  <1>5. ~xdgAlive => acked = NoConfigure
    <2>1. att = "removed" => ~HasBuffer(att)
      BY DEF HasBuffer
    <2> QED
      BY <1>1, <2>1 DEF ShownInv
  <1> HIDE DEF acked, new
  <1>6. /\ DOMAIN xdgCommits = 1 .. Len(xdgCommits) /\ Len(xdgCommits) \in Nat
        /\ DOMAIN xdgCommits' = 1 .. Len(xdgCommits) + 1
        /\ Len(xdgCommits') = Len(xdgCommits) + 1 /\ xdgCommits' # <<>>
        /\ \A k \in 1 .. Len(xdgCommits) : xdgCommits'[k] = xdgCommits[k]
        /\ xdgCommits'[Len(xdgCommits) + 1] = new
    BY <1>0, <1>1
  <1>7. LastAcked' = acked
    BY <1>2, <1>6 DEF LastAcked
  <1>8. ASSUME NEW k \in DOMAIN xdgCommits' PROVE CommitConfigured(k)'
    <2>1. CASE k # Len(xdgCommits) + 1
      <3>1. k \in DOMAIN xdgCommits /\ xdgCommits'[k] = xdgCommits[k]
            /\ (k # 1 => xdgCommits'[k - 1] = xdgCommits[k - 1])
        BY <1>6, <2>1
      <3>2. CommitConfigured(k)
        BY <3>1 DEF ShownInv
      <3> QED
        BY <1>2, <3>1, <3>2 DEF CommitConfigured, Before
    <2>2. CASE k = Len(xdgCommits) + 1
      <3>1. xdgCommits'[k].buffer = att /\ xdgCommits'[k].acked = acked
        BY <1>2, <1>6, <2>2
      <3>2. Before(k)' = LastAcked
        <4>1. CASE xdgCommits = <<>>
          BY <1>2, <1>6, <2>2, <4>1 DEF Before, LastAcked
        <4>2. CASE xdgCommits # <<>>
          <5>1. k # 1 /\ k - 1 = Len(xdgCommits) /\ Len(xdgCommits) \in 1 .. Len(xdgCommits)
            BY <1>0, <1>6, <2>2, <4>2
          <5> QED
            BY <1>6, <4>2, <5>1 DEF Before, LastAcked
        <4> QED
          BY <4>1, <4>2
      <3>3. CASE xdgAlive
        <4>1. att = "none" /\ LastAcked # NoConfigure => HasBuffer(att)
          BY <3>3 DEF ShownInv, HasBuffer, HadBuffer
        <4>2. att = "new" => HasBuffer(att)
          BY DEF HasBuffer
        <4> QED
          BY <1>4, <3>1, <3>2, <3>3, <4>1, <4>2 DEF CommitConfigured
      <3>4. CASE ~xdgAlive
        BY <1>1, <3>1, <3>4 DEF CommitConfigured
      <3> QED
        BY <3>3, <3>4
    <2> QED
      BY <2>1, <2>2
  <1>9. xdgAlive => stage' \notin {"bare", "none"}
    BY <1>1 DEF ShownInv, StageAfterCommit
  <1> QED
    BY <1>1, <1>2, <1>5, <1>7, <1>8, <1>9 DEF ShownInv

(* The oldest commit becomes the current state.                              *)
LEMMA ShownApply ==
    ASSUME XdgInv, ShownInv, Apply
    PROVE  ShownInv'
  <1> DEFINE c == Head(xdgCommits)
  <1>0. XdgTypeOK /\ xdgAlive \in BOOLEAN /\ xdgCommits \in Seq(CommitType) /\ xdgCommits # <<>>
        /\ xdgCached \in [{"pending", "current"} -> {NoConfigure} \cup Configures]
    BY DEF XdgInv, XdgTypeOK, Apply
  <1>1. /\ xdgCommits' = Tail(xdgCommits)
        /\ xdgCached' = [xdgCached EXCEPT !.current = c.acked]
        /\ xdgShown' = CASE c.buffer = "new" -> IF xdgAlive THEN "own" ELSE "old"
                         [] c.buffer = "removed" -> "none"
                         [] c.buffer = "none" -> xdgShown
        /\ UNCHANGED <<xdgAlive, stage>>
    BY DEF Apply, wlClientVars
  <1>2. /\ 1 \in DOMAIN xdgCommits /\ c = xdgCommits[1] /\ c \in CommitType
        /\ Len(xdgCommits) \in Nat /\ Len(xdgCommits) >= 1
        /\ DOMAIN xdgCommits = 1 .. Len(xdgCommits)
        /\ xdgCommits' \in Seq(CommitType)
        /\ Len(xdgCommits') = Len(xdgCommits) - 1
        /\ DOMAIN xdgCommits' = 1 .. Len(xdgCommits) - 1
        /\ \A k \in 1 .. Len(xdgCommits) - 1 : xdgCommits'[k] = xdgCommits[k + 1]
    BY <1>0, <1>1
  <1>3. c.buffer \in {"new", "removed", "none"}
    BY <1>2 DEF CommitType
  <1>4. xdgCached'.current = c.acked /\ xdgCached'.pending = xdgCached.pending
    BY <1>0, <1>1
  <1>5. CommitConfigured(1)
    BY <1>2 DEF ShownInv
  <1> HIDE DEF c
  <1>6. xdgShown' = "own" => xdgCached'.current # NoConfigure
    <2>1. CASE c.buffer = "new"
      BY <1>2, <1>4, <1>5, <2>1 DEF CommitConfigured
    <2>2. CASE c.buffer = "removed"
      BY <1>1, <2>2
    <2>3. CASE c.buffer = "none"
      BY <1>1, <1>2, <1>4, <1>5, <2>3 DEF CommitConfigured, Before, ShownInv
    <2> QED
      BY <1>3, <2>1, <2>2, <2>3
  <1>7. ~xdgAlive => xdgShown' # "own"
    BY <1>1, <1>3 DEF ShownInv
  <1>8. LastAcked' = LastAcked
    <2>1. CASE Len(xdgCommits) = 1
      <3>1. xdgCommits' = <<>>
        BY <1>2, <2>1
      <3> QED
        BY <1>0, <1>2, <1>4, <2>1, <3>1 DEF LastAcked
    <2>2. CASE Len(xdgCommits) # 1
      <3>1. /\ xdgCommits' # <<>> /\ Len(xdgCommits') = Len(xdgCommits) - 1
            /\ Len(xdgCommits) - 1 \in 1 .. Len(xdgCommits) - 1
            /\ Len(xdgCommits) - 1 + 1 = Len(xdgCommits)
        BY <1>2, <2>2
      <3>2. xdgCommits'[Len(xdgCommits')] = xdgCommits[Len(xdgCommits)]
        BY <1>2, <3>1
      <3> QED
        BY <1>0, <3>1, <3>2 DEF LastAcked
    <2> QED
      BY <2>1, <2>2
  <1>9. ASSUME NEW k \in DOMAIN xdgCommits' PROVE CommitConfigured(k)'
    <2>1. k + 1 \in DOMAIN xdgCommits /\ k + 1 # 1 /\ xdgCommits'[k] = xdgCommits[k + 1]
          /\ k + 1 - 1 = k
      BY <1>2
    <2>2. CommitConfigured(k + 1)
      BY <2>1 DEF ShownInv
    <2>3. Before(k)' = xdgCommits[k].acked
      <3>1. CASE k = 1
        BY <1>2, <1>4, <3>1 DEF Before
      <3>2. CASE k # 1
        <4>1. k - 1 \in 1 .. Len(xdgCommits) - 1 /\ k - 1 + 1 = k
          BY <1>2, <3>2
        <4> QED
          BY <1>2, <3>2, <4>1 DEF Before
      <3> QED
        BY <3>1, <3>2
    <2>4. Before(k + 1) = xdgCommits[k].acked
      BY <1>2, <2>1 DEF Before
    <2> QED
      BY <2>1, <2>2, <2>3, <2>4 DEF CommitConfigured
  <1> QED
    BY <1>1, <1>4, <1>6, <1>7, <1>8, <1>9 DEF ShownInv

(* Destroying the role object forgets the cached states, not the commits.    *)
LEMMA ShownDestroy ==
    ASSUME XdgInv, ShownInv, DestroyRole
    PROVE  ShownInv'
  <1>1. /\ xdgAlive /\ ~xdgAlive' /\ xdgCommits' = xdgCommits
        /\ xdgCached' = [pending |-> NoConfigure, current |-> NoConfigure]
        /\ xdgShown' = IF xdgShown = "own" THEN "old" ELSE xdgShown
        /\ stage' = IF HadBuffer THEN "bare" ELSE "none"
    BY DEF DestroyRole
  <1>2. xdgCached'.pending = NoConfigure /\ xdgCached'.current = NoConfigure
    BY <1>1
  <1>3. ASSUME NEW k \in DOMAIN xdgCommits PROVE CommitConfigured(k)'
    <2>1. CommitConfigured(k)
      BY DEF ShownInv
    <2> QED
      BY <1>1, <1>2, <2>1 DEF CommitConfigured, Before
  <1>4. stage' = "none" => LastAcked' = NoConfigure
    BY <1>1, <1>2 DEF LastAcked, HadBuffer, ShownInv
  <1> QED
    BY <1>1, <1>2, <1>3, <1>4 DEF ShownInv

LEMMA ShownStep ==
    XdgInv /\ (~xdgKilled => ShownInv) /\ [XdgNext]_xdgVars => (~xdgKilled => ShownInv)'
  <1> SUFFICES ASSUME XdgInv, ~xdgKilled => ShownInv, [XdgNext]_xdgVars, ~xdgKilled'
               PROVE  ShownInv'
    OBVIOUS
  <1> USE DEF wlClientVars
  <1>0. xdgAlive \in BOOLEAN /\ xdgKilled \in BOOLEAN
    BY DEF XdgInv, XdgTypeOK
  <1>1. ASSUME NEW f \in Flag, SetState(f) PROVE ShownInv'
    BY <1>1, SameCommits DEF SetState
  <1>2. ASSUME NEW st \in SUBSET Flag, Reposition(st) PROVE ShownInv'
    BY <1>2, SameCommits DEF Reposition
  <1>3. ASSUME NEW st \in SUBSET Flag, GetRole(st) PROVE ShownInv'
    <2>1. /\ ~xdgKilled /\ ~xdgAlive /\ stage = "none" /\ xdgAlive' /\ stage' = "new"
          /\ UNCHANGED <<xdgCached, xdgCommits, xdgShown>>
      BY <1>3 DEF GetRole
    <2>2. LastAcked' = LastAcked /\ LastAcked = NoConfigure /\ xdgShown # "own"
      BY <2>1 DEF ShownInv, LastAcked
    <2>3. (\A k \in DOMAIN xdgCommits : CommitConfigured(k))'
      BY <2>1 DEF ShownInv, CommitConfigured, Before
    <2> QED
      BY <2>1, <2>2, <2>3 DEF ShownInv
  <1>4. CASE Reconfigure
    BY <1>4, SameCommits DEF Reconfigure
  <1>5. CASE Receive
    BY <1>5, SameCommits DEF Receive
  <1>6. CASE RequestGrab
    BY <1>6, SameCommits DEF RequestGrab
  <1>7. CASE Apply
    BY <1>7, ShownApply DEF Apply
  <1>8. CASE DestroyRole
    BY <1>8, ShownDestroy DEF DestroyRole
  <1>9. ASSUME NEW s \in received, AckConfigure(s) PROVE ShownInv'
    BY <1>9, SameCommits DEF AckConfigure
  <1>10. ASSUME NEW att \in {"new", "removed", "none"}, Commit(att) PROVE ShownInv'
    BY <1>10, ShownCommit DEF Commit
  <1>11. CASE UNCHANGED xdgVars
    BY <1>11, SameCommits DEF xdgVars
  <1> QED
    BY <1>1, <1>2, <1>3, <1>4, <1>5, <1>6, <1>7, <1>8, <1>9, <1>10, <1>11 DEF XdgNext

(* Content under a live role object was committed after an ack_configure,    *)
(* however long blockers held the commit back and whatever was destroyed,    *)
(* created or unmapped meanwhile.                                            *)
THEOREM ContentIsConfigured == XdgSpec => []ShownIsConfigured
  <1>1. XdgInit => ShownInv
    <2> SUFFICES ASSUME XdgInit PROVE ShownInv
      OBVIOUS
    <2>1. DOMAIN xdgCommits = {} /\ xdgCommits = <<>>
      BY DEF XdgInit
    <2> QED
      BY <2>1 DEF XdgInit, ShownInv, LastAcked
  <1>2. (~xdgKilled => ShownInv) => ShownIsConfigured
    BY DEF ShownInv, ShownIsConfigured
  <1> QED
    BY <1>1, <1>2, ShownStep, XdgInductive, PTL DEF XdgSpec

-----------------------------------------------------------------------------
(* A client that obeys the protocol is not disconnected.  It knows less than *)
(* the role object: what it received must still be known there, and the      *)
(* stage it takes itself to be in must imply what the commit hooks test.     *)
(* Events of a destroyed role object must not reach its successor, which     *)
(* ReuseXdgSurface = FALSE says (a client that creates the next role object  *)
(* from the same xdg_surface does receive them).                             *)

Known(s) == \E i \in DOMAIN xdgRole.configures : xdgRole.configures[i].serial = s

AllKnown ==
    /\ \A s \in received : Known(s)
    /\ \A i \in DOMAIN inFlight : Known(inFlight[i])

StageTrue ==
    /\ HadBuffer => stage = "mapped" /\ ~xdgRole.grab
    /\ xdgKind = "popup" => xdgRole.parent \/ stage = "gone"
    /\ stage \in {"configured", "mapped"} => xdgRole.acked # NoConfigure

ObeyInv ==
    /\ KilledOnlyIfWrong
    /\ xdgAlive /\ ~xdgKilled => AllKnown
    /\ ~xdgAlive => received = {} /\ inFlight = <<>>
    /\ xdgAlive /\ obeyed => StageTrue

SerialFacts == XdgInv /\ (~xdgKilled => ShownInv)

(* send_configure adds the configure to both lists.                          *)
LEMMA ObeySend ==
    ASSUME SerialFacts, ObeyInv, xdgAlive, ~xdgKilled, NEW r \in RoleType,
           r.configures = xdgRole.configures, r.acked = xdgRole.acked,
           r.parent = xdgRole.parent, r.grab = xdgRole.grab, SendConfigure(r),
           UNCHANGED <<xdgKind, xdgAlive, received, stage, obeyed, xdgKilled>>,
           xdgCached'.pending = xdgCached.pending
    PROVE  ObeyInv'
  <1> DEFINE q == xdgRole.configures
  <1>1. XdgTypeOK /\ q \in Seq(Configures) /\ inFlight \in Seq(1..MaxConfigures)
    BY DEF SerialFacts, XdgInv, XdgTypeOK, RoleType
  <1>2. PICK c \in Configures :
           /\ inFlight' = Append(inFlight, c.serial)
           /\ xdgRole'.configures = Append(q, c)
           /\ xdgRole'.acked = r.acked /\ xdgRole'.parent = r.parent /\ xdgRole'.grab = r.grab
    BY <1>1, SendFields
  <1>3. /\ DOMAIN q = 1 .. Len(q) /\ Len(q) \in Nat
        /\ DOMAIN Append(q, c) = 1 .. Len(q) + 1
        /\ \A i \in 1 .. Len(q) : Append(q, c)[i] = q[i]
        /\ Append(q, c)[Len(q) + 1] = c
    BY <1>1
  <1>4. Known(c.serial)' /\ \A s : Known(s) => Known(s)'
    BY <1>2, <1>3 DEF Known
  <1>5. c.serial \in 1..MaxConfigures
    BY DEF Configures
  <1>6. /\ DOMAIN inFlight' = 1 .. Len(inFlight) + 1 /\ DOMAIN inFlight = 1 .. Len(inFlight)
        /\ Len(inFlight) \in Nat
        /\ \A i \in 1 .. Len(inFlight) : inFlight'[i] = inFlight[i]
        /\ inFlight'[Len(inFlight) + 1] = c.serial
    <2> DEFINE S == 1..MaxConfigures
               x == c.serial
    <2>1. inFlight \in Seq(S) /\ x \in S /\ inFlight' = Append(inFlight, x)
      BY <1>1, <1>2, <1>5
    <2> HIDE DEF S, x
    <2>2. /\ DOMAIN inFlight' = 1 .. Len(inFlight) + 1 /\ DOMAIN inFlight = 1 .. Len(inFlight)
          /\ Len(inFlight) \in Nat
          /\ \A i \in 1 .. Len(inFlight) : inFlight'[i] = inFlight[i]
          /\ inFlight'[Len(inFlight) + 1] = x
      BY <2>1
    <2> QED
      BY <2>2 DEF x
  <1>7. AllKnown
    BY DEF ObeyInv
  <1>8. AllKnown'
    <2>1. \A s \in received' : Known(s)'
      BY <1>4, <1>7 DEF AllKnown
    <2>2. ASSUME NEW i \in DOMAIN inFlight' PROVE Known(inFlight[i])'
      <3>1. CASE i = Len(inFlight) + 1
        BY <1>4, <1>6, <3>1 DEF Known
      <3>2. CASE i # Len(inFlight) + 1
        <4>1. i \in DOMAIN inFlight /\ inFlight'[i] = inFlight[i]
          BY <1>6, <3>2
        <4>2. Known(inFlight[i])
          BY <1>7, <4>1 DEF AllKnown
        <4> QED
          BY <1>4, <4>1, <4>2 DEF Known
      <3> QED
        BY <3>1, <3>2
    <2> QED
      BY <2>1, <2>2 DEF AllKnown
  <1>9. obeyed => StageTrue'
    BY <1>2 DEF ObeyInv, StageTrue, HadBuffer
  <1> QED
    BY <1>8, <1>9 DEF ObeyInv, KilledOnlyIfWrong

(* ack_configure of a received serial finds it.                              *)
LEMMA ObeyAck ==
    ASSUME SerialFacts, ObeyInv, NEW s \in received, AckConfigure(s)
    PROVE  ObeyInv'
  <1> DEFINE q == xdgRole.configures
             d == Discard(q, s)
  <1>1. XdgTypeOK /\ q \in Seq(Configures) /\ InOrder(q) /\ s \in Nat
        /\ received \subseteq 1..MaxConfigures /\ inFlight \in Seq(1..MaxConfigures)
    <2>1. XdgTypeOK /\ xdgRole \in RoleType /\ InOrder(q)
          /\ received \subseteq 1..MaxConfigures /\ inFlight \in Seq(1..MaxConfigures)
      BY DEF SerialFacts, XdgInv, XdgTypeOK, RoleInOrder
    <2>2. q \in Seq(Configures)
      BY <2>1 DEF RoleType
    <2> QED
      BY <2>1, <2>2, XdgConstants
  <1>2. /\ xdgAlive /\ ~xdgKilled /\ received' = {x \in received : x > s}
        /\ stage' = IF stage = "told" THEN "configured" ELSE stage
        /\ UNCHANGED <<xdgKind, xdgAlive, xdgCached, inFlight, obeyed>>
    BY DEF AckConfigure
  <1>3. AllKnown
    BY <1>2 DEF ObeyInv
  <1>4. /\ xdgKilled' = xdgKilled
        /\ xdgRole'.configures = d
        /\ xdgRole'.acked \in Configures
        /\ xdgRole'.parent = xdgRole.parent /\ xdgRole'.grab = xdgRole.grab
    <2>1. Known(s)
      BY <1>3 DEF AllKnown
    <2> QED
      BY <1>1, <2>1, AckFields DEF Known
  <1>5. ASSUME NEW x, Known(x), x > s PROVE Known(x)'
    <2>1. PICK j \in DOMAIN q : q[j].serial = x
      BY <1>5 DEF Known
    <2>2. \E i \in DOMAIN d : d[i] = q[j]
      BY <1>1, <1>5, <2>1, DiscardOlder
    <2> QED
      BY <1>4, <2>1, <2>2 DEF Known
  <1>6. AllKnown'
    <2>1. \A x \in received' : Known(x)'
      BY <1>2, <1>3, <1>5 DEF AllKnown
    <2>2. ASSUME NEW i \in DOMAIN inFlight PROVE Known(inFlight[i])'
      <3>1. s < inFlight[i]
        BY DEF SerialFacts, XdgInv, EventsInOrder
      <3>2. inFlight[i] \in 1..MaxConfigures
        BY <1>1, SeqElements
      <3>3. inFlight[i] > s
        BY <1>1, <3>1, <3>2, XdgConstants
      <3>4. Known(inFlight[i])
        BY <1>3 DEF AllKnown
      <3> QED
        BY <1>2, <1>5, <3>3, <3>4 DEF Known
    <2> QED
      BY <1>2, <2>1, <2>2 DEF AllKnown
  <1>7. xdgRole'.acked # NoConfigure
    BY <1>4, XdgConstants DEF Configures
  <1>8. obeyed => StageTrue'
    BY <1>2, <1>4, <1>7 DEF ObeyInv, StageTrue, HadBuffer
  <1> QED
    BY <1>2, <1>4, <1>6, <1>8 DEF ObeyInv, KilledOnlyIfWrong

(* The hooks reject a commit only of a client that disobeys.                 *)
LEMMA ObeyCommit ==
    ASSUME SerialFacts, ObeyInv, NEW att \in {"new", "removed", "none"}, Commit(att)
    PROVE  ObeyInv'
  <1>1. XdgTypeOK /\ xdgAlive \in BOOLEAN /\ obeyed \in BOOLEAN
        /\ xdgKind \in {"toplevel", "popup"}
        /\ xdgCached \in [{"pending", "current"} -> {NoConfigure} \cup Configures]
    BY DEF SerialFacts, XdgInv, XdgTypeOK
  <1>2. /\ ~xdgKilled /\ stage' = StageAfterCommit(att)
        /\ UNCHANGED <<xdgKind, xdgAlive, inFlight, received>>
        /\ xdgKilled' = (CommitError(att) /\ xdgAlive)
        /\ obeyed' = (obeyed /\ stage # "gone"
                             /\ (att = "new" => stage \in {"configured", "mapped"}))
    BY DEF Commit
  <1>3. CASE ~xdgAlive
    BY <1>2, <1>3 DEF ObeyInv, KilledOnlyIfWrong
  <1>4. CASE xdgAlive /\ CommitError(att)
    <2>1. xdgKilled'
      BY <1>2, <1>4
    <2>2. ~obeyed'
      <3> SUFFICES ASSUME obeyed' PROVE FALSE
        OBVIOUS
      <3>1. StageTrue /\ stage # "gone" /\ (att = "new" => stage \in {"configured", "mapped"})
        BY <1>2, <1>4 DEF ObeyInv
      <3>2. HasBuffer(att) => xdgRole.acked # NoConfigure
        BY <3>1 DEF HasBuffer, StageTrue
      <3>3. ~(xdgKind = "popup" /\ (~xdgRole.parent \/ (xdgRole.grab /\ HadBuffer)))
        BY <3>1 DEF StageTrue
      <3> QED
        BY <1>4, <3>2, <3>3 DEF CommitError
    <2> QED
      BY <1>2, <1>4, <2>1, <2>2 DEF ObeyInv, KilledOnlyIfWrong
  <1>5. CASE xdgAlive /\ ~CommitError(att)
    <2>1. xdgRole' = RoleAfterCommit(att) /\ ~xdgKilled'
      BY <1>2, <1>5 DEF Commit
    <2>2. xdgCached' = [xdgCached EXCEPT !.pending =
                           IF HasBuffer(att) THEN xdgRole.acked ELSE NoConfigure]
      BY <1>5 DEF Commit
    <2>3. xdgCached'.pending = IF HasBuffer(att) THEN xdgRole.acked ELSE NoConfigure
      BY <1>1, <2>2
    <2>4. AllKnown'
      <3>1. xdgRole'.configures = xdgRole.configures
        BY <1>1, <2>1, CommitFields
      <3>2. AllKnown
        BY <1>2, <1>5 DEF ObeyInv
      <3> QED
        BY <1>2, <3>1, <3>2 DEF AllKnown, Known
    <2>5. ASSUME obeyed' PROVE StageTrue'
      <3>1. StageTrue /\ stage # "gone" /\ (att = "new" => stage \in {"configured", "mapped"})
        BY <1>2, <1>5, <2>5 DEF ObeyInv
      <3>2. xdgRole'.grab = FALSE
        BY <1>1, <2>1, CommitFields
      <3>3. CASE HadBuffer /\ ~HasBuffer(att)
        <4>1. stage = "mapped" /\ att = "removed"
          BY <3>1, <3>3 DEF StageTrue, HasBuffer
        <4>2. stage' = IF xdgKind = "popup" THEN "gone" ELSE "unmapped"
          BY <1>2, <4>1 DEF StageAfterCommit
        <4>3. xdgCached'.pending = NoConfigure
          BY <2>3, <3>3
        <4> QED
          BY <1>2, <4>2, <4>3 DEF StageTrue, HadBuffer
      <3>4. CASE ~(HadBuffer /\ ~HasBuffer(att))
        <4>1. xdgRole'.acked = xdgRole.acked /\ xdgRole'.parent = xdgRole.parent
          BY <1>1, <2>1, <3>4, CommitFields
        <4>2. HasBuffer(att) => stage' = "mapped"
          BY <1>2, <3>1 DEF HasBuffer, StageTrue, StageAfterCommit
        <4>3. ~HasBuffer(att) => ~HadBuffer /\ ~HadBuffer'
          BY <2>3, <3>4 DEF HadBuffer
        <4>4. ~HasBuffer(att) /\ stage' \in {"configured", "mapped"} =>
                 stage \in {"configured", "mapped"}
          BY <1>2 DEF StageAfterCommit
        <4>5. HasBuffer(att) => xdgRole.acked # NoConfigure
          BY <1>5 DEF CommitError
        <4>6. stage' \in {"configured", "mapped"} => xdgRole'.acked # NoConfigure
          BY <3>1, <4>1, <4>4, <4>5 DEF StageTrue
        <4>7. xdgKind = "popup" => xdgRole'.parent
          BY <3>1, <4>1 DEF StageTrue
        <4>8. HadBuffer' => stage' = "mapped"
          BY <4>2, <4>3
        <4> QED
          BY <1>2, <3>2, <4>6, <4>7, <4>8 DEF StageTrue
      <3> QED
        BY <3>3, <3>4
    <2> QED
      BY <1>2, <1>5, <2>1, <2>4, <2>5 DEF ObeyInv, KilledOnlyIfWrong
  <1> QED
    BY <1>1, <1>3, <1>4, <1>5

LEMMA ObeyStep ==
    ASSUME ReuseXdgSurface = FALSE
    PROVE  SerialFacts /\ ObeyInv /\ [XdgNext]_xdgVars => ObeyInv'
  <1> SUFFICES ASSUME SerialFacts, ObeyInv, [XdgNext]_xdgVars PROVE ObeyInv'
    OBVIOUS
  <1> USE DEF wlClientVars
  <1>0. XdgTypeOK /\ xdgRole \in RoleType /\ xdgAlive \in BOOLEAN /\ xdgKilled \in BOOLEAN
        /\ xdgKind \in {"toplevel", "popup"} /\ obeyed \in BOOLEAN
    BY DEF SerialFacts, XdgInv, XdgTypeOK
  <1>1. ASSUME NEW f \in Flag, SetState(f) PROVE ObeyInv'
    <2>1. /\ xdgRole' = [xdgRole EXCEPT !.serverPending = wanted']
          /\ UNCHANGED <<xdgKind, xdgAlive, xdgCached, inFlight, received, stage, obeyed, xdgKilled>>
      BY <1>1 DEF SetState
    <2>2. /\ xdgRole'.configures = xdgRole.configures /\ xdgRole'.acked = xdgRole.acked
          /\ xdgRole'.parent = xdgRole.parent /\ xdgRole'.grab = xdgRole.grab
      BY <1>0, <2>1 DEF RoleType
    <2> QED
      BY <2>1, <2>2 DEF ObeyInv, KilledOnlyIfWrong, AllKnown, Known, StageTrue, HadBuffer
  <1>2. ASSUME NEW st \in SUBSET Flag, Reposition(st) PROVE ObeyInv'
    <2> DEFINE r == [xdgRole EXCEPT !.serverPending = st]
    <2>1. /\ r \in RoleType /\ r.configures = xdgRole.configures /\ r.acked = xdgRole.acked
          /\ r.parent = xdgRole.parent /\ r.grab = xdgRole.grab
      BY <1>0 DEF RoleType
    <2>2. /\ SendConfigure(r) /\ xdgAlive /\ ~xdgKilled /\ xdgCached' = xdgCached
          /\ UNCHANGED <<xdgKind, xdgAlive, received, stage, obeyed, xdgKilled>>
      BY <1>2 DEF Reposition
    <2> HIDE DEF r
    <2> QED
      BY <2>1, <2>2, ObeySend
  <1>3. ASSUME NEW st \in SUBSET Flag, GetRole(st) PROVE ObeyInv'
    <2>1. /\ ~xdgKilled /\ ~xdgAlive /\ stage' = "new" /\ xdgRole' = NewRole(xdgKind, st)
          /\ UNCHANGED <<xdgKind, xdgCached, inFlight, received, obeyed, xdgKilled>>
      BY <1>3 DEF GetRole
    <2>2. xdgRole'.parent = (xdgKind = "popup") /\ xdgRole'.grab = FALSE
      BY <1>0, <2>1, NewRoleFields
    <2>3. xdgCached.pending = NoConfigure
      BY <2>1 DEF SerialFacts, ShownInv
    <2>4. received' = {} /\ inFlight' = <<>>
      BY <2>1 DEF ObeyInv
    <2>5. AllKnown' /\ StageTrue'
      <3>1. xdgKind = "popup" => xdgRole'.parent
        BY <2>2
      <3>2. DOMAIN inFlight' = {}
        BY <2>4
      <3>3. AllKnown'
        BY <2>4, <3>2 DEF AllKnown
      <3> QED
        BY <2>1, <2>2, <2>3, <3>1, <3>3 DEF StageTrue, HadBuffer
    <2> QED
      BY <2>1, <2>4, <2>5 DEF ObeyInv, KilledOnlyIfWrong
  <1>4. CASE Reconfigure
    <2>1. /\ SendConfigure(xdgRole) /\ xdgAlive /\ ~xdgKilled /\ xdgCached' = xdgCached
          /\ UNCHANGED <<xdgKind, xdgAlive, received, stage, obeyed, xdgKilled>>
      BY <1>4 DEF Reconfigure
    <2> QED
      BY <1>0, <2>1, ObeySend
  <1>5. CASE Receive
    <2>1. /\ ~xdgKilled /\ inFlight # <<>> /\ inFlight' = Tail(inFlight)
          /\ received' = received \cup {Head(inFlight)}
          /\ stage' = IF stage \in {"waiting", "remapping"} THEN "told" ELSE stage
          /\ UNCHANGED <<xdgKind, xdgAlive, xdgRole, xdgCached, obeyed, xdgKilled>>
      BY <1>5 DEF Receive
    <2>2. xdgAlive /\ AllKnown
      BY <1>0, <2>1 DEF ObeyInv
    <2>3. /\ Head(inFlight) = inFlight[1] /\ 1 \in DOMAIN inFlight
          /\ \A i \in DOMAIN inFlight' : i + 1 \in DOMAIN inFlight /\ inFlight'[i] = inFlight[i + 1]
      <3> DEFINE S == 1..MaxConfigures
      <3>1. inFlight \in Seq(S)
        BY <1>0 DEF XdgTypeOK
      <3> HIDE DEF S
      <3> QED
        BY <2>1, <3>1
    <2>4. AllKnown'
      BY <2>1, <2>2, <2>3 DEF AllKnown, Known
    <2>5. obeyed => StageTrue'
      BY <2>1, <2>2 DEF ObeyInv, StageTrue, HadBuffer
    <2> QED
      BY <2>1, <2>2, <2>4, <2>5 DEF ObeyInv, KilledOnlyIfWrong
  <1>6. CASE RequestGrab
    <2>1. /\ ~xdgKilled /\ xdgAlive /\ xdgRole' = [xdgRole EXCEPT !.grab = TRUE]
          /\ obeyed' = (obeyed /\ stage # "mapped")
          /\ UNCHANGED <<xdgKind, xdgAlive, xdgCached, inFlight, received, stage, xdgKilled>>
      BY <1>6 DEF RequestGrab
    <2>2. /\ xdgRole'.configures = xdgRole.configures /\ xdgRole'.acked = xdgRole.acked
          /\ xdgRole'.parent = xdgRole.parent
      BY <1>0, <2>1 DEF RoleType
    <2>3. AllKnown'
      BY <2>1, <2>2 DEF ObeyInv, AllKnown, Known
    <2>4. obeyed' => StageTrue'
      BY <2>1, <2>2 DEF ObeyInv, StageTrue, HadBuffer
    <2> QED
      BY <2>1, <2>3, <2>4 DEF ObeyInv, KilledOnlyIfWrong
  <1>7. CASE Apply
    <2>1. /\ ~xdgKilled /\ UNCHANGED <<xdgKind, xdgAlive, received, stage, obeyed, xdgKilled>>
          /\ xdgCached' = [xdgCached EXCEPT !.current = Head(xdgCommits).acked]
      BY <1>7 DEF Apply
    <2>2. xdgCached'.pending = xdgCached.pending
      BY <1>0, <2>1 DEF XdgTypeOK
    <2>3. CASE xdgAlive /\ SendConfigure(xdgRole)
      BY <1>0, <2>1, <2>2, <2>3, ObeySend
    <2>4. CASE UNCHANGED <<xdgRole, xdgSerial, inFlight>>
      BY <2>1, <2>2, <2>4 DEF ObeyInv, KilledOnlyIfWrong, AllKnown, Known, StageTrue, HadBuffer
    <2> QED
      BY <1>7, <2>3, <2>4 DEF Apply
  <1>8. CASE DestroyRole
    BY <1>8 DEF DestroyRole, ObeyInv, KilledOnlyIfWrong
  <1>9. ASSUME NEW s \in received, AckConfigure(s) PROVE ObeyInv'
    BY <1>9, ObeyAck
  <1>10. ASSUME NEW att \in {"new", "removed", "none"}, Commit(att) PROVE ObeyInv'
    BY <1>10, ObeyCommit
  <1>11. CASE UNCHANGED xdgVars
    BY <1>11 DEF xdgVars, ObeyInv, KilledOnlyIfWrong, AllKnown, Known, StageTrue, HadBuffer
  <1> QED
    BY <1>1, <1>2, <1>3, <1>4, <1>5, <1>6, <1>7, <1>8, <1>9, <1>10, <1>11 DEF XdgNext

(* A client that acknowledges only what it received, and attaches a buffer   *)
(* only after acknowledging a configure, is never disconnected, however late *)
(* its events arrive and although it may unmap and map its surface again.    *)
THEOREM ObedientClientsLive ==
    ASSUME ReuseXdgSurface = FALSE
    PROVE  XdgSpec => []KilledOnlyIfWrong
  <1>1. XdgInit => (~xdgKilled => ShownInv)
    <2> SUFFICES ASSUME XdgInit PROVE ShownInv
      OBVIOUS
    <2>1. DOMAIN xdgCommits = {} /\ xdgCommits = <<>>
      BY DEF XdgInit
    <2> QED
      BY <2>1 DEF XdgInit, ShownInv, LastAcked
  <1>2. XdgInit => ObeyInv
    <2> SUFFICES ASSUME XdgInit PROVE ObeyInv
      OBVIOUS
    <2>1. xdgKind \in {"toplevel", "popup"} /\ wanted \in SUBSET Flag
      BY DEF XdgInit, FreshState
    <2>2. xdgRole.parent = (xdgKind = "popup")
      BY <2>1, NewRoleFields DEF XdgInit
    <2>3. AllKnown /\ StageTrue
      <3>1. xdgKind = "popup" => xdgRole.parent
        BY <2>2
      <3>2. DOMAIN inFlight = {} /\ received = {}
        BY DEF XdgInit
      <3>3. AllKnown
        BY <3>2 DEF AllKnown
      <3>4. xdgCached.pending = NoConfigure /\ stage = "new"
        BY DEF XdgInit
      <3> QED
        BY <3>1, <3>3, <3>4 DEF StageTrue, HadBuffer
    <2> QED
      BY <2>3 DEF XdgInit, ObeyInv, KilledOnlyIfWrong
  <1>3. SerialFacts /\ ObeyInv /\ [XdgNext]_xdgVars => ObeyInv'
    BY ObeyStep
  <1>4. ObeyInv => KilledOnlyIfWrong
    BY DEF ObeyInv
  <1> QED
    BY <1>1, <1>2, <1>3, <1>4, ShownStep, XdgInductive, PTL DEF XdgSpec, SerialFacts
=============================================================================
