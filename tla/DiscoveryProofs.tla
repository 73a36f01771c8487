-------------------------- MODULE DiscoveryProofs --------------------------
(***************************************************************************)
(* A car that counts as announced has its entities on the broker, for any  *)
(* number of handlers, fields and lost connections.                        *)
(*                                                                         *)
(* The entities can only be missing while somebody will still notice       *)
(* (WillBeNoticed): the connection is down, and the next one brings a      *)
(* handler; or a handler has yet to forget that the car was announced; or  *)
(* whoever has claimed the car is publishing, or taking its claim back.    *)
(***************************************************************************)
EXTENDS Discovery, TLAPS

Places == {"idle", "available", "reset", "announce", "publish", "rollback",
           "fields", "publish_field", "mark"}

WillBeNoticed ==
  announced = TRUE /\ connected = TRUE /\ "device" \notin retained =>
     \/ \E h \in Handlers : pc[h] \in {"available", "reset"}
     \/ \E a \in Agents : pc[a] \in {"publish", "rollback"}

\* The ticker has a field in hand exactly while it deals with one.
FieldInHand ==
  /\ pc[Ticker] \in {"publish_field", "mark"} => field \in Fields
  /\ pc[Ticker] \notin {"fields", "publish_field", "mark"} => field = None

DiscoveryInv == TypeOK /\ FieldInHand /\ WillBeNoticed

-----------------------------------------------------------------------------
\* The constants, as the assumption has them.
LEMMA DiscoveryConstants ==
  /\ Ticker \notin Handlers /\ Ticker \in Agents /\ Handlers \subseteq Agents
  /\ Composite \subseteq Fields /\ None \notin Fields
  /\ "device" \notin Fields /\ "device" \in Configs /\ Fields \subseteq Configs
  /\ MaxDrops \in Nat
  BY DiscoveryAssumption DEF DiscoveryAssumption, Agents, Configs

\* The initial states satisfy the invariant.
LEMMA DiscoveryInit == Init => DiscoveryInv
  <1> SUFFICES ASSUME Init PROVE DiscoveryInv
    OBVIOUS
  <1>1. TypeOK
    <2> USE DiscoveryConstants DEF Init
    <2>1. pc \in [Agents -> {"idle", "available", "reset", "announce", "publish", "rollback",
                             "fields", "publish_field", "mark"}]
      OBVIOUS
    <2>2. values \in [Fields -> {"absent", "nil", "value"}]
      OBVIOUS
    <2>3. field \in (Fields \ todo) \cup {None} /\ avail \in {None, "online", "offline"}
      OBVIOUS
    <2>4. drops \in 0..MaxDrops
      OBVIOUS
    <2> QED
      BY <2>1, <2>2, <2>3, <2>4 DEF TypeOK
  <1> QED
    BY <1>1, DiscoveryConstants DEF Init, DiscoveryInv, FieldInHand, WillBeNoticed

\* Every step keeps the types.
LEMMA DiscoveryTypes == DiscoveryInv /\ [Next]_vars => TypeOK' /\ FieldInHand'
  <1> SUFFICES ASSUME TypeOK, FieldInHand, [Next]_vars PROVE TypeOK' /\ FieldInHand'
    BY DEF DiscoveryInv
  <1> USE DiscoveryConstants DEF TypeOK, FieldInHand, Goto, publisherVars, brokerVars
  <1>1. ASSUME NEW f \in Fields, NEW v \in {"nil", "value"}, Telemetry(f, v)
        PROVE  TypeOK' /\ FieldInHand'
    BY <1>1 DEF Telemetry
  <1>2. CASE Drop
    <2>1. drops' \in 0..MaxDrops
      BY <1>2 DEF Drop
    <2>2. avail' \in {None, "online", "offline"} /\ retained' \subseteq Configs
      BY <1>2 DEF Drop
    <2> QED
      BY <1>2, <2>1, <2>2 DEF Drop
  <1>3. ASSUME NEW h \in Handlers, Connect(h) PROVE TypeOK' /\ FieldInHand'
    BY <1>3 DEF Connect
  <1>4. ASSUME NEW h \in Agents, PublishOnline(h) PROVE TypeOK' /\ FieldInHand'
    BY <1>4 DEF PublishOnline
  <1>5. ASSUME NEW h \in Agents, resetAnnounced(h) PROVE TypeOK' /\ FieldInHand'
    BY <1>5 DEF resetAnnounced
  <1>6. ASSUME NEW a \in Agents, pc[a] \in {"announce", "publish", "rollback"},
               Announced(a), UNCHANGED field
        PROVE  /\ pc' \in [Agents -> Places] /\ todo' \subseteq Fields
               /\ field' \in (Fields \ todo') \cup {None}
               /\ FieldInHand'
    <2>1. CASE a = Ticker
      BY <1>6, <2>1 DEF Announced, Places
    <2>2. CASE a # Ticker
      BY <1>6, <2>2 DEF Announced, Places
    <2> QED
      BY <2>1, <2>2
  <1>7. ASSUME NEW a \in Agents, Claim(a) PROVE TypeOK' /\ FieldInHand'
    BY <1>6, <1>7 DEF Claim, Places
  <1>8. ASSUME NEW a \in Agents, PublishDevice(a) PROVE TypeOK' /\ FieldInHand'
    BY <1>6, <1>8 DEF PublishDevice, Acknowledged, Places
  <1>9. ASSUME NEW a \in Agents, PublishDeviceFails(a) PROVE TypeOK' /\ FieldInHand'
    BY <1>9 DEF PublishDeviceFails, NotAcknowledged
  <1>10. ASSUME NEW a \in Agents, RollBack(a) PROVE TypeOK' /\ FieldInHand'
    BY <1>6, <1>10 DEF RollBack, Places
  <1>11. CASE Tick
    BY <1>11 DEF Tick
  <1>12. CASE LookAtField
    BY <1>12 DEF LookAtField
  <1>13. CASE PublishField
    BY <1>13 DEF PublishField, Acknowledged
  <1>14. CASE PublishFieldFails
    BY <1>14 DEF PublishFieldFails, NotAcknowledged
  <1>15. CASE markFieldDiscovered
    BY <1>15 DEF markFieldDiscovered
  <1>16. CASE TickEnds
    BY <1>16 DEF TickEnds
  <1>17. CASE StopPublishesOffline
    BY <1>17 DEF StopPublishesOffline
  <1>18. CASE StopDisconnects
    BY <1>18 DEF StopDisconnects
  <1>19. CASE UNCHANGED vars
    BY <1>19 DEF vars
  <1> QED
    BY <1>1, <1>2, <1>3, <1>4, <1>5, <1>7, <1>8, <1>9, <1>10, <1>11, <1>12, <1>13, <1>14,
       <1>15, <1>16, <1>17, <1>18, <1>19 DEF Next, AgentStep, TickStep

\* Every step leaves somebody to notice.
LEMMA DiscoveryNotices == DiscoveryInv /\ [Next]_vars => WillBeNoticed'
  <1> SUFFICES ASSUME TypeOK, WillBeNoticed, [Next]_vars PROVE WillBeNoticed'
    BY DEF DiscoveryInv
  <1> USE DiscoveryConstants DEF Goto, publisherVars, brokerVars
  <1>0. pc \in [Agents -> Places] /\ announced \in BOOLEAN /\ connected \in BOOLEAN
    BY DEF TypeOK, Places
  <1>1. ASSUME UNCHANGED <<announced, connected>>, retained \subseteq retained',
               \A a \in Agents :
                  pc[a] \in {"available", "reset"} => pc'[a] \in {"available", "reset"},
               \A a \in Agents :
                  pc[a] \in {"publish", "rollback"} => pc'[a] \in {"publish", "rollback"}
        PROVE  WillBeNoticed'
    BY <1>1 DEF WillBeNoticed
  <1>2. ASSUME NEW f \in Fields, NEW v \in {"nil", "value"}, Telemetry(f, v)
        PROVE  WillBeNoticed'
    BY <1>1, <1>2 DEF Telemetry
  <1>3. CASE Drop
    BY <1>3 DEF Drop, WillBeNoticed
  <1>4. ASSUME NEW h \in Handlers, Connect(h) PROVE WillBeNoticed'
    BY <1>0, <1>4 DEF Connect, WillBeNoticed
  <1>5. ASSUME NEW h \in Agents, PublishOnline(h) PROVE WillBeNoticed'
    BY <1>0, <1>1, <1>5 DEF PublishOnline
  <1>6. ASSUME NEW h \in Agents, resetAnnounced(h) PROVE WillBeNoticed'
    BY <1>6 DEF resetAnnounced, WillBeNoticed
  <1>7. ASSUME NEW a \in Agents, pc[a] = "announce", Announced(a),
               UNCHANGED <<announced, connected, retained>>
        PROVE  WillBeNoticed'
    BY <1>0, <1>1, <1>7 DEF Announced
  <1>8. ASSUME NEW a \in Agents, Claim(a) PROVE WillBeNoticed'
    <2>1. CASE announced
      BY <1>7, <1>8, <2>1 DEF Claim
    <2>2. CASE ~announced
      BY <1>0, <1>8, <2>2 DEF Claim, WillBeNoticed
    <2> QED
      BY <2>1, <2>2
  <1>9. ASSUME NEW a \in Agents, PublishDevice(a) PROVE WillBeNoticed'
    BY <1>9 DEF PublishDevice, Acknowledged, WillBeNoticed
  <1>10. ASSUME NEW a \in Agents, PublishDeviceFails(a) PROVE WillBeNoticed'
    BY <1>0, <1>10 DEF PublishDeviceFails, WillBeNoticed
  <1>11. ASSUME NEW a \in Agents, RollBack(a) PROVE WillBeNoticed'
    BY <1>11 DEF RollBack, WillBeNoticed
  <1>12. CASE Tick
    BY <1>0, <1>1, <1>12 DEF Tick
  <1>13. CASE LookAtField
    BY <1>0, <1>1, <1>13 DEF LookAtField
  <1>14. CASE PublishField
    BY <1>0, <1>1, <1>14 DEF PublishField, Acknowledged
  <1>15. CASE PublishFieldFails
    BY <1>0, <1>1, <1>15 DEF PublishFieldFails, NotAcknowledged
  <1>16. CASE markFieldDiscovered
    BY <1>0, <1>1, <1>16 DEF markFieldDiscovered
  <1>17. CASE TickEnds
    BY <1>0, <1>1, <1>17 DEF TickEnds
  <1>18. CASE StopPublishesOffline
    BY <1>1, <1>18 DEF StopPublishesOffline
  <1>19. CASE StopDisconnects
    BY <1>19 DEF StopDisconnects, WillBeNoticed
  <1>20. CASE UNCHANGED vars
    BY <1>1, <1>20 DEF vars
  <1> QED
    BY <1>2, <1>3, <1>4, <1>5, <1>6, <1>8, <1>9, <1>10, <1>11, <1>12, <1>13, <1>14, <1>15,
       <1>16, <1>17, <1>18, <1>19, <1>20 DEF Next, AgentStep, TickStep

\* The invariant holds in every reachable state.
LEMMA DiscoveryInvariance == Spec => []DiscoveryInv
  <1>1. DiscoveryInv /\ [Next]_vars => DiscoveryInv'
    BY DiscoveryTypes, DiscoveryNotices DEF DiscoveryInv
  <1> QED
    BY <1>1, DiscoveryInit, PTL DEF Spec

\* The publisher, its handlers and the broker keep their types.
THEOREM DiscoveryTypeCorrect == Spec => []TypeOK
  BY DiscoveryInvariance, PTL DEF DiscoveryInv

\* publisher.go: a car that counts as announced has its entities on the broker, or
\* someone is publishing them.
THEOREM AnnouncedIsRetainedHolds == Spec => []AnnouncedIsRetained
  <1>1. DiscoveryInv => AnnouncedIsRetained
    <2> SUFFICES ASSUME DiscoveryInv, Settled, announced, "device" \notin retained,
                        pc[Ticker] \notin {"publish", "rollback"}
                 PROVE  FALSE
      BY DEF AnnouncedIsRetained
    <2>1. \A a \in Agents : pc[a] \notin {"publish", "rollback"}
      BY DEF Settled, Agents
    <2>2. announced = TRUE /\ connected = TRUE
      BY DEF Settled, DiscoveryInv, TypeOK
    <2> QED
      BY <2>1, <2>2 DEF Settled, DiscoveryInv, WillBeNoticed
  <1> QED
    BY <1>1, DiscoveryInvariance, PTL
=============================================================================
