------------------------------ MODULE Streaming ------------------------------
(***************************************************************************)
(* One TeslaMate connection of internal/wss/server.go: the handler that    *)
(* reads subscriptions, one pusher goroutine per subscribed tag with a     *)
(* stop channel of its own, and the write mutex they share.                *)
(*                                                                         *)
(* Pushers are numbered in the order they are started.  What a frame says  *)
(* is in Views.                                                            *)
(***************************************************************************)
EXTENDS Integers, FiniteSets, Functions

CONSTANTS
  Tags,      \* tags the client uses
  Known,     \* those lookupTag resolves
  MaxPusher  \* bound on the subscriptions

StreamingAssumption ==
  /\ Known \subseteq Tags
  /\ Tags # {}
  /\ MaxPusher \in Nat

Pushers == 1..MaxPusher

VARIABLES
  handler, \* "reading" or "returned"
  broken,  \* the connection is gone
  pushers, \* the handler's map, 0: the tag is not in it
  started, \* pushers started so far
  closes,  \* how often the stop channel of each pusher was closed
  pusher,  \* where each pusher is: "none", "select", "write" or "ended"
  tagOf    \* the tag each pusher was started for

subs == <<pushers, started, closes, tagOf>>
vars == <<handler, broken, subs, pusher>>

Init ==
  /\ handler = "reading"
  /\ broken = FALSE
  /\ pushers = [t \in Tags |-> 0]
  /\ started = 0
  /\ closes = [p \in Pushers |-> 0]
  /\ pusher = [p \in Pushers |-> "none"]
  /\ tagOf \in [Pushers -> {CHOOSE t \in Tags : TRUE}]

\* The client or the network goes away (external).
Break ==
  /\ ~broken
  /\ broken' = TRUE
  /\ UNCHANGED <<handler, subs, pusher>>

-----------------------------------------------------------------------------
\* Broken: the channel is closed and its entry stays.
StopsKeepEntry(ts) ==
  /\ closes' = [p \in Pushers |->
                  IF \E t \in ts : pushers[t] = p THEN closes[p] + 1 ELSE closes[p]]
  /\ pushers' = pushers

\* stopTag, for each of the tags: close the channel and delete the entry.
Stops(ts) ==
  /\ closes' = [p \in Pushers |->
                  IF \E t \in ts : pushers[t] = p THEN closes[p] + 1 ELSE closes[p]]
  /\ pushers' = [t \in Tags |-> IF t \in ts THEN 0 ELSE pushers[t]]

\* Broken: a pusher that the tag has is not replaced.
SubscribeBeside(t) ==
  /\ handler = "reading" /\ ~broken
  /\ t \in Known /\ started < MaxPusher
  /\ started' = started + 1
  /\ pushers' = [pushers EXCEPT ![t] = started']
  /\ tagOf' = [tagOf EXCEPT ![started'] = t]
  /\ pusher' = [pusher EXCEPT ![started'] = "select"]
  /\ UNCHANGED <<handler, broken, closes>>

\* data:subscribe_oauth. A tag nobody knows is answered and changes nothing.
Subscribe(t) ==
  /\ handler = "reading" /\ ~broken
  /\ t \in Known /\ started < MaxPusher
  /\ started' = started + 1
  /\ closes' = [p \in Pushers |-> IF pushers[t] = p THEN closes[p] + 1 ELSE closes[p]]
  /\ pushers' = [pushers EXCEPT ![t] = started']
  /\ tagOf' = [tagOf EXCEPT ![started'] = t]
  /\ pusher' = [pusher EXCEPT ![started'] = "select"]
  /\ UNCHANGED <<handler, broken>>

\* data:unsubscribe, of one tag or, without a tag, of all of them.
Unsubscribe(ts) ==
  /\ handler = "reading" /\ ~broken
  /\ Stops(ts)
  /\ UNCHANGED <<handler, broken, started, tagOf, pusher>>

\* ReadMessage fails: the deferred stopAll, then conn.Close.
Return ==
  /\ handler = "reading" /\ broken
  /\ handler' = "returned"
  /\ Stops(Tags)
  /\ UNCHANGED <<broken, started, tagOf, pusher>>

-----------------------------------------------------------------------------
\* push: the select may take the tick when the channel is closed as well. The
\* frame is then written, whatever happens to the subscription meanwhile.
Build(p) ==
  /\ pusher[p] = "select"
  /\ pusher' = [pusher EXCEPT ![p] = "write"]
  /\ UNCHANGED <<handler, broken, subs>>

\* Broken: the channel is looked at on a broken connection only.
SeesStopLate(p) ==
  /\ pusher[p] = "select" /\ closes[p] > 0 /\ broken
  /\ pusher' = [pusher EXCEPT ![p] = "ended"]
  /\ UNCHANGED <<handler, broken, subs>>

\* push: the closed channel ends it.
SeesStop(p) ==
  /\ pusher[p] = "select" /\ closes[p] > 0
  /\ pusher' = [pusher EXCEPT ![p] = "ended"]
  /\ UNCHANGED <<handler, broken, subs>>

\* write under its mutex; an error ends the pusher.
Write(p) ==
  /\ pusher[p] = "write"
  /\ pusher' = [pusher EXCEPT ![p] = IF broken THEN "ended" ELSE "select"]
  /\ UNCHANGED <<handler, broken, subs>>

Next ==
  \/ Break
  \/ \E t \in Tags : Subscribe(t) \/ Unsubscribe({t})
  \/ Unsubscribe(Tags)
  \/ Return
  \/ \E p \in Pushers : Build(p) \/ SeesStop(p) \/ Write(p)

\* Pushers run, the handler sees a connection that is gone, and a select whose
\* stop channel is closed whenever it is reached does not take the tick forever.
Fairness ==
  /\ WF_vars(Return)
  /\ \A p \in Pushers : /\ WF_vars(Build(p) \/ Write(p))
                        /\ SF_vars(SeesStop(p))

Spec     == Init /\ [][Next]_vars
FairSpec == Spec /\ Fairness

-----------------------------------------------------------------------------
\* With the types: no channel is closed twice, which would panic.
TypeOK ==
  /\ handler \in {"reading", "returned"} /\ broken \in BOOLEAN
  /\ pushers \in [Tags -> 0..started]
  /\ started \in 0..MaxPusher
  /\ closes \in [Pushers -> 0..1]
  /\ pusher \in [Pushers -> {"none", "select", "write", "ended"}]
  /\ tagOf \in [Pushers -> Tags]

\* server.go:96: one pusher per subscribed tag. A pusher that was not told to
\* stop is the one of its tag, however subscriptions are repeated and overlap,
\* and a connection that is gone has left none behind.
OnePusherPerTag ==
  \A p \in 1..started :
     closes[p] = 0 => handler = "reading" /\ pushers[tagOf[p]] = p

\* A pusher that is stopped ends, and so do all of them with the connection.
PushersEnd ==
  \A p \in Pushers :
    (pusher[p] \in {"select", "write"} /\ (closes[p] > 0 \/ broken)) ~> pusher[p] = "ended"
=============================================================================
