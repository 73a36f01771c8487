------------------------- MODULE CommandTableProofs -------------------------
(***************************************************************************)
(* What the vocabulary of the commands promises, for any requests, words   *)
(* and PINs, and any of the keys: Handle understands what Home Assistant   *)
(* is offered, and a command moves the car only the way its word says.     *)
(*                                                                         *)
(* Both say what has become of a request that was handled.  The invariant  *)
(* ties it to the request: a reason is one that Handle has for the word,   *)
(* and what the car was told is the value of the word, for which Handle    *)
(* has no reason to refuse.                                                *)
(***************************************************************************)
EXTENDS CommandTable, DispatcherProofs

Explained ==
  /\ why \in [Requests -> Reasons \cup {None}]
  /\ \A r \in Requests : why[r] # None =>
        Submitted(r) /\ why[r] \in MayRefuse(KeyOf(r), WordOf(r))
RanAsAsked ==
  /\ DOMAIN ran = Requests
  /\ \A r \in Requests : ran[r] # None =>
        /\ Submitted(r)
        /\ Refuses(KeyOf(r), WordOf(r)) = {}
        /\ ran[r] = Value(KeyOf(r), WordOf(r))

TableInv == IInv /\ Explained /\ RanAsAsked

-----------------------------------------------------------------------------
\* The request in hand has a key and a word, and keeps them.
LEMMA HandledWord ==
  ASSUME IInv, NEW w \in Requests, HandlerReturns(w)
  PROVE  job[w] \in Requests /\ Submitted(job[w]) /\ req' = req
  <1>1. job[w] # None
    BY DEF HandlerReturns, IInv, Ownership, Threads, Busy
  <1> QED
    BY <1>1 DEF HandlerReturns, callVars, IInv, TypeOK, Ownership, WorkerOwns

\* A request that was submitted keeps its key, its word and what Handle may say of it.
LEMMA WordStays ==
  ASSUME TableInv, [Next]_vars, UNCHANGED <<pins, gps>>, NEW r \in Requests, Submitted(r)
  PROVE  /\ Submitted(r)' /\ KeyOf(r)' = KeyOf(r) /\ WordOf(r)' = WordOf(r)
         /\ MayRefuse(KeyOf(r), WordOf(r))' = MayRefuse(KeyOf(r), WordOf(r))
         /\ Refuses(KeyOf(r), WordOf(r))' = Refuses(KeyOf(r), WordOf(r))
         /\ Value(KeyOf(r), WordOf(r))' = Value(KeyOf(r), WordOf(r))
  <1>1. req'[r] = req[r]
    BY CommandsStay DEF TableInv
  <1>2. Submitted(r)' /\ KeyOf(r)' = KeyOf(r) /\ WordOf(r)' = WordOf(r)
    BY <1>1 DEF Submitted, KeyOf, WordOf, normPayload
  <1>3. Refuses(KeyOf(r), WordOf(r))' = Refuses(KeyOf(r), WordOf(r))
    BY <1>2 DEF Refuses, LacksPin, NeedsGPS
  <1>4. MayRefuse(KeyOf(r), WordOf(r))' = MayRefuse(KeyOf(r), WordOf(r))
    BY <1>2, <1>3 DEF MayRefuse
  <1>5. Value(KeyOf(r), WordOf(r))' = Value(KeyOf(r), WordOf(r))
    BY <1>2
  <1> QED
    BY <1>2, <1>3, <1>4, <1>5

\* Steps that explain no refusal and run nothing keep the invariant.
LEMMA TableQuiet ==
  ASSUME TableInv, [Next]_vars, UNCHANGED <<pins, gps>>
  PROVE  /\ why' = why => Explained'
         /\ ran' = ran => RanAsAsked'
  <1>1. ASSUME why' = why PROVE Explained'
    BY <1>1, WordStays DEF TableInv, Explained
  <1>2. ASSUME ran' = ran PROVE RanAsAsked'
    BY <1>2, WordStays DEF TableInv, RanAsAsked
  <1> QED
    BY <1>1, <1>2

\* The initial states satisfy it.
LEMMA TableInitial == TableInit => TableInv
  BY TypeInit, OwnInit DEF TableInit, TableInv, IInv, Explained, RanAsAsked

\* Every step keeps it.
LEMMA TableStep ==
  ASSUME TableInv, [TableNext]_tableVars
  PROVE  TableInv'
  <1>1. [Next]_vars
    BY DEF TableNext, QueueStep, HandleRefuses, HandleSends, Next, WorkerStep, tableVars
  <1>2. IInv'
    BY <1>1, TypeStep, OwnStep DEF TableInv, IInv
  <1>3. CASE UNCHANGED <<pins, gps, why, ran>>
    BY <1>1, <1>2, <1>3, TableQuiet DEF TableInv
  <1>4. CASE \E w \in Requests : HandleRefuses(w)
    <2>1. PICK w \in Requests : HandleRefuses(w)
      BY <1>4
    <2>2. PICK r \in Requests : r = job[w] /\ Submitted(r) /\ req' = req
      BY <2>1, HandledWord DEF TableInv, HandleRefuses
    <2>3. UNCHANGED <<pins, gps, ran>>
      BY <2>1 DEF HandleRefuses
    <2>4. PICK x \in MayRefuse(KeyOf(r), WordOf(r)) : why' = [why EXCEPT ![r] = x]
      BY <2>1, <2>2 DEF HandleRefuses
    <2>5. x \in Reasons
      BY <2>4 DEF MayRefuse, Refuses, Reasons
    <2>6. why' \in [Requests -> Reasons \cup {None}]
      BY <2>4, <2>5 DEF TableInv, Explained
    <2>7. ASSUME NEW s \in Requests, why'[s] # None
          PROVE  Submitted(s)' /\ why'[s] \in MayRefuse(KeyOf(s), WordOf(s))'
      <3>1. Submitted(s) /\ why'[s] \in MayRefuse(KeyOf(s), WordOf(s))
        BY <2>2, <2>4, <2>7 DEF TableInv, Explained
      <3> QED
        BY <1>1, <2>3, <3>1, WordStays
    <2>8. Explained'
      BY <2>6, <2>7 DEF Explained
    <2> QED
      BY <1>1, <1>2, <2>3, <2>8, TableQuiet DEF TableInv
  <1>5. CASE \E w \in Requests : HandleSends(w)
    <2>1. PICK w \in Requests : HandleSends(w)
      BY <1>5
    <2>2. PICK r \in Requests : r = job[w] /\ Submitted(r) /\ req' = req
      BY <2>1, HandledWord DEF TableInv, HandleSends
    <2>3. UNCHANGED <<pins, gps, why>> /\ Refuses(KeyOf(r), WordOf(r)) = {}
      BY <2>1, <2>2 DEF HandleSends
    <2>4. ran' = ran \/ ran' = [ran EXCEPT ![r] = Value(KeyOf(r), WordOf(r))]
      BY <2>1, <2>2 DEF HandleSends, Runs
    <2>5. CASE ran' = ran
      BY <1>1, <1>2, <2>3, <2>5, TableQuiet DEF TableInv
    <2>6. CASE ran' = [ran EXCEPT ![r] = Value(KeyOf(r), WordOf(r))]
      <3>1. DOMAIN ran' = Requests
        BY <2>6 DEF TableInv, RanAsAsked
      <3>2. ASSUME NEW s \in Requests, ran'[s] # None
            PROVE  /\ Submitted(s)' /\ Refuses(KeyOf(s), WordOf(s))' = {}
                   /\ ran'[s] = Value(KeyOf(s), WordOf(s))'
        <4>1. /\ Submitted(s) /\ Refuses(KeyOf(s), WordOf(s)) = {}
              /\ ran'[s] = Value(KeyOf(s), WordOf(s))
          BY <2>2, <2>3, <2>6, <3>2 DEF TableInv, RanAsAsked
        <4> QED
          BY <1>1, <2>3, <4>1, WordStays
      <3>3. RanAsAsked'
        BY <3>1, <3>2 DEF RanAsAsked
      <3> QED
        BY <1>1, <1>2, <2>3, <3>3, TableQuiet DEF TableInv
    <2> QED
      BY <2>4, <2>5, <2>6
  <1> QED
    BY <1>3, <1>4, <1>5 DEF TableNext, QueueStep, tableVars

\* Every reachable state satisfies it.
LEMMA TableInvariance == TableSpec => []TableInv
  BY TableInitial, TableStep, PTL DEF TableSpec

-----------------------------------------------------------------------------
\* The kinds of keys that a word may be for: a key has one.
LEMMA KindsOfKeys ==
  ASSUME NEW k \in AllKeys
  PROVE  \/ k \in Buttons \cup {"software_update"}
         \/ k \in Switches \ {"cabin_overheat"}
         \/ k = "cabin_overheat"
         \/ k \in Covers
         \/ k \in NumberOf
         \/ k \in Seats
         \/ k \in {"climate_keeper", "lock", "climate_mode", "navigate"}
  BY DEF AllKeys

\* A word that is offered for a key stands for a value.
LEMMA AdvertisedIsKnown ==
  ASSUME NEW k \in AllKeys, NEW word \in Advertised(k)
  PROVE  parse(k, word) # Unknown
  <1> USE DEF Unknown, Buttons, Presses, MediaKeys, Switches, Covers, NumberOf, Seats
  <1>1. CASE k \in Buttons \cup {"software_update"}
    BY <1>1 DEF parse
  <1>2. CASE k \in Switches \ {"cabin_overheat"}
    <2>1. word \in {"ON", "OFF"}
      BY <1>2 DEF Advertised
    <2>2. parse(k, word) = onOff(word)
      BY <1>2 DEF parse
    <2> QED
      BY <2>1, <2>2 DEF onOff
  <1>3. CASE k = "cabin_overheat"
    <2>1. word \in {"ON", "OFF"}
      BY <1>3 DEF Advertised
    <2>2. parse(k, word) = cabinOverheat(word)
      BY <1>3 DEF parse
    <2> QED
      BY <2>1, <2>2 DEF cabinOverheat, onOff
  <1>4. CASE k \in Covers
    <2>1. word \in {"OPEN", "CLOSE"}
      BY <1>4 DEF Advertised
    <2>2. parse(k, word) = coverOpen(word)
      BY <1>4 DEF parse
    <2> QED
      BY <2>1, <2>2 DEF coverOpen
  <1>5. CASE k \in NumberOf
    BY <1>5 DEF Advertised, parse, lookupOption, Numbers
  <1>6. CASE k \in Seats
    BY <1>6 DEF Advertised, parse, lookupOption, Levels
  <1>7. CASE k = "climate_keeper"
    BY <1>7 DEF Advertised, parse, lookupOption, Keeper
  <1>8. CASE k = "lock"
    BY <1>8 DEF Advertised, parse, lookupOption
  <1>9. CASE k = "climate_mode"
    BY <1>9 DEF Advertised, parse, climateMode
  <1>10. CASE k = "navigate"
    BY <1>10 DEF Advertised, parse, Destinations
  <1> QED
    BY <1>1, <1>2, <1>3, <1>4, <1>5, <1>6, <1>7, <1>8, <1>9, <1>10, KindsOfKeys

\* The value of a word that Handle knows is the word, or what its alias stands for.
LEMMA KnownIsAsked ==
  ASSUME NEW k \in AllKeys, k \notin Buttons \cup {"software_update", "navigate"},
         NEW word, parse(k, word) # Unknown
  PROVE  LET v == Value(k, word)
         IN  \/ word \in Advertised(k) /\ v = word
             \/ word \in DOMAIN Aliases(k) /\ v = Aliases(k)[word]
             \/ k = "cabin_overheat" /\ word = "FAN_ONLY" /\ v = word
  <1> USE DEF Unknown, Buttons, Presses, MediaKeys, Switches, Covers, NumberOf, Seats
  <1>1. Value(k, word) = parse(k, word)
    BY DEF Value
  <1>2. ASSUME k \in Switches, onOff(word) # Unknown
        PROVE  \/ word \in Advertised(k) /\ onOff(word) = word
               \/ word \in DOMAIN Aliases(k) /\ onOff(word) = Aliases(k)[word]
    <2>1. Advertised(k) = {"ON", "OFF"}
      BY <1>2 DEF Advertised
    <2>2. Aliases(k) = [w \in {"TRUE", "1", "FALSE", "0"} |->
                           IF w \in {"TRUE", "1"} THEN "ON" ELSE "OFF"]
      BY <1>2 DEF Aliases
    <2>3. word \in {"ON", "TRUE", "1", "OFF", "FALSE", "0"}
      BY <1>2 DEF onOff
    <2> QED
      BY <2>1, <2>2, <2>3 DEF onOff
  <1>3. CASE k \in Switches \ {"cabin_overheat"}
    <2>1. parse(k, word) = onOff(word)
      BY <1>3 DEF parse
    <2> QED
      BY <1>1, <1>2, <1>3, <2>1
  <1>4. CASE k = "cabin_overheat"
    <2>1. parse(k, word) = cabinOverheat(word)
      BY <1>4 DEF parse
    <2> QED
      BY <1>1, <1>2, <1>4, <2>1 DEF cabinOverheat
  <1>5. CASE k \in Covers
    <2>1. parse(k, word) = coverOpen(word) /\ Advertised(k) = {"OPEN", "CLOSE"}
      BY <1>5 DEF parse, Advertised
    <2>2. Aliases(k) = [w \in {"CLOSED"} |-> "CLOSE"]
      BY <1>5 DEF Aliases
    <2> QED
      BY <1>1, <2>1, <2>2 DEF coverOpen
  <1>6. CASE k \in NumberOf
    BY <1>1, <1>6 DEF Advertised, parse, lookupOption
  <1>7. CASE k \in Seats
    BY <1>1, <1>7 DEF Advertised, parse, lookupOption
  <1>8. CASE k = "climate_keeper"
    BY <1>1, <1>8 DEF Advertised, parse, lookupOption
  <1>9. CASE k = "lock"
    BY <1>1, <1>9 DEF Advertised, parse, lookupOption
  <1>10. CASE k = "climate_mode"
    <2>1. parse(k, word) = climateMode(word) /\ Advertised(k) = {"OFF", "HEAT_COOL"}
      BY <1>10 DEF parse, Advertised
    <2>2. Aliases(k) = [w \in {"ON"} |-> "HEAT_COOL"]
      BY <1>10 DEF Aliases
    <2> QED
      BY <1>1, <2>1, <2>2 DEF climateMode
  <1> QED
    BY <1>3, <1>4, <1>5, <1>6, <1>7, <1>8, <1>9, <1>10, KindsOfKeys

(***************************************************************************)
(* The theorems.                                                           *)
(***************************************************************************)

\* relay.go and hadiscovery/publisher.go: what Home Assistant sends for an entity that it was
\* offered is never refused as unrecognized or for want of a PIN.
THEOREM AdvertisedIsUnderstoodHolds == TableSpec => []AdvertisedIsUnderstood
  <1>1. TableInv => AdvertisedIsUnderstood
    <2> SUFFICES ASSUME TableInv, NEW r \in Requests, Submitted(r), Offered(KeyOf(r)),
                        WordOf(r) \in Advertised(KeyOf(r)),
                        why[r] \in {"unrecognized", "no PIN"}
                 PROVE  FALSE
      BY DEF AdvertisedIsUnderstood
    <2>1. why[r] \in MayRefuse(KeyOf(r), WordOf(r))
      BY TableAssumption DEF TableInv, Explained, Reasons
    <2>2. KeyOf(r) \in AllKeys
      BY CommandParts, TableAssumption DEF TableInv, IInv, Submitted
    <2>3. parse(KeyOf(r), WordOf(r)) # Unknown
      BY <2>2, AdvertisedIsKnown
    <2>4. ~LacksPin(KeyOf(r))
      BY DEF Offered, PinOf, LacksPin, Pins
    <2> QED
      BY <2>1, <2>3, <2>4 DEF MayRefuse, Refuses
  <1> QED
    BY <1>1, TableInvariance, PTL

\* relay.go, Handle: a typo, an empty message or another entity's word never resolves to one
\* of two physical states.
THEOREM OnlyWhatWasAskedHolds == TableSpec => []OnlyWhatWasAsked
  <1>1. TableInv => OnlyWhatWasAsked
    <2> SUFFICES ASSUME TableInv, NEW r \in Requests, ran[r] # None,
                        KeyOf(r) \notin Buttons \cup {"software_update", "navigate"}
                 PROVE  LET k == KeyOf(r)
                            w == WordOf(r)
                        IN  \/ w \in Advertised(k) /\ ran[r] = w
                            \/ w \in DOMAIN Aliases(k) /\ ran[r] = Aliases(k)[w]
                            \/ k = "cabin_overheat" /\ w = "FAN_ONLY" /\ ran[r] = w
      BY DEF OnlyWhatWasAsked
    <2>1. /\ Submitted(r) /\ Refuses(KeyOf(r), WordOf(r)) = {}
          /\ ran[r] = Value(KeyOf(r), WordOf(r))
      BY DEF TableInv, RanAsAsked
    <2>2. KeyOf(r) \in AllKeys
      BY <2>1, CommandParts, TableAssumption DEF TableInv, IInv, Submitted
    <2>3. parse(KeyOf(r), WordOf(r)) # Unknown
      <3> SUFFICES ASSUME parse(KeyOf(r), WordOf(r)) = Unknown PROVE FALSE
        OBVIOUS
      <3>1. "no PIN" \in Refuses(KeyOf(r), WordOf(r))
            \/ "unrecognized" \in Refuses(KeyOf(r), WordOf(r))
        BY DEF Refuses, Reasons
      <3> QED
        BY <2>1, <3>1
    <2> QED
      BY <2>1, <2>2, <2>3, KnownIsAsked
  <1> QED
    BY <1>1, TableInvariance, PTL
=============================================================================
