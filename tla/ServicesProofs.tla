--------------------------- MODULE ServicesProofs ---------------------------
(***************************************************************************)
(* The parts that Services puts side by side, for every value of the       *)
(* constants.  Each has an inductive invariant XInv, proved action by      *)
(* action (XInit, XStep) and for the part alone (XSafe).  A behaviour of   *)
(* Services is one of each part that moves and stutters (XPart), and so    *)
(* has what each of them has.                                              *)
(***************************************************************************)
EXTENDS Services, FiniteSetTheorems, SequenceTheorems, WellFoundedInduction, TLAPS

-----------------------------------------------------------------------------
\* The credential. The one token that Tesla accepts is followed through memory, disk and
\* the answer that is being handled; pasted tokens wait beside it, each of its own login.

Threads == Credential!Threads
Tokens  == Credential!Tokens

\* Whoever sends or receives holds the lock, and only its holder has an answer.
Locked ==
  /\ \A t \in Threads : pc[t] \in {"send", "receive"} <=> mu = t
  /\ reply # None <=> mu # None /\ pc[mu] = "receive"

\* What memory holds at each stage of the process, and without a relay.
Stages ==
  /\ process = "down" =>
        /\ refresh = None /\ access = FALSE /\ persistErr = FALSE /\ refreshErr = FALSE
        /\ \A t \in Threads : pc[t] = "idle"
  /\ process = "starting" =>
        relayed = TRUE /\ access = FALSE /\ \A t \in Callers : pc[t] = "idle"
  /\ process = "up" => pc[Main] = "idle"
  /\ relayed = FALSE =>
        /\ access = FALSE /\ persistErr = FALSE /\ refreshErr = FALSE
        /\ cache # None /\ (mu # None => refresh = cache)

\* Without an error of the last write, the disk has what memory has.
Written ==
  relayed = TRUE /\ process # "down" /\ persistErr = FALSE => Credential!Loads(cache) = refresh

\* A pasted token waits, good, and from a login of its own.
Pending ==
  \A t \in Threads : pc[t] = "paste" =>
     /\ paste[t] \in Tokens /\ paste[t] \in valid /\ paste[t].grant \in 1..grants
     /\ refresh # None => paste[t].grant # refresh.grant
     /\ reply # None => paste[t].grant # reply.grant
     /\ cache # None => paste[t].grant # cache.grant
     /\ \A s \in Threads \ {t} : pc[s] = "paste" => paste[t].grant # paste[s].grant

\* No token is of a login to come.
Fresh ==
  /\ refresh # None => refresh.grant <= grants
  /\ cache # None => cache.grant <= grants

\* A replacement in hand is good, and so is what is held, unless it was lost or an error shows.
Alive ==
  /\ reply # None => reply \in valid
  /\ relayed = TRUE /\ process = "up" /\ refreshErr = FALSE /\ reply = None => refresh \in valid
  /\ relayed = TRUE /\ process # "down" /\ loss = FALSE /\ reply = None => refresh \in valid
  /\ relayed = TRUE /\ process = "down" /\ loss = FALSE => Credential!Loads(cache) \in valid
  /\ relayed = FALSE /\ loss = FALSE /\ reply = None => cache \in valid

\* What is held, and what replaces it, is of the login that was given last.
Loyal ==
  /\ process # "down" /\ relayed = TRUE => refresh.grant = adopted
  /\ process # "down" /\ relayed = FALSE => cache.grant = adopted
  /\ reply # None => reply.grant = refresh.grant

CredentialInv ==
  Credential!TypeOK /\ Locked /\ Stages /\ Written /\ Pending /\ Fresh /\ Alive /\ Loyal

\* The constants of the credential, as the assumption has them.
LEMMA CredentialConstants ==
  /\ Main \notin Callers /\ Threads = Callers \cup {Main}
  /\ None \notin Threads /\ None \notin Tokens
  /\ MaxGrants \in Nat /\ MaxUses \in Nat /\ MaxCrashes \in Nat
  /\ Tokens = [grant : 0..MaxGrants, use : 0..MaxUses]
  BY ServicesAssumption
     DEF ServicesAssumption, Credential!CredentialAssumption, Threads, Tokens, Credential!Threads,
         Credential!Tokens

\* The initial states of the credential satisfy the invariant.
LEMMA CredentialInit == Credential!Init => CredentialInv
  <1> SUFFICES ASSUME Credential!Init PROVE CredentialInv
    OBVIOUS
  <1> USE CredentialConstants DEF Credential!Init, Credential!Configured, Threads, Tokens
  <1>1. Credential!TypeOK
    <2>1. {access, persistErr, refreshErr, loss} \subseteq BOOLEAN
      OBVIOUS
    <2>2. Credential!Configured \in Tokens /\ valid \subseteq Tokens
      OBVIOUS
    <2> QED
      BY <2>1, <2>2 DEF Credential!TypeOK
  <1>2. Locked /\ Stages /\ Written
    BY DEF Locked, Stages, Written
  <1>3. Pending /\ Fresh /\ Alive /\ Loyal
    BY DEF Pending, Fresh, Alive, Loyal, Credential!Loads
  <1> QED
    BY <1>1, <1>2, <1>3 DEF CredentialInv

\* Every step of the credential keeps the invariant.
LEMMA CredentialStep ==
  CredentialInv /\ [Credential!Next]_(Credential!vars) => CredentialInv'
  <1> SUFFICES ASSUME CredentialInv, [Credential!Next]_(Credential!vars) PROVE CredentialInv'
    OBVIOUS
  <1> USE CredentialConstants
      DEF Credential!memory, Credential!outside, Credential!history, Credential!Unlock,
          Credential!Persist, Credential!Loads, Credential!Configured, Threads, Tokens
  <1>1. CASE Credential!Start
    <2>1. Credential!TypeOK'
      BY <1>1 DEF CredentialInv, Credential!Start, Credential!TypeOK, Locked, Stages, Fresh
    <2>2. Locked'
      BY <1>1 DEF CredentialInv, Credential!Start, Credential!TypeOK, Locked, Stages
    <2>3. Stages'
      BY <1>1 DEF CredentialInv, Credential!Start, Credential!TypeOK, Locked, Stages
    <2>4. Written'
      BY <1>1 DEF CredentialInv, Credential!Start, Credential!TypeOK, Locked, Stages, Written
    <2>5. Pending'
      BY <1>1 DEF CredentialInv, Credential!Start, Credential!TypeOK, Locked, Stages, Pending
    <2>6. Fresh'
      BY <1>1 DEF CredentialInv, Credential!Start, Credential!TypeOK, Locked, Stages, Fresh
    <2>7. Alive'
      BY <1>1 DEF CredentialInv, Credential!Start, Credential!TypeOK, Locked, Stages, Alive
    <2>8. Loyal'
      BY <1>1 DEF CredentialInv, Credential!Start, Credential!TypeOK, Locked, Stages, Loyal
    <2> QED
      BY <2>1, <2>2, <2>3, <2>4, <2>5, <2>6, <2>7, <2>8 DEF CredentialInv
  <1>2. CASE Credential!Crash
    <2>1. Credential!TypeOK'
      <3>1. /\ crashes < MaxCrashes /\ crashes' = crashes + 1
            /\ loss' = (loss \/ persistErr \/ reply # None)
            /\ access' = FALSE /\ persistErr' = FALSE /\ refreshErr' = FALSE
            /\ process' = "down" /\ mu' = None /\ refresh' = None /\ reply' = None
            /\ pc' = [u \in Threads |-> "idle"] /\ paste' = [u \in Threads |-> None]
            /\ UNCHANGED <<relayed, cache, grants, valid, adopted>>
        BY <1>2 DEF Credential!Crash
      <3>2. ({access, persistErr, refreshErr, loss} \subseteq BOOLEAN)'
        BY <3>1
      <3>3. crashes' \in 0..MaxCrashes
        BY <3>1 DEF CredentialInv, Credential!TypeOK
      <3> QED
        BY <3>1, <3>2, <3>3 DEF CredentialInv, Credential!TypeOK
    <2>2. Locked'
      BY <1>2 DEF CredentialInv, Credential!Crash, Credential!TypeOK, Locked, Stages
    <2>3. Stages'
      BY <1>2 DEF CredentialInv, Credential!Crash, Credential!TypeOK, Locked, Stages
    <2>4. Written'
      BY <1>2 DEF CredentialInv, Credential!Crash, Credential!TypeOK, Locked, Stages, Written
    <2>5. Pending'
      BY <1>2 DEF CredentialInv, Credential!Crash, Credential!TypeOK, Locked, Stages, Pending
    <2>6. Fresh'
      BY <1>2 DEF CredentialInv, Credential!Crash, Credential!TypeOK, Locked, Stages, Fresh
    <2>7. Alive'
      <3>1. /\ loss' = (loss \/ persistErr \/ reply # None)
            /\ process' = "down" /\ reply' = None
            /\ UNCHANGED <<relayed, cache, valid>>
            /\ process # "down"
        BY <1>2 DEF Credential!Crash
      <3>2. persistErr \in BOOLEAN /\ loss \in BOOLEAN
        BY DEF CredentialInv, Credential!TypeOK
      <3>3. loss' = FALSE => loss = FALSE /\ persistErr = FALSE /\ reply = None
        BY <3>1, <3>2
      <3> QED
        BY <3>1, <3>3 DEF CredentialInv, Alive, Written
    <2>8. Loyal'
      BY <1>2 DEF CredentialInv, Credential!Crash, Credential!TypeOK, Locked, Stages, Loyal
    <2> QED
      BY <2>1, <2>2, <2>3, <2>4, <2>5, <2>6, <2>7, <2>8 DEF CredentialInv
  <1>3. CASE Credential!Expire
    <2>1. Credential!TypeOK'
      BY <1>3 DEF CredentialInv, Credential!Expire, Credential!TypeOK, Locked, Stages, Fresh
    <2>2. Locked'
      BY <1>3 DEF CredentialInv, Credential!Expire, Credential!TypeOK, Locked, Stages
    <2>3. Stages'
      BY <1>3 DEF CredentialInv, Credential!Expire, Credential!TypeOK, Locked, Stages
    <2>4. Written'
      BY <1>3 DEF CredentialInv, Credential!Expire, Credential!TypeOK, Locked, Stages, Written
    <2>5. Pending'
      BY <1>3 DEF CredentialInv, Credential!Expire, Credential!TypeOK, Locked, Stages, Pending
    <2>6. Fresh'
      BY <1>3 DEF CredentialInv, Credential!Expire, Credential!TypeOK, Locked, Stages, Fresh
    <2>7. Alive'
      BY <1>3 DEF CredentialInv, Credential!Expire, Credential!TypeOK, Locked, Stages, Alive
    <2>8. Loyal'
      BY <1>3 DEF CredentialInv, Credential!Expire, Credential!TypeOK, Locked, Stages, Loyal
    <2> QED
      BY <2>1, <2>2, <2>3, <2>4, <2>5, <2>6, <2>7, <2>8 DEF CredentialInv
  <1>4. ASSUME NEW t \in Threads, Credential!Ask(t) PROVE CredentialInv'
    <2>1. Credential!TypeOK'
      BY <1>4 DEF CredentialInv, Credential!Ask, Credential!TypeOK, Locked, Stages, Fresh
    <2>2. Locked'
      BY <1>4 DEF CredentialInv, Credential!Ask, Credential!TypeOK, Locked, Stages
    <2>3. Stages'
      BY <1>4 DEF CredentialInv, Credential!Ask, Credential!TypeOK, Locked, Stages
    <2>4. Written'
      BY <1>4 DEF CredentialInv, Credential!Ask, Credential!TypeOK, Locked, Stages, Written
    <2>5. Pending'
      BY <1>4 DEF CredentialInv, Credential!Ask, Credential!TypeOK, Locked, Stages, Pending
    <2>6. Fresh'
      BY <1>4 DEF CredentialInv, Credential!Ask, Credential!TypeOK, Locked, Stages, Fresh
    <2>7. Alive'
      BY <1>4 DEF CredentialInv, Credential!Ask, Credential!TypeOK, Locked, Stages, Alive
    <2>8. Loyal'
      BY <1>4 DEF CredentialInv, Credential!Ask, Credential!TypeOK, Locked, Stages, Loyal
    <2> QED
      BY <2>1, <2>2, <2>3, <2>4, <2>5, <2>6, <2>7, <2>8 DEF CredentialInv
  <1>5. ASSUME NEW t \in Threads, Credential!Paste(t) PROVE CredentialInv'
    <2>1. Credential!TypeOK'
      BY <1>5 DEF CredentialInv, Credential!Paste, Credential!TypeOK, Locked, Stages, Fresh
    <2>2. Locked'
      BY <1>5 DEF CredentialInv, Credential!Paste, Credential!TypeOK, Locked, Stages
    <2>3. Stages'
      BY <1>5 DEF CredentialInv, Credential!Paste, Credential!TypeOK, Locked, Stages
    <2>4. Written'
      BY <1>5 DEF CredentialInv, Credential!Paste, Credential!TypeOK, Locked, Stages, Written
    <2>5. Pending'
      <3> DEFINE tok == [grant |-> grants + 1, use |-> 0]
      <3>1. /\ valid' = valid \cup {tok} /\ grants' = grants + 1
            /\ paste' = [paste EXCEPT ![t] = tok] /\ pc' = [pc EXCEPT ![t] = "paste"]
            /\ UNCHANGED <<refresh, reply, cache>>
            /\ grants \in 0..MaxGrants /\ grants + 1 \in 0..MaxGrants /\ t \in Threads
        BY <1>5 DEF Credential!Paste, CredentialInv, Credential!TypeOK
      <3>2. tok \in Tokens /\ tok.grant = grants + 1
        BY <3>1
      <3>3. /\ paste'[t] = tok /\ pc'[t] = "paste"
            /\ \A s \in Threads \ {t} : paste'[s] = paste[s] /\ pc'[s] = pc[s]
        BY <3>1 DEF CredentialInv, Credential!TypeOK
      <3>4. /\ refresh # None => refresh.grant \in 0..grants
            /\ cache # None => cache.grant \in 0..grants
            /\ reply # None => reply.grant \in 0..grants
        <4>1. /\ refresh # None => refresh \in Tokens
              /\ cache # None => cache \in Tokens
              /\ reply # None => reply \in Tokens
          BY DEF CredentialInv, Credential!TypeOK
        <4>2. reply # None => refresh # None
          BY <1>5 DEF Credential!Paste, CredentialInv, Credential!TypeOK, Locked, Stages
        <4> QED
          BY <4>1, <4>2, <3>1 DEF CredentialInv, Fresh, Loyal
      <3> HIDE DEF tok
      <3>5. \A s \in Threads \ {t} : pc'[s] = "paste" => paste'[s].grant \in 1..grants
        BY <3>3 DEF CredentialInv, Pending
      <3>6. ASSUME NEW s \in Threads, pc'[s] = "paste"
            PROVE  /\ paste'[s] \in Tokens /\ paste'[s] \in valid' /\ paste'[s].grant \in 1..grants'
                   /\ refresh' # None => paste'[s].grant # refresh'.grant
                   /\ reply' # None => paste'[s].grant # reply'.grant
                   /\ cache' # None => paste'[s].grant # cache'.grant
        <4>1. CASE s = t
          BY <4>1, <3>1, <3>2, <3>3, <3>4
        <4>2. CASE s # t
          BY <4>2, <3>1, <3>3, <3>5, <3>6 DEF CredentialInv, Pending
        <4> QED
          BY <4>1, <4>2
      <3>7. ASSUME NEW s \in Threads, pc'[s] = "paste", NEW u \in Threads \ {s}, pc'[u] = "paste"
            PROVE  paste'[s].grant # paste'[u].grant
        <4>1. CASE s = t
          BY <4>1, <3>1, <3>2, <3>3, <3>5, <3>7
        <4>2. CASE u = t
          BY <4>2, <3>1, <3>2, <3>3, <3>5, <3>7
        <4>3. CASE s # t /\ u # t
          BY <4>3, <3>3, <3>7 DEF CredentialInv, Pending
        <4> QED
          BY <4>1, <4>2, <4>3
      <3> QED
        BY <3>6, <3>7 DEF Pending
    <2>6. Fresh'
      BY <1>5 DEF CredentialInv, Credential!Paste, Credential!TypeOK, Locked, Stages, Fresh
    <2>7. Alive'
      BY <1>5 DEF CredentialInv, Credential!Paste, Credential!TypeOK, Locked, Stages, Alive
    <2>8. Loyal'
      BY <1>5 DEF CredentialInv, Credential!Paste, Credential!TypeOK, Locked, Stages, Loyal
    <2> QED
      BY <2>1, <2>2, <2>3, <2>4, <2>5, <2>6, <2>7, <2>8 DEF CredentialInv
  <1>6. ASSUME NEW t \in Threads, Credential!Token(t) PROVE CredentialInv'
    <2>1. Credential!TypeOK'
      <3>1. /\ cache' \in {cache, refresh} /\ persistErr' \in BOOLEAN
            /\ mu' \in {None, t} /\ process' \in {process, "up"}
            /\ pc' = [pc EXCEPT ![t] = pc'[t]] /\ pc'[t] \in {"idle", "send"}
            /\ relayed = TRUE /\ process # "down"
            /\ UNCHANGED <<relayed, paste, refresh, access, refreshErr, reply, grants, valid,
                           crashes, adopted, loss>>
        <4> HIDE DEF Tokens, Credential!Loads, Credential!Configured
        <4> QED
          BY <1>6 DEF Credential!Token, CredentialInv, Credential!TypeOK, Stages
      <3>2. refresh # None
        BY <3>1 DEF CredentialInv, Credential!TypeOK
      <3>3. ({access, persistErr, refreshErr, loss} \subseteq BOOLEAN)'
        BY <3>1 DEF CredentialInv, Credential!TypeOK
      <3> QED
        BY <3>1, <3>2, <3>3 DEF CredentialInv, Credential!TypeOK
    <2>2. Locked'
      BY <1>6 DEF CredentialInv, Credential!Token, Credential!TypeOK, Locked, Stages
    <2>3. Stages'
      BY <1>6 DEF CredentialInv, Credential!Token, Credential!TypeOK, Locked, Stages
    <2>4. Written'
      BY <1>6 DEF CredentialInv, Credential!Token, Credential!TypeOK, Locked, Stages, Written
    <2>5. Pending'
      BY <1>6 DEF CredentialInv, Credential!Token, Credential!TypeOK, Locked, Stages, Pending
    <2>6. Fresh'
      BY <1>6 DEF CredentialInv, Credential!Token, Credential!TypeOK, Locked, Stages, Fresh
    <2>7. Alive'
      BY <1>6 DEF CredentialInv, Credential!Token, Credential!TypeOK, Locked, Stages, Alive
    <2>8. Loyal'
      BY <1>6 DEF CredentialInv, Credential!Token, Credential!TypeOK, Locked, Stages, Loyal
    <2> QED
      BY <2>1, <2>2, <2>3, <2>4, <2>5, <2>6, <2>7, <2>8 DEF CredentialInv
  <1>7. ASSUME NEW t \in Threads, Credential!WizardToken(t) PROVE CredentialInv'
    <2>1. Credential!TypeOK'
      BY <1>7 DEF CredentialInv, Credential!WizardToken, Credential!TypeOK, Locked, Stages, Fresh
    <2>2. Locked'
      BY <1>7 DEF CredentialInv, Credential!WizardToken, Credential!TypeOK, Locked, Stages
    <2>3. Stages'
      BY <1>7 DEF CredentialInv, Credential!WizardToken, Credential!TypeOK, Locked, Stages
    <2>4. Written'
      BY <1>7
         DEF CredentialInv, Credential!WizardToken, Credential!TypeOK, Locked, Stages, Written
    <2>5. Pending'
      BY <1>7
         DEF CredentialInv, Credential!WizardToken, Credential!TypeOK, Locked, Stages, Pending
    <2>6. Fresh'
      BY <1>7 DEF CredentialInv, Credential!WizardToken, Credential!TypeOK, Locked, Stages, Fresh
    <2>7. Alive'
      BY <1>7 DEF CredentialInv, Credential!WizardToken, Credential!TypeOK, Locked, Stages, Alive
    <2>8. Loyal'
      BY <1>7 DEF CredentialInv, Credential!WizardToken, Credential!TypeOK, Locked, Stages, Loyal
    <2> QED
      BY <2>1, <2>2, <2>3, <2>4, <2>5, <2>6, <2>7, <2>8 DEF CredentialInv
  <1>8. ASSUME NEW t \in Threads, Credential!RefreshFails(t) PROVE CredentialInv'
    <2>1. Credential!TypeOK'
      BY <1>8 DEF CredentialInv, Credential!RefreshFails, Credential!TypeOK, Locked, Stages, Fresh
    <2>2. Locked'
      BY <1>8 DEF CredentialInv, Credential!RefreshFails, Credential!TypeOK, Locked, Stages
    <2>3. Stages'
      BY <1>8 DEF CredentialInv, Credential!RefreshFails, Credential!TypeOK, Locked, Stages
    <2>4. Written'
      BY <1>8
         DEF CredentialInv, Credential!RefreshFails, Credential!TypeOK, Locked, Stages, Written
    <2>5. Pending'
      BY <1>8
         DEF CredentialInv, Credential!RefreshFails, Credential!TypeOK, Locked, Stages, Pending
    <2>6. Fresh'
      BY <1>8 DEF CredentialInv, Credential!RefreshFails, Credential!TypeOK, Locked, Stages, Fresh
    <2>7. Alive'
      BY <1>8 DEF CredentialInv, Credential!RefreshFails, Credential!TypeOK, Locked, Stages, Alive
    <2>8. Loyal'
      BY <1>8 DEF CredentialInv, Credential!RefreshFails, Credential!TypeOK, Locked, Stages, Loyal
    <2> QED
      BY <2>1, <2>2, <2>3, <2>4, <2>5, <2>6, <2>7, <2>8 DEF CredentialInv
  <1>9. ASSUME NEW t \in Threads, Credential!RefreshKeeps(t) PROVE CredentialInv'
    <2>1. Credential!TypeOK'
      BY <1>9 DEF CredentialInv, Credential!RefreshKeeps, Credential!TypeOK, Locked, Stages, Fresh
    <2>2. Locked'
      BY <1>9 DEF CredentialInv, Credential!RefreshKeeps, Credential!TypeOK, Locked, Stages
    <2>3. Stages'
      BY <1>9 DEF CredentialInv, Credential!RefreshKeeps, Credential!TypeOK, Locked, Stages
    <2>4. Written'
      BY <1>9
         DEF CredentialInv, Credential!RefreshKeeps, Credential!TypeOK, Locked, Stages, Written
    <2>5. Pending'
      BY <1>9
         DEF CredentialInv, Credential!RefreshKeeps, Credential!TypeOK, Locked, Stages, Pending
    <2>6. Fresh'
      BY <1>9 DEF CredentialInv, Credential!RefreshKeeps, Credential!TypeOK, Locked, Stages, Fresh
    <2>7. Alive'
      BY <1>9 DEF CredentialInv, Credential!RefreshKeeps, Credential!TypeOK, Locked, Stages, Alive
    <2>8. Loyal'
      BY <1>9 DEF CredentialInv, Credential!RefreshKeeps, Credential!TypeOK, Locked, Stages, Loyal
    <2> QED
      BY <2>1, <2>2, <2>3, <2>4, <2>5, <2>6, <2>7, <2>8 DEF CredentialInv
  <1>10. ASSUME NEW t \in Threads, Credential!RefreshRotates(t) PROVE CredentialInv'
    <2>1. Credential!TypeOK'
      <3> DEFINE next == [refresh EXCEPT !.use = @ + 1]
      <3>1. /\ pc[t] = "send" /\ refresh \in valid /\ refresh.use < MaxUses
            /\ valid' = (valid \ {refresh}) \cup {next}
            /\ reply' \in {reply, next} /\ mu' \in {mu, None} /\ process' \in {process, "up"}
            /\ pc' = [pc EXCEPT ![t] = pc'[t]] /\ pc'[t] \in {"idle", "receive"}
            /\ refreshErr' \in {refreshErr, relayed} /\ loss' \in {loss, TRUE}
            /\ UNCHANGED <<relayed, paste, refresh, access, persistErr, cache, grants, crashes,
                           adopted>>
        BY <1>10 DEF Credential!RefreshRotates, CredentialInv, Credential!TypeOK
      <3>2. refresh \in Tokens /\ valid \subseteq Tokens
        BY <3>1 DEF CredentialInv, Credential!TypeOK
      <3>3. next \in Tokens
        BY <3>1, <3>2
      <3> HIDE DEF next
      <3>4. valid' \subseteq Tokens /\ reply' \in Tokens \cup {None}
        BY <3>1, <3>2, <3>3 DEF CredentialInv, Credential!TypeOK
      <3>5. ({access, persistErr, refreshErr, loss} \subseteq BOOLEAN)'
        BY <3>1 DEF CredentialInv, Credential!TypeOK
      <3>6. process # "down" /\ refresh # None
        BY <3>1, <3>2 DEF CredentialInv, Stages
      <3> QED
        BY <3>1, <3>4, <3>5, <3>6 DEF CredentialInv, Credential!TypeOK
    <2>2. Locked'
      BY <1>10 DEF CredentialInv, Credential!RefreshRotates, Credential!TypeOK, Locked, Stages
    <2>3. Stages'
      BY <1>10 DEF CredentialInv, Credential!RefreshRotates, Credential!TypeOK, Locked, Stages
    <2>4. Written'
      BY <1>10
         DEF CredentialInv, Credential!RefreshRotates, Credential!TypeOK, Locked, Stages, Written
    <2>5. Pending'
      BY <1>10
         DEF CredentialInv, Credential!RefreshRotates, Credential!TypeOK, Locked, Stages, Pending
    <2>6. Fresh'
      BY <1>10
         DEF CredentialInv, Credential!RefreshRotates, Credential!TypeOK, Locked, Stages, Fresh
    <2>7. Alive'
      BY <1>10
         DEF CredentialInv, Credential!RefreshRotates, Credential!TypeOK, Locked, Stages, Alive
    <2>8. Loyal'
      BY <1>10
         DEF CredentialInv, Credential!RefreshRotates, Credential!TypeOK, Locked, Stages, Loyal
    <2> QED
      BY <2>1, <2>2, <2>3, <2>4, <2>5, <2>6, <2>7, <2>8 DEF CredentialInv
  <1>11. ASSUME NEW t \in Threads, Credential!Receive(t) PROVE CredentialInv'
    <2>1. Credential!TypeOK'
      BY <1>11 DEF CredentialInv, Credential!Receive, Credential!TypeOK, Locked, Stages, Fresh
    <2>2. Locked'
      BY <1>11 DEF CredentialInv, Credential!Receive, Credential!TypeOK, Locked, Stages
    <2>3. Stages'
      BY <1>11 DEF CredentialInv, Credential!Receive, Credential!TypeOK, Locked, Stages
    <2>4. Written'
      BY <1>11 DEF CredentialInv, Credential!Receive, Credential!TypeOK, Locked, Stages, Written
    <2>5. Pending'
      BY <1>11 DEF CredentialInv, Credential!Receive, Credential!TypeOK, Locked, Stages, Pending
    <2>6. Fresh'
      BY <1>11
         DEF CredentialInv, Credential!Receive, Credential!TypeOK, Locked, Stages, Loyal, Fresh
    <2>7. Alive'
      BY <1>11 DEF CredentialInv, Credential!Receive, Credential!TypeOK, Locked, Stages, Alive
    <2>8. Loyal'
      BY <1>11 DEF CredentialInv, Credential!Receive, Credential!TypeOK, Locked, Stages, Loyal
    <2> QED
      BY <2>1, <2>2, <2>3, <2>4, <2>5, <2>6, <2>7, <2>8 DEF CredentialInv
  <1>12. ASSUME NEW t \in Threads, Credential!WizardReceive(t) PROVE CredentialInv'
    <2>1. Credential!TypeOK'
      BY <1>12
         DEF CredentialInv, Credential!WizardReceive, Credential!TypeOK, Locked, Stages, Fresh
    <2>2. Locked'
      BY <1>12 DEF CredentialInv, Credential!WizardReceive, Credential!TypeOK, Locked, Stages
    <2>3. Stages'
      BY <1>12 DEF CredentialInv, Credential!WizardReceive, Credential!TypeOK, Locked, Stages
    <2>4. Written'
      BY <1>12
         DEF CredentialInv, Credential!WizardReceive, Credential!TypeOK, Locked, Stages, Written
    <2>5. Pending'
      BY <1>12
         DEF CredentialInv, Credential!WizardReceive, Credential!TypeOK, Locked, Stages, Pending
    <2>6. Fresh'
      BY <1>12
         DEF CredentialInv, Credential!WizardReceive, Credential!TypeOK, Locked, Stages, Loyal,
             Fresh
    <2>7. Alive'
      BY <1>12
         DEF CredentialInv, Credential!WizardReceive, Credential!TypeOK, Locked, Stages, Alive
    <2>8. Loyal'
      BY <1>12
         DEF CredentialInv, Credential!WizardReceive, Credential!TypeOK, Locked, Stages, Loyal
    <2> QED
      BY <2>1, <2>2, <2>3, <2>4, <2>5, <2>6, <2>7, <2>8 DEF CredentialInv
  <1>13. ASSUME NEW t \in Threads, Credential!Adopt(t) PROVE CredentialInv'
    <2>1. Credential!TypeOK'
      <3>1. /\ relayed = TRUE /\ paste[t] \in Tokens /\ paste[t].grant \in 1..grants
            /\ refresh' = paste[t] /\ cache' \in {cache, paste[t]} /\ adopted' = paste[t].grant
            /\ access' = FALSE /\ persistErr' \in BOOLEAN /\ loss' = FALSE /\ mu' = None
            /\ process' \in {process, "up"} /\ pc' = [pc EXCEPT ![t] = "idle"]
            /\ UNCHANGED <<relayed, paste, refreshErr, reply, grants, valid, crashes>>
        <4> HIDE DEF Tokens, Credential!Loads, Credential!Configured
        <4> QED
          BY <1>13 DEF CredentialInv, Credential!Adopt, Credential!TypeOK, Stages, Pending
      <3> QED
        BY <3>1 DEF CredentialInv, Credential!TypeOK
    <2>2. Locked'
      BY <1>13 DEF CredentialInv, Credential!Adopt, Credential!TypeOK, Locked, Stages
    <2>3. Stages'
      BY <1>13 DEF CredentialInv, Credential!Adopt, Credential!TypeOK, Locked, Stages
    <2>4. Written'
      <3>1. /\ relayed = TRUE /\ refresh' = paste[t] /\ pc[t] = "paste"
            /\ cache' \in {cache, paste[t]} /\ (persistErr' = FALSE => cache' = paste[t])
        BY <1>13 DEF Credential!Adopt, CredentialInv, Credential!TypeOK
      <3>2. paste[t] # None
        BY <3>1 DEF CredentialInv, Pending
      <3> QED
        BY <3>1, <3>2 DEF Written
    <2>5. Pending'
      BY <1>13 DEF CredentialInv, Credential!Adopt, Credential!TypeOK, Locked, Stages, Pending
    <2>6. Fresh'
      BY <1>13
         DEF CredentialInv, Credential!Adopt, Credential!TypeOK, Locked, Stages, Pending, Fresh
    <2>7. Alive'
      BY <1>13
         DEF CredentialInv, Credential!Adopt, Credential!TypeOK, Locked, Stages, Pending, Alive
    <2>8. Loyal'
      BY <1>13 DEF CredentialInv, Credential!Adopt, Credential!TypeOK, Locked, Stages, Loyal
    <2> QED
      BY <2>1, <2>2, <2>3, <2>4, <2>5, <2>6, <2>7, <2>8 DEF CredentialInv
  <1>14. ASSUME NEW t \in Threads, Credential!WizardAdopt(t) PROVE CredentialInv'
    <2>1. Credential!TypeOK'
      BY <1>14
         DEF CredentialInv, Credential!WizardAdopt, Credential!TypeOK, Locked, Stages, Pending,
             Fresh
    <2>2. Locked'
      BY <1>14 DEF CredentialInv, Credential!WizardAdopt, Credential!TypeOK, Locked, Stages
    <2>3. Stages'
      BY <1>14
         DEF CredentialInv, Credential!WizardAdopt, Credential!TypeOK, Locked, Stages, Pending
    <2>4. Written'
      BY <1>14
         DEF CredentialInv, Credential!WizardAdopt, Credential!TypeOK, Locked, Stages, Written
    <2>5. Pending'
      BY <1>14
         DEF CredentialInv, Credential!WizardAdopt, Credential!TypeOK, Locked, Stages, Pending
    <2>6. Fresh'
      BY <1>14
         DEF CredentialInv, Credential!WizardAdopt, Credential!TypeOK, Locked, Stages, Pending,
             Fresh
    <2>7. Alive'
      BY <1>14
         DEF CredentialInv, Credential!WizardAdopt, Credential!TypeOK, Locked, Stages, Pending,
             Alive
    <2>8. Loyal'
      BY <1>14 DEF CredentialInv, Credential!WizardAdopt, Credential!TypeOK, Locked, Stages, Loyal
    <2> QED
      BY <2>1, <2>2, <2>3, <2>4, <2>5, <2>6, <2>7, <2>8 DEF CredentialInv
  <1>15. CASE UNCHANGED Credential!vars
    BY <1>15
       DEF CredentialInv, Credential!vars, Credential!TypeOK, Locked, Stages, Written, Pending,
           Fresh, Alive, Loyal
  <1> QED
    BY <1>1, <1>2, <1>3, <1>4, <1>5, <1>6, <1>7, <1>8, <1>9, <1>10, <1>11, <1>12, <1>13, <1>14,
       <1>15
       DEF Credential!Next, Credential!ThreadStep, Threads

\* The invariant says what the runs ask of the credential.
LEMMA CredentialImplies ==
  CredentialInv => Credential!CredentialKept /\ Credential!StatusOkSurvivesRestart
  <1> SUFFICES ASSUME CredentialInv
               PROVE  Credential!CredentialKept /\ Credential!StatusOkSurvivesRestart
    OBVIOUS
  <1> USE DEF Credential!Idle, Credential!Held
  <1>1. relayed \in BOOLEAN /\ persistErr \in BOOLEAN /\ refreshErr \in BOOLEAN /\ loss \in BOOLEAN
    BY DEF CredentialInv, Credential!TypeOK
  <1>2. mu = None => reply = None
    BY DEF CredentialInv, Locked
  <1>3. Credential!CredentialAlive
    BY <1>1, <1>2 DEF CredentialInv, Alive, Credential!CredentialAlive
  <1>4. Credential!PastedTokenKept
    BY <1>1 DEF CredentialInv, Loyal, Credential!PastedTokenKept
  <1>5. Credential!StatusOkSurvivesRestart
    <2>1. ASSUME relayed = TRUE, process = "up", mu = None, Credential!status = "ok"
          PROVE  Credential!Loads(cache) \in valid
      <3>1. persistErr = FALSE /\ refreshErr = FALSE
        BY <1>1, <2>1 DEF Credential!status
      <3> QED
        BY <1>2, <2>1, <3>1 DEF CredentialInv, Alive, Written
    <2> QED
      BY <1>1, <2>1 DEF Credential!StatusOkSurvivesRestart
  <1> QED
    BY <1>3, <1>4, <1>5 DEF Credential!CredentialKept

\* What holds of the credential alone.
LEMMA CredentialSafe ==
  Credential!Spec => [](/\ Credential!TypeOK
                        /\ Credential!CredentialKept /\ Credential!StatusOkSurvivesRestart)
  <1>1. CredentialInv => /\ Credential!TypeOK
                         /\ Credential!CredentialKept /\ Credential!StatusOkSurvivesRestart
    BY CredentialImplies DEF CredentialInv
  <1> QED
    BY <1>1, CredentialInit, CredentialStep, PTL DEF Credential!Spec

\* A behaviour of Services is one of the credential that stutters while it stands still.
LEMMA CredentialPart == Spec => Credential!Spec
  <1>1. Init => Credential!Init
    BY DEF Init
  <1>2. [Next]_servicesVars => [Credential!Next]_(Credential!vars)
    BY DEF Next, CredentialNext, EnrollNext, VehicleStateNext, ViewsNext, NamingNext,
           servicesVars, credentialVars, Credential!vars, Credential!memory, Credential!outside,
           Credential!history
  <1> QED
    BY <1>1, <1>2, PTL DEF Spec, Credential!Spec

-----------------------------------------------------------------------------
\* The vehicle store. The last save copies what nobody writes any more, and what a start
\* takes over can be told from what the car has said since.

\* What the store may have of a field, and of all fields of a car.
IsField(f, e) ==
  e = None \/ e \in [value : VehicleState!Values[f], count : Nat \ {0}]
IsFields(g) ==
  /\ g = [f \in VehicleState!Fields |-> g[f]]
  /\ \A f \in VehicleState!Fields : IsField(f, g[f])

\* What a save may have of a car.
IsSaved(r) ==
  r = None \/ /\ IsFields(r.fields)
              /\ r.conn \in {"", "online", "offline"}
              /\ r.lastV \in (0..MaxTime) \cup {None}

\* The shapes of the store, of a save and of the file.
Shapes ==
  /\ stored = [c \in Cars |-> stored[c]] /\ \A c \in Cars : IsFields(stored[c])
  /\ received \in [Cars -> [VehicleState!Fields \cup {"Link"} -> Nat]]
  /\ disk # None => \A c \in Cars : IsSaved(disk[c])
  /\ saving # None => DOMAIN saving \subseteq Cars /\ \A c \in DOMAIN saving : IsSaved(saving[c])

\* The last save begins when ingest has stopped, and nothing is saved after it.
LastSave ==
  /\ last \in BOOLEAN /\ joined \in BOOLEAN
  /\ last = TRUE => phase \in {"stopped", "saved"}
  /\ joined = TRUE => phase \in {"stopped", "saved"}
  /\ phase = "saved" => last = TRUE /\ saving = None

\* It copies a store that a joined consumer leaves alone.
CopiesTrue ==
  last = TRUE /\ joined = TRUE =>
     /\ saving # None => \A c \in DOMAIN saving : saving[c] = VehicleState!Copied(c)
     /\ phase = "saved" => \A c \in Cars : disk[c] = VehicleState!Copied(c)

\* What a process has not received itself does not speak for it.
Ghosts ==
  \A c \in Cars :
     /\ received[c] = VehicleState!NothingYet =>
           conn[c] # "online" /\ (loaded[c] = TRUE \/ stored[c] = VehicleState!NoFields)
     /\ received[c]["Gear"] = 0 =>
           stored[c]["Gear"] = None \/ stored[c]["Gear"].value # "D"

VehicleStateInv ==
  VehicleState!TypeOK /\ Shapes /\ LastSave /\ CopiesTrue /\ Ghosts

\* The constants of the store, as the assumption has them.
LEMMA VehicleStateConstants ==
  MaxTime \in Nat /\ Grace \in Nat /\ Stale \in Nat /\ ReportAsleep \in BOOLEAN
  BY ServicesAssumption DEF ServicesAssumption, VehicleState!VehicleStateAssumption

\* The initial states of the store satisfy the invariant.
LEMMA VehicleStateInit == VehicleState!Init => VehicleStateInv
  <1> SUFFICES ASSUME VehicleState!Init PROVE VehicleStateInv
    OBVIOUS
  <1> USE VehicleStateConstants
      DEF VehicleState!NoFields, VehicleState!NothingYet, VehicleState!Fields
  <1>1. VehicleState!TypeOK
    <2>1. \A c \in Cars, f \in VehicleState!Fields : stored[c][f] = None
      BY DEF VehicleState!Init
    <2>2. now = 0
      BY DEF VehicleState!Init
    <2>3. now \in 0..MaxTime
      BY <2>2
    <2> QED
      BY <2>1, <2>3 DEF VehicleState!Init, VehicleState!TypeOK
  <1>2. Shapes
    BY DEF VehicleState!Init, Shapes, IsFields, IsField
  <1>3. LastSave /\ CopiesTrue
    BY DEF VehicleState!Init, LastSave, CopiesTrue
  <1>4. Ghosts
    BY DEF VehicleState!Init, Ghosts
  <1> QED
    BY <1>1, <1>2, <1>3, <1>4 DEF VehicleStateInv

\* Fields that are what the store may have are what TypeOK says.
LEMMA FieldsTyped ==
  ASSUME NEW g, IsFields(g), NEW f \in VehicleState!Fields
  PROVE  g[f] = None \/ (g[f].value \in VehicleState!Values[f] /\ g[f].count > 0)
  BY DEF IsFields, IsField

\* One field of a car is set.
LEMMA FieldSet ==
  ASSUME NEW g, IsFields(g), NEW f \in VehicleState!Fields, NEW e, IsField(f, e)
  PROVE  /\ IsFields([g EXCEPT ![f] = e])
         /\ \A h \in VehicleState!Fields : [g EXCEPT ![f] = e][h] = IF h = f THEN e ELSE g[h]
  <1>1. g = [h \in VehicleState!Fields |-> g[h]] /\ \A h \in VehicleState!Fields : IsField(h, g[h])
    BY DEF IsFields
  <1> DEFINE new == [g EXCEPT ![f] = e]
  <1>2. new = [h \in VehicleState!Fields |-> IF h = f THEN e ELSE g[h]]
    BY <1>1
  <1> HIDE DEF new
  <1>3. new = [h \in VehicleState!Fields |-> new[h]]
    BY <1>2
  <1>4. \A h \in VehicleState!Fields : new[h] = IF h = f THEN e ELSE g[h]
    BY <1>2
  <1>5. \A h \in VehicleState!Fields : IsField(h, new[h])
    BY <1>1, <1>4
  <1>6. IsFields(new)
    BY <1>3, <1>5 DEF IsFields
  <1> QED
    BY <1>4, <1>6 DEF new

\* No fields are fields too.
LEMMA NoFieldsAre ==
  /\ IsFields(VehicleState!NoFields)
  /\ \A f \in VehicleState!Fields : VehicleState!NoFields[f] = None
  BY DEF IsFields, IsField, VehicleState!NoFields

\* What a start takes over of a saved car: no gear but P, and no link.
LEMMA Loads ==
  ASSUME NEW r, IsSaved(r), r # None
  PROVE  /\ IsFields(VehicleState!LoadedFields(r))
         /\ LET gear == VehicleState!LoadedFields(r)["Gear"]
            IN  gear = None \/ gear.value # "D"
         /\ VehicleState!LoadedConn(r) \in {"", "offline"}
         /\ r.lastV \in (0..MaxTime) \cup {None}
  <1> DEFINE new == VehicleState!LoadedFields(r)
  <1>1. IsFields(r.fields)
    BY DEF IsSaved
  <1>2. new = [f \in VehicleState!Fields |->
                 IF f = "Gear" /\ r.fields[f] # None /\ r.fields[f].value # "P"
                 THEN None ELSE r.fields[f]]
    BY DEF VehicleState!LoadedFields
  <1> HIDE DEF new
  <1>3. new = [f \in VehicleState!Fields |-> new[f]]
    BY <1>2
  <1>4. \A f \in VehicleState!Fields : IsField(f, new[f])
    BY <1>1, <1>2 DEF IsFields, IsField
  <1>5. new["Gear"] = None \/ new["Gear"].value # "D"
    BY <1>2 DEF VehicleState!Fields
  <1>6. IsFields(new)
    BY <1>3, <1>4 DEF IsFields
  <1> QED
    BY <1>5, <1>6 DEF new, IsSaved, VehicleState!LoadedConn

\* Something more has been received.
LEMMA Receives ==
  ASSUME NEW r \in [VehicleState!Fields \cup {"Link"} -> Nat],
         NEW k \in VehicleState!Fields \cup {"Link"},
         NEW new, new = [r EXCEPT ![k] = @ + 1]
  PROVE  /\ new \in [VehicleState!Fields \cup {"Link"} -> Nat]
         /\ new # VehicleState!NothingYet
         /\ k = "Gear" => new["Gear"] = r["Gear"] + 1
         /\ k # "Gear" => new["Gear"] = r["Gear"]
  <1>1. /\ new \in [VehicleState!Fields \cup {"Link"} -> Nat]
        /\ new[k] = r[k] + 1 /\ r[k] \in Nat
        /\ k = "Gear" => new["Gear"] = r["Gear"] + 1
        /\ k # "Gear" => new["Gear"] = r["Gear"]
    BY DEF VehicleState!Fields
  <1>2. VehicleState!NothingYet[k] = 0
    BY DEF VehicleState!NothingYet
  <1>3. new # VehicleState!NothingYet
    BY <1>1, <1>2
  <1> QED
    BY <1>1, <1>3

\* Every step of the store keeps the invariant.
LEMMA VehicleStateStep ==
  VehicleStateInv /\ [VehicleState!Next]_(VehicleState!vars) => VehicleStateInv'
  <1> SUFFICES ASSUME VehicleStateInv, [VehicleState!Next]_(VehicleState!vars)
               PROVE  VehicleStateInv'
    OBVIOUS
  <1> USE VehicleStateConstants DEF VehicleState!vehicleVars, VehicleState!saveVars
  <1>1. CASE VehicleState!Tick
    <2>1. VehicleState!TypeOK'
      <3>1. now' \in 0..MaxTime
        <4>1. now \in 0..MaxTime
          BY DEF VehicleStateInv, VehicleState!TypeOK
        <4>2. now < MaxTime /\ now' = now + 1
          BY <1>1 DEF VehicleState!Tick
        <4> QED
          BY <4>1, <4>2
      <3> QED
        BY <1>1, <3>1 DEF VehicleState!Tick, VehicleStateInv, VehicleState!TypeOK
    <2>2. Shapes'
      BY <1>1
         DEF VehicleStateInv, VehicleState!Tick, VehicleState!TypeOK, Shapes, IsFields, IsField,
             IsSaved
    <2>3. LastSave'
      BY <1>1 DEF VehicleStateInv, VehicleState!Tick, VehicleState!TypeOK, LastSave
    <2>4. CopiesTrue'
      BY <1>1
         DEF VehicleStateInv, VehicleState!Tick, VehicleState!TypeOK, CopiesTrue, LastSave,
             VehicleState!Copied
    <2>5. Ghosts'
      BY <1>1 DEF VehicleStateInv, VehicleState!Tick, VehicleState!TypeOK, Ghosts, Shapes
    <2> QED
      BY <2>1, <2>2, <2>3, <2>4, <2>5 DEF VehicleStateInv
  <1>2. ASSUME NEW c \in Cars, NEW f \in VehicleState!Fields, NEW v \in VehicleState!Values[f],
               VehicleState!SetField(c, f, v)
        PROVE  VehicleStateInv'
    <2>6. PICK n \in Nat \ {0} :
             stored' = [stored EXCEPT ![c] = [stored[c] EXCEPT ![f] = [value |-> v, count |-> n]]]
      <3>1. stored[c][f] # None => stored[c][f].count \in Nat
        BY DEF VehicleStateInv, Shapes, IsFields, IsField
      <3>2. CASE stored[c][f] = None
        <4>1. 0 + 1 = 1 /\ 1 \in Nat \ {0}
          OBVIOUS
        <4>2. stored' = [stored EXCEPT ![c] = [stored[c] EXCEPT ![f] =
                                                 [value |-> v, count |-> 0 + 1]]]
          BY <1>2, <3>2 DEF VehicleState!SetField
        <4> QED
          BY <4>1, <4>2
      <3>3. CASE stored[c][f] # None
        <4>1. stored[c][f].count + 1 \in Nat \ {0}
          BY <3>1, <3>3
        <4> QED
          BY <1>2, <3>3, <4>1 DEF VehicleState!SetField
      <3> QED
        BY <3>2, <3>3
    <2> DEFINE e == [value |-> v, count |-> n]
    <2>7. IsField(f, e) /\ e.value = v
      BY DEF IsField
    <2>8. /\ IsFields([stored[c] EXCEPT ![f] = e])
          /\ \A h \in VehicleState!Fields :
                [stored[c] EXCEPT ![f] = e][h] = IF h = f THEN e ELSE stored[c][h]
      BY <2>7, FieldSet DEF VehicleStateInv, Shapes
    <2>9. /\ stored' = [stored EXCEPT ![c] = stored'[c]] /\ IsFields(stored'[c])
          /\ \A h \in VehicleState!Fields : stored'[c][h] = IF h = f THEN e ELSE stored[c][h]
          /\ \A d \in Cars \ {c} : stored'[d] = stored[d]
      BY <2>6, <2>8 DEF VehicleStateInv, Shapes
    <2> HIDE DEF e
    <2>10. /\ received'[c] \in [VehicleState!Fields \cup {"Link"} -> Nat]
           /\ received'[c] # VehicleState!NothingYet
           /\ received'[c]["Gear"] = IF f = "Gear" THEN received[c]["Gear"] + 1
                                                   ELSE received[c]["Gear"]
           /\ received' = [received EXCEPT ![c] = received'[c]]
           /\ received[c]["Gear"] \in Nat
      <3>1. received[c] \in [VehicleState!Fields \cup {"Link"} -> Nat]
        BY DEF VehicleStateInv, Shapes
      <3>2. received' = [received EXCEPT ![c] = [received[c] EXCEPT ![f] = @ + 1]]
        BY <1>2 DEF VehicleState!SetField
      <3>3. received'[c] = [received[c] EXCEPT ![f] = @ + 1]
        BY <3>2 DEF VehicleStateInv, Shapes
      <3>4. received[c]["Gear"] \in Nat
        BY <3>1 DEF VehicleState!Fields
      <3>5. /\ received'[c] \in [VehicleState!Fields \cup {"Link"} -> Nat]
            /\ received'[c] # VehicleState!NothingYet
            /\ received'[c]["Gear"] = IF f = "Gear" THEN received[c]["Gear"] + 1
                                                    ELSE received[c]["Gear"]
        <4>1. f \in VehicleState!Fields \cup {"Link"}
          OBVIOUS
        <4>2. /\ received'[c] \in [VehicleState!Fields \cup {"Link"} -> Nat]
              /\ received'[c] # VehicleState!NothingYet
              /\ f = "Gear" => received'[c]["Gear"] = received[c]["Gear"] + 1
              /\ f # "Gear" => received'[c]["Gear"] = received[c]["Gear"]
          BY <3>1, <3>3, <4>1, Receives
        <4> QED
          BY <4>2
      <3> QED
        BY <3>2, <3>3, <3>4, <3>5
    <2>1. VehicleState!TypeOK'
      <3>1. /\ stored' = [stored EXCEPT ![c] = stored'[c]] /\ IsFields(stored'[c])
            /\ lastV' = [lastV EXCEPT ![c] = now] /\ loaded' = [loaded EXCEPT ![c] = FALSE]
            /\ UNCHANGED <<now, phase, conn, saving, last>>
        BY <1>2, <2>9 DEF VehicleState!SetField
      <3>2. \A d \in Cars : IsFields(stored'[d])
        BY <3>1 DEF VehicleStateInv, Shapes
      <3>3. \A d \in Cars, g \in VehicleState!Fields :
               stored'[d][g] = None \/ (/\ stored'[d][g].value \in VehicleState!Values[g]
                                        /\ stored'[d][g].count > 0)
        BY <3>2, FieldsTyped
      <3> QED
        BY <3>1, <3>3 DEF VehicleStateInv, VehicleState!TypeOK
    <2>2. Shapes'
      <3>1. stored' = [d \in Cars |-> stored'[d]] /\ \A d \in Cars : IsFields(stored'[d])
        BY <2>9 DEF VehicleStateInv, Shapes
      <3>2. received' \in [Cars -> [VehicleState!Fields \cup {"Link"} -> Nat]]
        BY <2>10 DEF VehicleStateInv, Shapes
      <3> QED
        BY <1>2, <3>1, <3>2 DEF VehicleState!SetField, VehicleStateInv, Shapes
    <2>3. LastSave'
      BY <1>2
         DEF VehicleStateInv, VehicleState!SetField, VehicleState!TypeOK, LastSave,
             VehicleState!Ingests, VehicleState!NothingYet, VehicleState!Fields
    <2>4. CopiesTrue'
      BY <1>2
         DEF VehicleStateInv, VehicleState!SetField, VehicleState!TypeOK, CopiesTrue, LastSave,
             VehicleState!Copied, VehicleState!Ingests, VehicleState!NothingYet,
             VehicleState!Fields
    <2>5. Ghosts'
      <3>1. UNCHANGED conn /\ loaded' = [loaded EXCEPT ![c] = FALSE]
        BY <1>2 DEF VehicleState!SetField
      <3>2. ASSUME NEW d \in Cars \ {c}
            PROVE  /\ received'[d] = received[d] /\ stored'[d] = stored[d]
                   /\ loaded'[d] = loaded[d] /\ conn'[d] = conn[d]
        BY <2>9, <2>10, <3>1 DEF VehicleStateInv, Shapes, VehicleState!TypeOK
      <3>3. received'[c]["Gear"] = 0 => f # "Gear" /\ received[c]["Gear"] = 0
        BY <2>10
      <3>4. f # "Gear" => stored'[c]["Gear"] = stored[c]["Gear"]
        BY <2>9 DEF VehicleState!Fields
      <3> QED
        BY <2>10, <3>2, <3>3, <3>4 DEF VehicleStateInv, Ghosts
    <2> QED
      BY <2>1, <2>2, <2>3, <2>4, <2>5 DEF VehicleStateInv
  <1>3. ASSUME NEW c \in Cars, NEW s \in {"online", "offline"},
               VehicleState!SetConnectivity(c, s)
        PROVE  VehicleStateInv'
    <2>6. /\ received'[c] \in [VehicleState!Fields \cup {"Link"} -> Nat]
          /\ received'[c] # VehicleState!NothingYet
          /\ received'[c]["Gear"] = received[c]["Gear"]
          /\ received' = [received EXCEPT ![c] = received'[c]]
      <3>1. received[c] \in [VehicleState!Fields \cup {"Link"} -> Nat]
        BY DEF VehicleStateInv, Shapes
      <3>2. received' = [received EXCEPT ![c] = [received[c] EXCEPT !["Link"] = @ + 1]]
        BY <1>3 DEF VehicleState!SetConnectivity
      <3>3. received'[c] = [received[c] EXCEPT !["Link"] = @ + 1]
        BY <3>2 DEF VehicleStateInv, Shapes
      <3>4. /\ received'[c] \in [VehicleState!Fields \cup {"Link"} -> Nat]
            /\ received'[c] # VehicleState!NothingYet
            /\ received'[c]["Gear"] = received[c]["Gear"]
        <4>1. "Link" \in VehicleState!Fields \cup {"Link"} /\ "Link" # "Gear"
          OBVIOUS
        <4> QED
          BY <3>1, <3>3, <4>1, Receives
      <3> QED
        BY <3>2, <3>3, <3>4
    <2>1. VehicleState!TypeOK'
      BY <1>3
         DEF VehicleStateInv, VehicleState!SetConnectivity, VehicleState!TypeOK, Shapes, IsFields,
             IsField, IsSaved, VehicleState!Ingests, VehicleState!NothingYet, VehicleState!Fields
    <2>2. Shapes'
      <3>1. received' \in [Cars -> [VehicleState!Fields \cup {"Link"} -> Nat]]
        BY <2>6 DEF VehicleStateInv, Shapes
      <3> QED
        BY <1>3, <3>1 DEF VehicleState!SetConnectivity, VehicleStateInv, Shapes
    <2>3. LastSave'
      BY <1>3
         DEF VehicleStateInv, VehicleState!SetConnectivity, VehicleState!TypeOK, LastSave,
             VehicleState!Ingests, VehicleState!NothingYet, VehicleState!Fields
    <2>4. CopiesTrue'
      BY <1>3
         DEF VehicleStateInv, VehicleState!SetConnectivity, VehicleState!TypeOK, CopiesTrue,
             LastSave, VehicleState!Copied, VehicleState!Ingests, VehicleState!NothingYet,
             VehicleState!Fields
    <2>5. Ghosts'
      <3>1. UNCHANGED <<stored, loaded>> /\ conn' = [conn EXCEPT ![c] = s]
        BY <1>3 DEF VehicleState!SetConnectivity
      <3>2. ASSUME NEW d \in Cars \ {c} PROVE received'[d] = received[d] /\ conn'[d] = conn[d]
        BY <2>6, <3>1 DEF VehicleStateInv, Shapes, VehicleState!TypeOK
      <3> QED
        BY <2>6, <3>1, <3>2 DEF VehicleStateInv, Ghosts
    <2> QED
      BY <2>1, <2>2, <2>3, <2>4, <2>5 DEF VehicleStateInv
  <1>4. CASE VehicleState!BeginSave
    <2>1. VehicleState!TypeOK'
      BY <1>4
         DEF VehicleStateInv, VehicleState!BeginSave, VehicleState!TypeOK, Shapes, IsFields,
             IsField, IsSaved
    <2>2. Shapes'
      BY <1>4
         DEF VehicleStateInv, VehicleState!BeginSave, VehicleState!TypeOK, Shapes, IsFields,
             IsField, IsSaved
    <2>3. LastSave'
      BY <1>4 DEF VehicleStateInv, VehicleState!BeginSave, VehicleState!TypeOK, LastSave
    <2>4. CopiesTrue'
      BY <1>4
         DEF VehicleStateInv, VehicleState!BeginSave, VehicleState!TypeOK, CopiesTrue, LastSave,
             VehicleState!Copied
    <2>5. Ghosts'
      BY <1>4 DEF VehicleStateInv, VehicleState!BeginSave, VehicleState!TypeOK, Ghosts, Shapes
    <2> QED
      BY <2>1, <2>2, <2>3, <2>4, <2>5 DEF VehicleStateInv
  <1>5. ASSUME NEW c \in Cars,
               VehicleState!CopyVehicle(c)
        PROVE  VehicleStateInv'
    <2>1. VehicleState!TypeOK'
      BY <1>5
         DEF VehicleStateInv, VehicleState!CopyVehicle, VehicleState!TypeOK, Shapes, IsFields,
             IsField, IsSaved, VehicleState!Copied, VehicleState!Fields
    <2>2. Shapes'
      <3>1. IsSaved(VehicleState!Copied(c))
        BY DEF IsSaved, VehicleState!Copied, VehicleStateInv, Shapes, VehicleState!TypeOK
      <3>2. /\ saving # None
            /\ saving' = [d \in DOMAIN saving \cup {c} |->
                            IF d = c THEN VehicleState!Copied(c) ELSE saving[d]]
            /\ UNCHANGED <<stored, received, disk>>
        BY <1>5 DEF VehicleState!CopyVehicle
      <3>3. DOMAIN saving' \subseteq Cars /\ \A d \in DOMAIN saving' : IsSaved(saving'[d])
        BY <3>1, <3>2 DEF VehicleStateInv, Shapes
      <3> QED
        BY <3>2, <3>3 DEF VehicleStateInv, Shapes
    <2>3. LastSave'
      BY <1>5
         DEF VehicleStateInv, VehicleState!CopyVehicle, VehicleState!TypeOK, LastSave,
             VehicleState!Copied, VehicleState!Fields
    <2>4. CopiesTrue'
      BY <1>5
         DEF VehicleStateInv, VehicleState!CopyVehicle, VehicleState!TypeOK, CopiesTrue, LastSave,
             VehicleState!Copied, VehicleState!Fields
    <2>5. Ghosts'
      BY <1>5 DEF VehicleStateInv, VehicleState!CopyVehicle, VehicleState!TypeOK, Ghosts, Shapes
    <2> QED
      BY <2>1, <2>2, <2>3, <2>4, <2>5 DEF VehicleStateInv
  <1>6. CASE VehicleState!SaveFails
    <2>1. VehicleState!TypeOK'
      BY <1>6
         DEF VehicleStateInv, VehicleState!SaveFails, VehicleState!TypeOK, Shapes, IsFields,
             IsField, IsSaved
    <2>2. Shapes'
      BY <1>6
         DEF VehicleStateInv, VehicleState!SaveFails, VehicleState!TypeOK, Shapes, IsFields,
             IsField, IsSaved
    <2>3. LastSave'
      BY <1>6 DEF VehicleStateInv, VehicleState!SaveFails, VehicleState!TypeOK, LastSave
    <2>4. CopiesTrue'
      BY <1>6
         DEF VehicleStateInv, VehicleState!SaveFails, VehicleState!TypeOK, CopiesTrue, LastSave,
             VehicleState!Copied
    <2>5. Ghosts'
      BY <1>6 DEF VehicleStateInv, VehicleState!SaveFails, VehicleState!TypeOK, Ghosts, Shapes
    <2> QED
      BY <2>1, <2>2, <2>3, <2>4, <2>5 DEF VehicleStateInv
  <1>7. CASE VehicleState!Rename
    <2>1. VehicleState!TypeOK'
      BY <1>7
         DEF VehicleStateInv, VehicleState!Rename, VehicleState!TypeOK, Shapes, IsFields, IsField,
             IsSaved
    <2>2. Shapes'
      BY <1>7
         DEF VehicleStateInv, VehicleState!Rename, VehicleState!TypeOK, Shapes, IsFields, IsField,
             IsSaved
    <2>3. LastSave'
      BY <1>7 DEF VehicleStateInv, VehicleState!Rename, VehicleState!TypeOK, LastSave
    <2>4. CopiesTrue'
      BY <1>7
         DEF VehicleStateInv, VehicleState!Rename, VehicleState!TypeOK, CopiesTrue, LastSave,
             VehicleState!Copied
    <2>5. Ghosts'
      BY <1>7 DEF VehicleStateInv, VehicleState!Rename, VehicleState!TypeOK, Ghosts, Shapes
    <2> QED
      BY <2>1, <2>2, <2>3, <2>4, <2>5 DEF VehicleStateInv
  <1>8. CASE VehicleState!Start
    <2>6. /\ stored' = [c \in Cars |-> stored'[c]]
          /\ \A c \in Cars :
                /\ IsFields(stored'[c])
                /\ stored'[c]["Gear"] = None \/ stored'[c]["Gear"].value # "D"
                /\ conn'[c] \in {"", "offline"} /\ lastV'[c] \in (0..MaxTime) \cup {None}
                /\ loaded'[c] \in BOOLEAN
                /\ loaded'[c] = TRUE \/ stored'[c] = VehicleState!NoFields
      <3>1. /\ stored' = [c \in Cars |-> IF VehicleState!Saved(c)
                                         THEN VehicleState!LoadedFields(disk[c])
                                         ELSE VehicleState!NoFields]
            /\ conn' = [c \in Cars |-> IF VehicleState!Saved(c)
                                       THEN VehicleState!LoadedConn(disk[c]) ELSE ""]
            /\ lastV' = [c \in Cars |-> IF VehicleState!Saved(c) THEN disk[c].lastV ELSE None]
            /\ loaded' = [c \in Cars |-> VehicleState!Saved(c)]
        BY <1>8 DEF VehicleState!Start
      <3>2. ASSUME NEW c \in Cars, VehicleState!Saved(c) PROVE IsSaved(disk[c]) /\ disk[c] # None
        BY <3>2 DEF VehicleState!Saved, VehicleStateInv, Shapes
      <3>3. ASSUME NEW c \in Cars
            PROVE  /\ IsFields(stored'[c])
                   /\ stored'[c]["Gear"] = None \/ stored'[c]["Gear"].value # "D"
                   /\ conn'[c] \in {"", "offline"} /\ lastV'[c] \in (0..MaxTime) \cup {None}
                   /\ loaded'[c] \in BOOLEAN
                   /\ loaded'[c] = TRUE \/ stored'[c] = VehicleState!NoFields
        <4>1. CASE VehicleState!Saved(c)
          <5>1. /\ stored'[c] = VehicleState!LoadedFields(disk[c])
                /\ conn'[c] = VehicleState!LoadedConn(disk[c])
                /\ lastV'[c] = disk[c].lastV /\ loaded'[c] = TRUE
            BY <3>1, <4>1
          <5> QED
            BY <3>2, <4>1, <5>1, Loads
        <4>2. CASE ~VehicleState!Saved(c)
          <5>1. stored'[c] = VehicleState!NoFields /\ conn'[c] = "" /\ lastV'[c] = None
            BY <3>1, <4>2
          <5>2. loaded'[c] \in BOOLEAN
            BY <3>1 DEF VehicleState!Saved
          <5> QED
            BY <5>1, <5>2, NoFieldsAre DEF VehicleState!Fields
        <4> QED
          BY <4>1, <4>2
      <3> QED
        BY <3>1, <3>3
    <2>7. /\ phase' = "running" /\ UNCHANGED <<now, received, joined, saving, last, disk>>
          /\ conn' = [c \in Cars |-> conn'[c]] /\ lastV' = [c \in Cars |-> lastV'[c]]
          /\ loaded' = [c \in Cars |-> loaded'[c]] /\ phase = "down"
      BY <1>8 DEF VehicleState!Start
    <2>1. VehicleState!TypeOK'
      <3>1. \A c \in Cars, f \in VehicleState!Fields :
               stored'[c][f] = None \/ (/\ stored'[c][f].value \in VehicleState!Values[f]
                                        /\ stored'[c][f].count > 0)
        BY <2>6, FieldsTyped
      <3>2. /\ conn' \in [Cars -> {"", "online", "offline"}]
            /\ lastV' \in [Cars -> (0..MaxTime) \cup {None}]
            /\ loaded' \in [Cars -> BOOLEAN]
        BY <2>6, <2>7
      <3>3. last = FALSE
        BY <2>7 DEF VehicleStateInv, LastSave
      <3> QED
        BY <2>7, <3>1, <3>2, <3>3 DEF VehicleStateInv, VehicleState!TypeOK
    <2>2. Shapes'
      BY <2>6, <2>7 DEF VehicleStateInv, Shapes
    <2>3. LastSave'
      BY <1>8
         DEF VehicleStateInv, VehicleState!Start, VehicleState!TypeOK, LastSave,
             VehicleState!Saved, VehicleState!LoadedFields, VehicleState!LoadedConn,
             VehicleState!Fields, VehicleState!NoFields
    <2>4. CopiesTrue'
      BY <1>8
         DEF VehicleStateInv, VehicleState!Start, VehicleState!TypeOK, CopiesTrue, LastSave,
             VehicleState!Copied, VehicleState!Saved, VehicleState!LoadedFields,
             VehicleState!LoadedConn, VehicleState!Fields, VehicleState!NoFields
    <2>5. Ghosts'
      BY <2>6, <2>7 DEF VehicleStateInv, Ghosts
    <2> QED
      BY <2>1, <2>2, <2>3, <2>4, <2>5 DEF VehicleStateInv
  <1>9. CASE VehicleState!StopIngest
    <2>1. VehicleState!TypeOK'
      BY <1>9
         DEF VehicleStateInv, VehicleState!StopIngest, VehicleState!TypeOK, Shapes, IsFields,
             IsField, IsSaved
    <2>2. Shapes'
      BY <1>9
         DEF VehicleStateInv, VehicleState!StopIngest, VehicleState!TypeOK, Shapes, IsFields,
             IsField, IsSaved
    <2>3. LastSave'
      BY <1>9 DEF VehicleStateInv, VehicleState!StopIngest, VehicleState!TypeOK, LastSave
    <2>4. CopiesTrue'
      BY <1>9
         DEF VehicleStateInv, VehicleState!StopIngest, VehicleState!TypeOK, CopiesTrue, LastSave,
             VehicleState!Copied
    <2>5. Ghosts'
      BY <1>9 DEF VehicleStateInv, VehicleState!StopIngest, VehicleState!TypeOK, Ghosts, Shapes
    <2> QED
      BY <2>1, <2>2, <2>3, <2>4, <2>5 DEF VehicleStateInv
  <1>10. CASE VehicleState!Exit
    <2>1. VehicleState!TypeOK'
      BY <1>10
         DEF VehicleStateInv, VehicleState!Exit, VehicleState!TypeOK, Shapes, IsFields, IsField,
             IsSaved, VehicleState!NoFields, VehicleState!NothingYet, VehicleState!Fields
    <2>2. Shapes'
      BY <1>10
         DEF VehicleStateInv, VehicleState!Exit, VehicleState!TypeOK, Shapes, IsFields, IsField,
             IsSaved, VehicleState!NoFields, VehicleState!NothingYet, VehicleState!Fields
    <2>3. LastSave'
      BY <1>10
         DEF VehicleStateInv, VehicleState!Exit, VehicleState!TypeOK, LastSave,
             VehicleState!NoFields, VehicleState!NothingYet, VehicleState!Fields
    <2>4. CopiesTrue'
      BY <1>10
         DEF VehicleStateInv, VehicleState!Exit, VehicleState!TypeOK, CopiesTrue, LastSave,
             VehicleState!Copied, VehicleState!NoFields, VehicleState!NothingYet,
             VehicleState!Fields
    <2>5. Ghosts'
      BY <1>10
         DEF VehicleStateInv, VehicleState!Exit, VehicleState!TypeOK, Ghosts, Shapes,
             VehicleState!NoFields, VehicleState!NothingYet, VehicleState!Fields
    <2> QED
      BY <2>1, <2>2, <2>3, <2>4, <2>5 DEF VehicleStateInv
  <1>11. CASE UNCHANGED VehicleState!vars
    BY <1>11
       DEF VehicleState!vars, VehicleStateInv, VehicleState!TypeOK, Shapes, LastSave, CopiesTrue,
           Ghosts, VehicleState!Copied
  <1> QED
    BY <1>1, <1>2, <1>3, <1>4, <1>5, <1>6, <1>7, <1>8, <1>9, <1>10, <1>11 DEF VehicleState!Next

\* The invariant says what the runs ask of the store.
LEMMA VehicleStateImplies ==
  VehicleStateInv => VehicleState!CleanShutdownKeepsAll /\ VehicleState!NoGhost
  <1> SUFFICES ASSUME VehicleStateInv
               PROVE  VehicleState!CleanShutdownKeepsAll /\ VehicleState!NoGhost
    OBVIOUS
  <1>1. VehicleState!CleanShutdownKeepsAll
    BY DEF VehicleStateInv, LastSave, CopiesTrue, VehicleState!CleanShutdownKeepsAll
  <1>2. ASSUME NEW c \in Cars, received[c] = VehicleState!NothingYet, ~VehicleState!FreshV(c)
        PROVE  VehicleState!Derive(c) # "online"
    <2>1. conn[c] # "online" /\ (loaded[c] = TRUE \/ stored[c] = VehicleState!NoFields)
      BY <1>2 DEF VehicleStateInv, Ghosts
    <2>2. \A f \in VehicleState!Fields : \A v :
             stored[c] = VehicleState!NoFields => ~VehicleState!Has(c, f, v)
      BY DEF VehicleState!Has, VehicleState!NoFields
    <2>3. ~VehicleState!Active(c)
      BY <2>1, <2>2
         DEF VehicleState!Active, VehicleState!isDriving, VehicleState!isCharging,
             VehicleState!Fields
    <2> QED
      BY <1>2, <2>1, <2>3 DEF VehicleState!Derive
  <1>3. ASSUME NEW c \in Cars, VehicleState!Has(c, "Gear", "D") PROVE received[c]["Gear"] > 0
    <2>1. received[c]["Gear"] \in Nat
      BY DEF VehicleStateInv, Shapes, VehicleState!Fields
    <2>2. received[c]["Gear"] # 0
      BY <1>3 DEF VehicleStateInv, Ghosts, VehicleState!Has
    <2> QED
      BY <2>1, <2>2
  <1> QED
    BY <1>1, <1>2, <1>3
       DEF VehicleState!NoGhost, VehicleState!SilentSinceRestart, VehicleState!GearIsLive

\* What holds of the store alone.
LEMMA VehicleStateSafe ==
  VehicleState!Spec => [](/\ VehicleState!TypeOK
                          /\ VehicleState!CleanShutdownKeepsAll /\ VehicleState!NoGhost)
  <1>1. VehicleStateInv => /\ VehicleState!TypeOK
                           /\ VehicleState!CleanShutdownKeepsAll /\ VehicleState!NoGhost
    BY VehicleStateImplies DEF VehicleStateInv
  <1> QED
    BY <1>1, VehicleStateInit, VehicleStateStep, PTL DEF VehicleState!Spec

\* A behaviour of Services is one of the store that stutters while it stands still.
LEMMA VehicleStatePart == Spec => VehicleState!Spec
  <1>1. Init => VehicleState!Init
    BY DEF Init
  <1>2. [Next]_servicesVars => [VehicleState!Next]_(VehicleState!vars)
    BY DEF Next, CredentialNext, EnrollNext, VehicleStateNext, ViewsNext, NamingNext,
           servicesVars, stateVars, VehicleState!vars, VehicleState!vehicleVars,
           VehicleState!saveVars
  <1> QED
    BY <1>1, <1>2, PTL DEF Spec, VehicleState!Spec

-----------------------------------------------------------------------------
\* Enrolment. While saves do not overlap, the one under way owns the file beside, and
\* the enrolment file has the chain that was saved last.

Files   == Enroll!Files
Configs == Enroll!Configs

\* The shapes of the files and of the saves.
SaveShapes ==
  /\ content \in [Files -> Configs \cup {Empty, Garbled}]
  /\ save \in [Saves -> {"idle", "keep", "open", "write", "rename"}]
  /\ draft = [s \in Saves |-> draft[s]]
  /\ \A s \in Saves : save[s] # "idle" => draft[s] \in Configs
  /\ fd \in [Saves -> {0} \cup Files]
  /\ given \in [Saves -> Chains \cup {None}]
  /\ overlapped \in BOOLEAN
  /\ file \in {0} \cup Files /\ tmp \in {0} \cup Files

\* One save at most, as long as none has overlapped.
Sole ==
  overlapped = FALSE =>
     \A s \in Saves, t \in Saves : s # t => save[s] = "idle" \/ save[t] = "idle"

\* What the save under way has built and written.
Chained ==
  overlapped = FALSE =>
     /\ file = 0 => chainSaved = None
     /\ file # 0 => content[file] \in Configs /\ content[file].ca = chainSaved
     /\ \A s \in Saves :
           /\ save[s] = "keep" => given[s] = None
           /\ save[s] \in {"open", "write", "rename"} =>
                 draft[s].ca = IF given[s] = None THEN chainSaved ELSE given[s]
           /\ save[s] = "write" => fd[s] = tmp /\ tmp # 0 /\ content[tmp] = Empty
           /\ save[s] = "rename" => tmp # 0 /\ content[tmp] = draft[s]

EnrollInv == Enroll!TypeOK /\ SaveShapes /\ Sole /\ Chained

\* A set is as finite and as large for Enroll as it is here.
LEMMA SameSizes ==
  /\ \A S : Enroll!IsFiniteSet(S) <=> IsFiniteSet(S)
  /\ \A S : Enroll!Cardinality(S) = Cardinality(S)
  <1>1. \A S : Enroll!IsFiniteSet(S) <=> IsFiniteSet(S)
    BY Zenon DEF Enroll!IsFiniteSet, IsFiniteSet
  <1>2. \A S : Enroll!Cardinality(S) = Cardinality(S)
    BY Zenon DEF Enroll!Cardinality, Cardinality
  <1> QED
    BY <1>1, <1>2

\* The constants of enrolment, as the assumption has them.
LEMMA EnrollConstants ==
  /\ IsFiniteSet(Saves)
  /\ Empty \notin Configs /\ Garbled \notin Configs
  /\ CAFile \in Chains \cup {None, Garbled}
  /\ Configs = [profile : {"eco", "off"}, ca : Chains \cup {None},
                vins : {None} \cup SUBSET Cars]
  /\ Files = 1..(Cardinality(Saves) + 2) /\ Cardinality(Saves) \in Nat
  /\ 1 \in Files /\ 0 \notin Files
  <1>1. IsFiniteSet(Saves) /\ Cardinality(Saves) \in Nat
    BY ServicesAssumption, SameSizes, FS_CardinalityType
       DEF ServicesAssumption, Enroll!EnrollAssumption
  <1>2. Files = 1..(Cardinality(Saves) + 2)
    BY SameSizes DEF Files, Enroll!Files
  <1> QED
    BY <1>1, <1>2, ServicesAssumption
       DEF ServicesAssumption, Enroll!EnrollAssumption, Configs, Enroll!Configs, Enroll!Profiles,
           Enroll!NotJSON

\* There is always a file to write to beside the enrolment file.
LEMMA FreeExists ==
  ASSUME SaveShapes, tmp = 0
  PROVE  \E f \in Files : Enroll!Free(f)
  <1> SUFFICES ASSUME \A f \in Files : ~Enroll!Free(f) PROVE FALSE
    OBVIOUS
  <1> DEFINE n == Cardinality(Saves)
             S == Files \ {file}
             g == [f \in S |-> CHOOSE s \in Saves : fd[s] = f]
  <1>1. n \in Nat /\ Files = 1..(n + 2) /\ IsFiniteSet(Saves) /\ 0 \notin Files
    BY EnrollConstants
  <1>2. IsFiniteSet(Files) /\ Cardinality(Files) = n + 2
    <2>1. 1 \in Int /\ n + 2 \in Int /\ ~(1 > n + 2) /\ (n + 2) - 1 + 1 = n + 2
      BY <1>1
    <2> HIDE DEF n
    <2> QED
      BY <1>1, <2>1, FS_Interval
  <1>3. IsFiniteSet(S) /\ n < Cardinality(S)
    <2> HIDE DEF n
    <2>1. IsFiniteSet(S) /\ Cardinality(S) \in {n + 2, (n + 2) - 1}
      BY <1>2, FS_RemoveElement
    <2> QED
      BY <1>1, <2>1
  <1>4. \A f \in S : \E s \in Saves : fd[s] = f
    BY <1>1 DEF Enroll!Free
  <1>5. g \in [S -> Saves] /\ \A f \in S : fd[g[f]] = f
    BY <1>4
  <1>6. \E x, y \in S : x # y /\ g[x] = g[y]
    <2> HIDE DEF S, g
    <2> QED
      BY <1>1, <1>3, <1>5, FS_PigeonHole
  <1> QED
    BY <1>5, <1>6

\* The initial states of enrolment satisfy the invariant.
LEMMA EnrollInit == Enroll!Init => EnrollInv
  <1> SUFFICES ASSUME Enroll!Init PROVE EnrollInv
    OBVIOUS
  <1>1. PICK c \in Configs :
           /\ file \in {0, 1}
           /\ content = [f \in Files |-> IF f = file THEN c ELSE Empty]
           /\ chainSaved = IF file = 0 THEN None ELSE c.ca
    BY DEF Enroll!Init, Configs, Files
  <1>2. /\ tmp = 0 /\ save = [s \in Saves |-> "idle"] /\ draft = [s \in Saves |-> None]
        /\ fd = [s \in Saves |-> 0] /\ given = [s \in Saves |-> None] /\ overlapped = FALSE
    BY DEF Enroll!Init
  <1>3. Enroll!TypeOK
    BY <1>1, <1>2, EnrollConstants DEF Enroll!TypeOK, Files, Configs, Enroll!NotJSON
  <1>4. SaveShapes
    BY <1>1, <1>2, EnrollConstants DEF SaveShapes
  <1>5. Sole /\ Chained
    BY <1>1, <1>2, EnrollConstants DEF Sole, Chained
  <1> QED
    BY <1>3, <1>4, <1>5 DEF EnrollInv

\* A file with a name or a handle keeps what it has been given.
LEMMA KeepsNamed ==
  ASSUME NEW files \in [Files -> Configs \cup {Empty, Garbled}], Enroll!Keep(files)
  PROVE  /\ content' \in [Files -> Configs \cup {Empty, Garbled}]
         /\ tmp' \in Files => content'[tmp'] = files[tmp']
         /\ file' \in Files => content'[file'] = files[file']
  BY DEF Enroll!Keep, Enroll!Free, Files

\* Every step of enrolment keeps the invariant.
LEMMA EnrollStep == EnrollInv /\ [Enroll!Next]_(Enroll!vars) => EnrollInv'
  <1> SUFFICES ASSUME EnrollInv, [Enroll!Next]_(Enroll!vars) PROVE EnrollInv'
    OBVIOUS
  <1> USE EnrollConstants
      DEF Enroll!disk, Enroll!saveVars, Enroll!history, Enroll!Keep, Enroll!Free, Enroll!Returns,
          Enroll!NotJSON, Enroll!CA, Enroll!chain, Enroll!Profiles
  <1>1. CASE Enroll!Crash
    <2>1. /\ save' = [s \in Saves |-> "idle"] /\ fd' = [s \in Saves |-> 0]
          /\ draft' = [s \in Saves |-> None] /\ given' = [s \in Saves |-> None]
          /\ content' \in [Files -> Configs \cup {Empty, Garbled}]
          /\ file # 0 => content'[file] = content[file]
          /\ UNCHANGED <<tmp, file, chainSaved, overlapped>>
      BY <1>1 DEF EnrollInv, SaveShapes, Enroll!Crash, Files, Configs
    <2>2. SaveShapes'
      BY <2>1 DEF EnrollInv, SaveShapes
    <2>3. Enroll!TypeOK'
      BY <2>1, <2>2 DEF EnrollInv, SaveShapes, Enroll!TypeOK, Files, Configs
    <2>4. Sole'
      BY <2>1 DEF EnrollInv, SaveShapes, Sole
    <2>5. Chained'
      BY <2>1 DEF EnrollInv, SaveShapes, Enroll!TypeOK, Sole, Chained
    <2> QED
      BY <2>2, <2>3, <2>4, <2>5 DEF EnrollInv
  <1>2. ASSUME NEW s \in Saves, NEW profile \in Enroll!Profiles,
               NEW pasted \in Chains \cup {None}, Enroll!SaveEnrollment(s, profile, pasted)
        PROVE  EnrollInv'
    <2>1. /\ save[s] = "idle" /\ save' = [save EXCEPT ![s] = save'[s]]
          /\ save'[s] = IF given'[s] = None THEN "keep" ELSE "open"
          /\ draft' = [draft EXCEPT ![s] = draft'[s]]
          /\ draft'[s] \in Configs /\ draft'[s].ca = given'[s]
          /\ given' = [given EXCEPT ![s] = given'[s]] /\ given'[s] \in Chains \cup {None}
          /\ overlapped' \in BOOLEAN
          /\ overlapped' = FALSE => overlapped = FALSE /\ \A t \in Saves \ {s} : save[t] = "idle"
          /\ UNCHANGED <<tmp, file, content, fd, chainSaved>>
      BY <1>2 DEF EnrollInv, SaveShapes, Enroll!SaveEnrollment, Files, Configs
    <2>2. SaveShapes'
      BY <2>1 DEF EnrollInv, SaveShapes
    <2>3. Enroll!TypeOK'
      BY <2>1, <2>2 DEF EnrollInv, SaveShapes, Enroll!TypeOK, Files, Configs
    <2>4. Sole'
      BY <2>1 DEF EnrollInv, SaveShapes, Sole
    <2>5. Chained'
      BY <2>1 DEF EnrollInv, SaveShapes, Enroll!TypeOK, Sole, Chained
    <2> QED
      BY <2>2, <2>3, <2>4, <2>5 DEF EnrollInv
  <1>3. ASSUME NEW s \in Saves, Enroll!KeepChain(s) PROVE EnrollInv'
    <2>1. /\ save[s] = "keep" /\ save' = [save EXCEPT ![s] = "open"]
          /\ draft' = [draft EXCEPT ![s] = draft'[s]] /\ draft'[s] \in Configs
          /\ draft'[s].ca = IF file = 0 \/ content[file] \in {Empty, Garbled} THEN None
                                                                         ELSE content[file].ca
          /\ UNCHANGED <<tmp, file, content, fd, given, chainSaved, overlapped>>
      BY <1>3 DEF EnrollInv, SaveShapes, Enroll!KeepChain, Files, Configs
    <2>2. SaveShapes'
      BY <2>1 DEF EnrollInv, SaveShapes
    <2>3. Enroll!TypeOK'
      BY <2>1, <2>2 DEF EnrollInv, SaveShapes, Enroll!TypeOK, Files, Configs
    <2>4. Sole'
      BY <2>1 DEF EnrollInv, SaveShapes, Sole
    <2>5. Chained'
      BY <2>1 DEF EnrollInv, SaveShapes, Enroll!TypeOK, Sole, Chained
    <2> QED
      BY <2>2, <2>3, <2>4, <2>5 DEF EnrollInv
  <1>4. ASSUME NEW s \in Saves, Enroll!OpenTmp(s) PROVE EnrollInv'
    <2>1. /\ save[s] = "open" /\ save' = [save EXCEPT ![s] = "write"]
          /\ tmp' \in Files /\ tmp' # file /\ fd' = [fd EXCEPT ![s] = tmp']
          /\ content'[tmp'] = Empty
          /\ file # 0 => content'[file] = content[file]
          /\ content' \in [Files -> Configs \cup {Empty, Garbled}]
          /\ UNCHANGED <<file, draft, given, chainSaved, overlapped>>
      <3> DEFINE files == [content EXCEPT ![tmp'] = Empty]
      <3>1. /\ save[s] = "open" /\ save' = [save EXCEPT ![s] = "write"]
            /\ tmp' = IF tmp = 0 THEN CHOOSE f \in Files : Enroll!Free(f) ELSE tmp
            /\ fd' = [fd EXCEPT ![s] = tmp'] /\ Enroll!Keep(files)
            /\ UNCHANGED <<file, draft, given, chainSaved, overlapped>>
        BY <1>4 DEF Enroll!OpenTmp, Files
      <3>2. tmp' \in Files /\ tmp' # file
        <4>1. CASE tmp = 0
          <5>1. \E f \in Files : Enroll!Free(f)
            BY <4>1, FreeExists DEF EnrollInv
          <5>2. tmp' \in Files /\ Enroll!Free(tmp')
            BY <3>1, <4>1, <5>1
          <5> QED
            BY <5>2
        <4>2. CASE tmp # 0
          BY <3>1, <4>2 DEF EnrollInv, SaveShapes, Enroll!TypeOK
        <4> QED
          BY <4>1, <4>2
      <3>3. /\ files \in [Files -> Configs \cup {Empty, Garbled}]
            /\ files[tmp'] = Empty /\ (file # 0 => files[file] = content[file])
        BY <3>2 DEF EnrollInv, SaveShapes
      <3> HIDE DEF files
      <3>4. file # 0 => file' \in Files
        BY <3>1 DEF EnrollInv, SaveShapes
      <3> QED
        BY <3>1, <3>2, <3>3, <3>4, KeepsNamed
    <2>2. SaveShapes'
      BY <2>1 DEF EnrollInv, SaveShapes
    <2>3. Enroll!TypeOK'
      BY <2>1, <2>2 DEF EnrollInv, SaveShapes, Enroll!TypeOK, Files, Configs
    <2>4. Sole'
      BY <2>1 DEF EnrollInv, SaveShapes, Sole
    <2>5. Chained'
      BY <2>1 DEF EnrollInv, SaveShapes, Enroll!TypeOK, Sole, Chained
    <2> QED
      BY <2>2, <2>3, <2>4, <2>5 DEF EnrollInv
  <1>5. ASSUME NEW s \in Saves, Enroll!WriteTmp(s) PROVE EnrollInv'
    <2>1. /\ save[s] = "write" /\ save' = [save EXCEPT ![s] = "rename"]
          /\ fd' = [fd EXCEPT ![s] = 0] /\ fd[s] \in Files
          /\ content' \in [Files -> Configs \cup {Empty, Garbled}]
          /\ content[fd[s]] = Empty /\ fd[s] = tmp => content'[tmp] = draft[s]
          /\ file # 0 /\ fd[s] # file => content'[file] = content[file]
          /\ UNCHANGED <<tmp, file, draft, given, chainSaved, overlapped>>
      <3>1. /\ save[s] = "write" /\ save' = [save EXCEPT ![s] = "rename"]
            /\ fd' = [fd EXCEPT ![s] = 0]
            /\ UNCHANGED <<tmp, file, draft, given, chainSaved, overlapped>>
        BY <1>5 DEF Enroll!WriteTmp
      <3>2. PICK c \in {draft[s]} \cup (IF content[fd[s]] = Empty THEN {} ELSE {Garbled}) :
               Enroll!Keep([content EXCEPT ![fd[s]] = c])
        BY <1>5 DEF Enroll!WriteTmp
      <3>3. fd[s] \in Files /\ c \in Configs \cup {Garbled}
        BY <3>1 DEF EnrollInv, SaveShapes, Enroll!TypeOK
      <3> DEFINE files == [content EXCEPT ![fd[s]] = c]
      <3>4. /\ files \in [Files -> Configs \cup {Empty, Garbled}]
            /\ files[fd[s]] = c /\ (file # 0 /\ fd[s] # file => files[file] = content[file])
            /\ content[fd[s]] = Empty => c = draft[s]
            /\ Enroll!Keep(files)
        BY <3>2, <3>3 DEF EnrollInv, SaveShapes
      <3> HIDE DEF files
      <3>5. file # 0 => file' \in Files
        BY <3>1 DEF EnrollInv, SaveShapes
      <3> QED
        BY <3>1, <3>3, <3>4, <3>5, KeepsNamed
    <2>2. SaveShapes'
      BY <2>1 DEF EnrollInv, SaveShapes
    <2>3. Enroll!TypeOK'
      BY <2>1, <2>2 DEF EnrollInv, SaveShapes, Enroll!TypeOK, Files, Configs
    <2>4. Sole'
      BY <2>1 DEF EnrollInv, SaveShapes, Sole
    <2>5. Chained'
      BY <2>1 DEF EnrollInv, SaveShapes, Enroll!TypeOK, Sole, Chained
    <2> QED
      BY <2>2, <2>3, <2>4, <2>5 DEF EnrollInv
  <1>6. ASSUME NEW s \in Saves, Enroll!WriteFails(s) PROVE EnrollInv'
    <2>1. /\ save[s] = "write" /\ save' = [save EXCEPT ![s] = "idle"]
          /\ fd' = [fd EXCEPT ![s] = 0] /\ fd[s] \in Files
          /\ draft' = [draft EXCEPT ![s] = None] /\ given' = [given EXCEPT ![s] = None]
          /\ content' \in [Files -> Configs \cup {Empty, Garbled}]
          /\ file # 0 /\ fd[s] # file => content'[file] = content[file]
          /\ UNCHANGED <<tmp, file, chainSaved, overlapped>>
      <3> DEFINE files == [content EXCEPT ![fd[s]] = Garbled]
      <3>1. /\ save[s] = "write" /\ save' = [save EXCEPT ![s] = "idle"]
            /\ fd' = [fd EXCEPT ![s] = 0] /\ Enroll!Keep(files)
            /\ draft' = [draft EXCEPT ![s] = None] /\ given' = [given EXCEPT ![s] = None]
            /\ UNCHANGED <<tmp, file, chainSaved, overlapped>>
        BY <1>6 DEF Enroll!WriteFails
      <3>2. fd[s] \in Files
        BY <3>1 DEF EnrollInv, SaveShapes, Enroll!TypeOK
      <3>3. /\ files \in [Files -> Configs \cup {Empty, Garbled}]
            /\ file # 0 /\ fd[s] # file => files[file] = content[file]
        BY <3>2 DEF EnrollInv, SaveShapes
      <3> HIDE DEF files
      <3>4. file # 0 => file' \in Files
        BY <3>1 DEF EnrollInv, SaveShapes
      <3> QED
        BY <3>1, <3>2, <3>3, <3>4, KeepsNamed
    <2>2. SaveShapes'
      BY <2>1 DEF EnrollInv, SaveShapes
    <2>3. Enroll!TypeOK'
      BY <2>1, <2>2 DEF EnrollInv, SaveShapes, Enroll!TypeOK, Files, Configs
    <2>4. Sole'
      BY <2>1 DEF EnrollInv, SaveShapes, Sole
    <2>5. Chained'
      BY <2>1 DEF EnrollInv, SaveShapes, Enroll!TypeOK, Sole, Chained
    <2> QED
      BY <2>2, <2>3, <2>4, <2>5 DEF EnrollInv
  <1>7. ASSUME NEW s \in Saves, Enroll!Rename(s) PROVE EnrollInv'
    <2>1. /\ save[s] = "rename" /\ save' = [save EXCEPT ![s] = "idle"]
          /\ draft' = [draft EXCEPT ![s] = None] /\ given' = [given EXCEPT ![s] = None]
          /\ content' \in [Files -> Configs \cup {Empty, Garbled}]
          /\ tmp = 0 => UNCHANGED <<tmp, file, content, chainSaved>>
          /\ tmp # 0 => /\ file' = tmp /\ tmp' = 0 /\ content'[tmp] = content[tmp]
                        /\ chainSaved' = IF given[s] = None THEN chainSaved ELSE given[s]
          /\ UNCHANGED <<fd, overlapped>>
      <3>1. /\ save[s] = "rename" /\ save' = [save EXCEPT ![s] = "idle"]
            /\ draft' = [draft EXCEPT ![s] = None] /\ given' = [given EXCEPT ![s] = None]
            /\ tmp = 0 => UNCHANGED <<tmp, file, content, chainSaved>>
            /\ tmp # 0 => /\ file' = tmp /\ tmp' = 0 /\ Enroll!Keep(content)
                          /\ chainSaved' = IF given[s] = None THEN chainSaved ELSE given[s]
            /\ UNCHANGED <<fd, overlapped>>
        BY <1>7 DEF Enroll!Rename
      <3>2. content \in [Files -> Configs \cup {Empty, Garbled}] /\ tmp \in {0} \cup Files
        BY DEF EnrollInv, SaveShapes
      <3>3. CASE tmp = 0
        BY <3>1, <3>2, <3>3
      <3>4. CASE tmp # 0
        BY <3>1, <3>2, <3>4, KeepsNamed
      <3> QED
        BY <3>3, <3>4
    <2>2. SaveShapes'
      BY <2>1 DEF EnrollInv, SaveShapes
    <2>3. Enroll!TypeOK'
      BY <2>1, <2>2 DEF EnrollInv, SaveShapes, Enroll!TypeOK, Files, Configs
    <2>4. Sole'
      BY <2>1 DEF EnrollInv, SaveShapes, Sole
    <2>5. Chained'
      BY <2>1 DEF EnrollInv, SaveShapes, Enroll!TypeOK, Sole, Chained
    <2> QED
      BY <2>2, <2>3, <2>4, <2>5 DEF EnrollInv
  <1>8. CASE UNCHANGED Enroll!vars
    BY <1>8 DEF Enroll!vars, EnrollInv, SaveShapes, Enroll!TypeOK, Sole, Chained
  <1> QED
    BY <1>1, <1>2, <1>3, <1>4, <1>5, <1>6, <1>7, <1>8 DEF Enroll!Next, Enroll!Save

\* What an envelope for the proxy is made of.
LEMMA Wraps ==
  ASSUME NEW payload \in Configs \cup {Empty, Garbled}, NEW vins \in SUBSET Cars,
         NEW body, body = Enroll!Wrap(payload, vins), body # None
  PROVE  /\ payload \in Configs
         /\ Enroll!hasFields(body) /\ body.vins \in (SUBSET Cars) \ {{}}
         /\ body.ca = payload.ca
  <1>1. payload \in Configs
    BY DEF Enroll!Wrap, Enroll!NotJSON
  <1>2. /\ Enroll!hasFields(payload) /\ Enroll!Addressed(payload, vins) # {}
        /\ body = [payload EXCEPT !.vins = Enroll!Addressed(payload, vins)]
    BY DEF Enroll!Wrap
  <1>3. Enroll!Addressed(payload, vins) \in SUBSET Cars
    BY <1>1, EnrollConstants DEF Enroll!Addressed
  <1>4. /\ body.profile = payload.profile /\ body.ca = payload.ca
        /\ body.vins = Enroll!Addressed(payload, vins)
    BY <1>1, <1>2, EnrollConstants
  <1> QED
    BY <1>1, <1>2, <1>3, <1>4 DEF Enroll!hasFields

\* The invariant says what the runs ask of enrolment.
LEMMA EnrollImplies == EnrollInv => Enroll!EnrollmentWhole
  <1> SUFFICES ASSUME EnrollInv PROVE Enroll!EnrollmentWhole
    OBVIOUS
  <1>1. overlapped \in BOOLEAN /\ (file # 0 => content[file] \in Configs \cup {Empty, Garbled})
    BY EnrollConstants DEF EnrollInv, SaveShapes
  <1>2. Enroll!ChainKept
    BY <1>1, EnrollConstants DEF EnrollInv, Chained, Enroll!ChainKept, Enroll!CA, Enroll!NotJSON
  <1>3. ASSUME NEW body \in Enroll!Sent
        PROVE  /\ Enroll!hasFields(body) /\ body.vins \in (SUBSET Cars) \ {{}}
               /\ overlapped = FALSE => body.ca = chainSaved
    <2>1. PICK vins \in SUBSET Cars :
             file # 0 /\ body = Enroll!Wrap(content[file], vins) /\ body # None
      BY <1>3 DEF Enroll!Sent, Enroll!AdminEnroll, Enroll!WizardEnroll
    <2>2. /\ Enroll!hasFields(body) /\ body.vins \in (SUBSET Cars) \ {{}}
          /\ body.ca = content[file].ca
      BY <1>1, <2>1, Wraps
    <2> QED
      BY <2>1, <2>2 DEF EnrollInv, Chained
  <1>4. ASSUME NEW cars \in SUBSET Cars, Enroll!WizardEnroll(cars) # None
        PROVE  Enroll!WizardEnroll(cars).ca # None
    <2>1. /\ file # 0 /\ Enroll!CA(content[file]) # None
          /\ Enroll!WizardEnroll(cars) = Enroll!Wrap(content[file], cars)
      BY <1>4 DEF Enroll!WizardEnroll
    <2>2. content[file] \in Configs /\ Enroll!WizardEnroll(cars).ca = content[file].ca
      BY <1>1, <1>4, <2>1, Wraps
    <2> QED
      BY <2>1, <2>2, EnrollConstants DEF Enroll!CA, Enroll!NotJSON
  <1>5. \A body \in Enroll!Sent :
           /\ Enroll!hasFields(body) /\ body.vins \in (SUBSET Cars) \ {{}}
           /\ ~overlapped => body.ca = chainSaved
    BY <1>1, <1>3
  <1>6. \A cars \in SUBSET Cars :
           Enroll!WizardEnroll(cars) # None => Enroll!WizardEnroll(cars).ca # None
    BY <1>4
  <1>7. Enroll!SentIsWhole
    BY <1>5, <1>6, Zenon DEF Enroll!SentIsWhole
  <1> QED
    BY <1>2, <1>7 DEF Enroll!EnrollmentWhole

\* What holds of enrolment alone.
LEMMA EnrollSafe == Enroll!Spec => [](Enroll!TypeOK /\ Enroll!EnrollmentWhole)
  <1>1. EnrollInv => Enroll!TypeOK /\ Enroll!EnrollmentWhole
    BY EnrollImplies DEF EnrollInv
  <1> QED
    BY <1>1, EnrollInit, EnrollStep, PTL DEF Enroll!Spec

\* A behaviour of Services is one of enrolment that stutters while it stands still.
LEMMA EnrollPart == Spec => Enroll!Spec
  <1>1. Init => Enroll!Init
    BY DEF Init
  <1>2. [Next]_servicesVars => [Enroll!Next]_(Enroll!vars)
    BY DEF Next, CredentialNext, EnrollNext, VehicleStateNext, ViewsNext, NamingNext,
           servicesVars, enrollVars, Enroll!vars, Enroll!disk, Enroll!saveVars, Enroll!history
  <1> QED
    BY <1>1, <1>2, PTL DEF Spec, Enroll!Spec

-----------------------------------------------------------------------------
\* The pictures of a car. That they agree follows from what a field may report; that
\* nothing is taken off the document, from what the publisher carries forward.

\* The publisher remembers what the document it published shows.
Carried ==
  own = TRUE => \A k \in Views!Sticky : doc[k] # Nil => lastState[k] # Nil

ViewsInv ==
  /\ Views!TypeOK
  /\ fields = [f \in Views!Fields |-> fields[f]]
  /\ Carried

\* The constants of the pictures, as the assumption has them.
LEMMA ViewsConstants ==
  /\ Enrolments \subseteq SUBSET Views!Fields
  /\ Nil \notin Int /\ Nil # "On" /\ Nil # "Disconnected"
  <1>1. /\ "Hvac" \in Views!Fields /\ "On" \in Views!Values["Hvac"]
        /\ "Charge" \in Views!Fields /\ "Disconnected" \in Views!Values["Charge"]
    BY DEF Views!Fields, Views!Values
  <1>2. /\ Enrolments \subseteq SUBSET Views!Fields /\ Nil \notin Int
        /\ \A f \in Views!Fields : Nil \notin Views!Values[f]
    BY ServicesAssumption DEF ServicesAssumption, Views!ViewsAssumption
  <1> QED
    BY <1>1, <1>2

\* The initial states of the pictures satisfy the invariant.
LEMMA ViewsInit == Views!Init => ViewsInv
  BY DEF Views!Init, Views!Nothing, Views!TypeOK, ViewsInv, Carried

\* Every step of the pictures keeps the invariant, and the document.
LEMMA ViewsStep ==
  ViewsInv /\ [Views!Next]_(Views!vars)
    => /\ ViewsInv'
       /\ \A k \in Views!Sticky : own /\ own' /\ doc[k] # Nil => doc'[k] # Nil
  <1> SUFFICES ASSUME ViewsInv, [Views!Next]_(Views!vars)
               PROVE  /\ ViewsInv'
                      /\ \A k \in Views!Sticky : own /\ own' /\ doc[k] # Nil => doc'[k] # Nil
    OBVIOUS
  <1>1. ASSUME NEW f \in enrolled, NEW v \in Views!Values[f] \cup {Nil}, Views!Report(f, v)
        PROVE  /\ ViewsInv'
               /\ \A k \in Views!Sticky : own /\ own' /\ doc[k] # Nil => doc'[k] # Nil
    <2>1. /\ fields' = [fields EXCEPT ![f] = v] /\ restored' = FALSE
          /\ UNCHANGED <<enrolled, lastState, doc, own>>
      BY <1>1 DEF Views!Report
    <2>2. f \in Views!Fields
      BY ViewsConstants DEF ViewsInv, Views!TypeOK
    <2>3. /\ fields' = [g \in Views!Fields |-> fields'[g]]
          /\ \A g \in Views!Fields : fields'[g] = IF g = f THEN v ELSE fields[g]
      BY <2>1, <2>2 DEF ViewsInv
    <2> QED
      BY <2>1, <2>3 DEF ViewsInv, Views!TypeOK, Carried
  <1>2. CASE Views!PublishState
    <2>1. /\ lastState' = [k \in Views!Sticky |-> lastState'[k]]
          /\ \A k \in Views!Sticky : lastState[k] # Nil => lastState'[k] # Nil
          /\ \/ doc' = lastState' /\ own' = TRUE
             \/ UNCHANGED <<doc, own>>
          /\ UNCHANGED <<enrolled, fields, restored>>
      BY <1>2 DEF Views!PublishState, Views!carryForward, Views!Overlaid
    <2>2. own \in BOOLEAN
      BY DEF ViewsInv, Views!TypeOK
    <2>3. CASE doc' = lastState' /\ own' = TRUE
      BY <2>1, <2>2, <2>3 DEF ViewsInv, Views!TypeOK, Carried
    <2>4. CASE UNCHANGED <<doc, own>>
      BY <2>1, <2>2, <2>4 DEF ViewsInv, Views!TypeOK, Carried
    <2> QED
      BY <2>1, <2>3, <2>4
  <1>3. CASE Views!Restart
    <2>1. /\ fields' = [fields EXCEPT !["Gear"] = fields'["Gear"]]
          /\ fields'["Gear"] \in {fields["Gear"], Nil}
          /\ restored' \in BOOLEAN /\ lastState' = Views!Nothing /\ own' = FALSE
          /\ UNCHANGED <<enrolled, doc>>
      <3>1. "Gear" \in Views!Fields
        BY DEF Views!Fields, Views!Values
      <3> QED
        BY <1>3, <3>1 DEF Views!Restart, ViewsInv
    <2>2. /\ fields' = [g \in Views!Fields |-> fields'[g]]
          /\ \A g \in Views!Fields : fields'[g] \in {fields[g], Nil}
      BY <2>1 DEF ViewsInv
    <2>3. \A g \in Views!Fields : fields'[g] \in Views!Values[g] \cup {Nil}
      BY <2>2 DEF ViewsInv, Views!TypeOK
    <2> QED
      BY <2>1, <2>2, <2>3 DEF ViewsInv, Views!TypeOK, Views!Nothing, Carried
  <1>4. CASE UNCHANGED Views!vars
    BY <1>4 DEF Views!vars, Views!history, ViewsInv, Views!TypeOK, Carried
  <1> QED
    BY <1>1, <1>2, <1>3, <1>4 DEF Views!Next

\* What the readings may be.
LEMMA Readings ==
  Views!TypeOK =>
         /\ fields["Gear"] \in {"P", "D"} \cup {Nil}
         /\ fields["Charge"] \in {"Charging", "Starting", "Disconnected"} \cup {Nil}
         /\ fields["AC"] \in {0, 74} \cup {Nil}
         /\ fields["DC"] \in {1, 500} \cup {Nil}
         /\ fields["Pack"] \in {3, 204, -75} \cup {Nil}
         /\ fields["Speed"] \in {6, 649} \cup {Nil}
         /\ fields["Level"] \in {596, 698} \cup {Nil}
         /\ fields["Soc"] \in {592, 704} \cup {Nil}
         /\ fields["Latch"] \in {"Engaged", "Disengaged"} \cup {Nil}
         /\ fields["Hvac"] \in {"On", "Off", "Unknown"} \cup {Nil}
         /\ restored \in BOOLEAN
  <1> SUFFICES ASSUME Views!TypeOK
               PROVE
         /\ fields["Gear"] \in {"P", "D"} \cup {Nil}
         /\ fields["Charge"] \in {"Charging", "Starting", "Disconnected"} \cup {Nil}
         /\ fields["AC"] \in {0, 74} \cup {Nil}
         /\ fields["DC"] \in {1, 500} \cup {Nil}
         /\ fields["Pack"] \in {3, 204, -75} \cup {Nil}
         /\ fields["Speed"] \in {6, 649} \cup {Nil}
         /\ fields["Level"] \in {596, 698} \cup {Nil}
         /\ fields["Soc"] \in {592, 704} \cup {Nil}
         /\ fields["Latch"] \in {"Engaged", "Disengaged"} \cup {Nil}
         /\ fields["Hvac"] \in {"On", "Off", "Unknown"} \cup {Nil}
         /\ restored \in BOOLEAN
    OBVIOUS
  <1>1. \A f \in {"Gear", "Charge", "AC", "DC", "Pack", "Speed", "Level", "Soc", "Latch", "Hvac"} :
           f \in Views!Fields
    BY DEF Views!Fields, Views!Values
  <1>2. \A f \in {"Gear", "Charge", "AC", "DC", "Pack", "Speed", "Level", "Soc", "Latch", "Hvac"} :
           fields[f] \in Views!Values[f] \cup {Nil}
    BY <1>1 DEF Views!TypeOK
  <1> QED
    BY <1>2 DEF Views!TypeOK, Views!Values

\* A percentage is the same everywhere, and the usable one is not above it.
LEMMA BatteriesAgree == Views!TypeOK => Views!BatteryAgrees
  <1> SUFFICES ASSUME Views!TypeOK PROVE Views!BatteryAgrees
    OBVIOUS
  <1>1. /\ Views!Round(596) = 60 /\ Views!Round(698) = 70
        /\ Views!Round(592) = 59 /\ Views!Round(704) = 70
    BY DEF Views!Round
  <1>2. /\ Views!Build.battery_level = Views!battery_level
        /\ Views!Build.usable_battery_level = Views!usable_battery_level
        /\ Views!buildCSV.soc = Views!DisplayedSOC
        /\ Views!buildState.battery_level =
             IF Views!Has("Level") THEN Views!Round(fields["Level"]) ELSE Nil
    BY DEF Views!Build, Views!buildCSV, Views!buildState
  <1>3. Views!battery_level = Views!DisplayedSOC
    BY DEF Views!battery_level, Views!DisplayedSOC
  <1>4. fields["Level"] \in {596, 698} \cup {Nil} /\ fields["Soc"] \in {592, 704} \cup {Nil}
    BY Readings
  <1>5. Views!battery_level # Nil => Views!usable_battery_level <= Views!battery_level
    BY <1>1, <1>4, ViewsConstants DEF Views!battery_level, Views!usable_battery_level, Views!Has
  <1>6. Views!buildState.battery_level # Nil => Views!buildState.battery_level = Views!DisplayedSOC
    BY <1>2 DEF Views!DisplayedSOC
  <1> QED
    BY <1>2, <1>3, <1>5, <1>6 DEF Views!BatteryAgrees

\* A speed is shown of a car that drives, and the same to both feeds but for the rounding.
LEMMA SpeedsAgree == Views!TypeOK => Views!SpeedAgrees
  <1> SUFFICES ASSUME Views!TypeOK PROVE Views!SpeedAgrees
    OBVIOUS
  <1>1. /\ Views!Round(6) = 1 /\ Views!Round(649) = 65
        /\ Views!Whole(6) = 0 /\ Views!Whole(649) = 64
    BY DEF Views!Round, Views!Whole
  <1>2. /\ Views!Build.speed =
             IF Views!Driving /\ Views!Has("Speed") THEN Views!Whole(fields["Speed"]) ELSE Nil
        /\ Views!Build.shift_state = IF Views!Driving THEN fields["Gear"] ELSE Nil
        /\ Views!buildCSV.speed =
             IF Views!Driving /\ Views!Has("Speed") THEN Views!Round(fields["Speed"]) ELSE Nil
        /\ Views!buildCSV.gear = fields["Gear"]
        /\ Views!buildState.speed =
             IF ~Views!Driving THEN 0
             ELSE IF Views!Has("Speed") THEN Views!Round(fields["Speed"]) ELSE Nil
    BY DEF Views!Build, Views!buildCSV, Views!buildState
  <1>3. fields["Speed"] \in {6, 649} \cup {Nil}
    BY Readings
  <1> HIDE DEF Views!Driving
  <1>4. CASE Views!Driving /\ Views!Has("Speed")
    <2>1. fields["Speed"] \in {6, 649}
      BY <1>3, <1>4 DEF Views!Has
    <2> QED
      BY <1>1, <1>2, <1>4, <2>1, ViewsConstants DEF Views!SpeedAgrees
  <1>5. CASE ~(Views!Driving /\ Views!Has("Speed"))
    BY <1>2, <1>5 DEF Views!SpeedAgrees
  <1> QED
    BY <1>4, <1>5

\* The power a charger gives is a number, when there is one.
LEMMA ChargerPowers ==
  Views!TypeOK /\ Views!DrawsPower => Views!ChargerPower \in {1, 74, 500}
  <1> SUFFICES ASSUME Views!TypeOK, Views!DrawsPower PROVE Views!ChargerPower \in {1, 74, 500}
    OBVIOUS
  <1> DEFINE S == {0, fields["AC"], fields["DC"]} \ {Nil}
  <1>1. fields["AC"] \in {0, 74} \cup {Nil} /\ fields["DC"] \in {1, 500} \cup {Nil}
    BY Readings
  <1>2. S \subseteq {0, 1, 74, 500} /\ 0 \in S
    BY <1>1, ViewsConstants
  <1> HIDE DEF S
  <1>3. \E p \in S : \A q \in S : p >= q
    BY <1>2
  <1>4. Views!ChargerPower = CHOOSE p \in S : \A q \in S : p >= q
    BY DEF Views!DrawsPower, Views!ChargerPower, S
  <1>5. Views!ChargerPower \in S /\ Views!ChargerPower > 0
    BY <1>3, <1>4 DEF Views!DrawsPower
  <1> QED
    BY <1>2, <1>5

\* What charges is plugged in in every picture, and draws power in both feeds.
LEMMA ChargesAgree == Views!TypeOK => Views!ChargeAgrees
  <1> SUFFICES ASSUME Views!TypeOK PROVE Views!ChargeAgrees
    OBVIOUS
  <1>1. /\ Views!buildState.charging <=> Views!Charging
        /\ Views!buildState.plugged_in <=> Views!pluggedIn
        /\ Views!Build.charging_state = Views!chargingState
        /\ Views!Build.power = Views!drivePower
        /\ Views!buildCSV.power = Views!streamPower
    BY DEF Views!Build, Views!buildCSV, Views!buildState
  <1>2. Views!Charging => fields["Charge"] # "Disconnected"
    BY DEF Views!Charging, Views!isCharging
  <1>3. Views!Charging => Views!chargingState # "Disconnected"
    BY <1>2 DEF Views!chargingState
  <1>4. Views!Charging /\ fields["Latch"] = "Engaged" => Views!pluggedIn
    BY <1>2 DEF Views!pluggedIn, Views!unplugCorroborated
  <1>5. ~Views!pluggedIn /\ fields["Latch"] = "Engaged" => Views!chargingState = "Disconnected"
    <2>1. "Disconnected" # Nil
      BY ViewsConstants
    <2> QED
      BY <2>1 DEF Views!pluggedIn, Views!unplugCorroborated, Views!chargingState, Views!Has
  <1>6. Views!Whole(1) = 0 /\ Views!Whole(74) = 7 /\ Views!Whole(500) = 50
    BY DEF Views!Whole
  <1>7. ASSUME Views!Charging, Views!DrawsPower
        PROVE  Views!drivePower = Views!streamPower /\ Views!drivePower <= 0
    <2>1. /\ Views!drivePower = -Views!Whole(Views!ChargerPower)
          /\ Views!streamPower = -Views!Whole(Views!ChargerPower)
      BY <1>7 DEF Views!drivePower, Views!streamPower
    <2>2. Views!ChargerPower \in {1, 74, 500}
      BY <1>7, ChargerPowers
    <2> QED
      BY <1>6, <2>1, <2>2
  <1> QED
    BY <1>1, <1>3, <1>4, <1>5, <1>7 DEF Views!ChargeAgrees

\* Home Assistant and vehicle_data say the same of the climate.
LEMMA ClimatesAgree == Views!TypeOK => Views!ClimateAgrees
  <1> SUFFICES ASSUME Views!TypeOK PROVE Views!ClimateAgrees
    OBVIOUS
  <1>1. Views!Build.is_climate_on = Views!HvacOn
    BY DEF Views!Build
  <1>2. Views!buildState.climate_on = (Views!Has("Hvac") /\ Views!HvacOn = TRUE)
    BY DEF Views!buildState
  <1>3. CASE fields["Hvac"] = "On"
    <2>1. Views!Has("Hvac") = TRUE /\ Views!HvacOn = TRUE
      BY <1>3, ViewsConstants DEF Views!HvacOn, Views!Has
    <2> QED
      BY <1>1, <1>2, <2>1 DEF Views!ClimateAgrees
  <1>4. CASE fields["Hvac"] = "Off"
    BY <1>1, <1>2, <1>4, ViewsConstants DEF Views!HvacOn, Views!Has, Views!ClimateAgrees
  <1>5. CASE fields["Hvac"] \notin {"On", "Off"}
    BY <1>1, <1>5 DEF Views!HvacOn, Views!ClimateAgrees
  <1> QED
    BY <1>3, <1>4, <1>5

\* What holds of the pictures alone.
LEMMA ViewsSafe ==
  Views!Spec => [](Views!TypeOK /\ Views!ViewsAgree) /\ Views!StateKept
  <1>1. ViewsInv => Views!TypeOK /\ Views!ViewsAgree
    BY BatteriesAgree, SpeedsAgree, ChargesAgree, ClimatesAgree DEF ViewsInv, Views!ViewsAgree
  <1>2. ViewsInv /\ [Views!Next]_(Views!vars) => ViewsInv'
    BY ViewsStep
  <1>3. ViewsInv /\ [Views!Next]_(Views!vars)
        => [\A k \in Views!Sticky : own /\ own' /\ doc[k] # Nil => doc'[k] # Nil]_(Views!vars)
    BY ViewsStep
  <1> QED
    BY <1>1, <1>2, <1>3, ViewsInit, PTL DEF Views!Spec, Views!StateKept

\* A behaviour of Services is one of the pictures that stutters while they stand still.
LEMMA ViewsPart == Spec => Views!Spec
  <1>1. Init => Views!Init
    BY DEF Init
  <1>2. [Next]_servicesVars => [Views!Next]_(Views!vars)
    BY DEF Next, CredentialNext, EnrollNext, VehicleStateNext, ViewsNext, NamingNext,
           servicesVars, viewsVars, Views!vars, Views!history
  <1> QED
    BY <1>1, <1>2, PTL DEF Spec, Views!Spec

-----------------------------------------------------------------------------
(***************************************************************************)
(* The names. A press runs once at most and on the car that was shown, for *)
(* any cars, lists and names, as long as no two cars have ever had the     *)
(* same name.                                                              *)
(*                                                                         *)
(* An identifier is made anew from what a car is called today, so what     *)
(* lasts is the set of identifiers that a car may ever have (IdsOf): two   *)
(* cars have none in common (IdsApart), which is why an old device, an old *)
(* topic and a renamed car still lead back to one car.                     *)
(***************************************************************************)
Hash(c) == Naming!Hash(c)
Ids     == Naming!Ids
Names   == Naming!Names

\* No two cars share a name, and no name is an identifier made of a VIN.
OwnNames ==
  /\ \A c, d \in Fleet : c # d => Titles[c] \cap Titles[d] = {}
  /\ \A c, d \in Fleet : Hash(c) \notin Titles[d]

\* The identifiers that a car may have in one start or another.
IdsOf(c) == IF ByVIN THEN {c} ELSE Titles[c] \cup {Hash(c)}

\* The messages that the client may have received.
Messages == [id : Ids, press : Nat, retained : BOOLEAN]

\* The shapes of the state.
NamingShapes ==
  /\ up \in BOOLEAN /\ link \in {"lost", "announcing", "connected"}
  /\ seen \subseteq Fleet /\ announced \subseteq Fleet /\ subscribed \in BOOLEAN
  /\ vehicles \in Seq(Fleet) /\ todo \in Seq(Fleet)
  /\ name \in [Fleet -> Names \cup {None}]
  /\ \A c \in Fleet : name[c] \in Titles[c] \cup {None}
  /\ device \in [Ids -> Fleet \cup {None}]
  /\ retained \in [Ids -> 0..Len(pressed)]
  /\ pressed \in Seq(Fleet)
  /\ inbox \in Seq(Messages) /\ \A k \in 1..Len(inbox) : inbox[k].press \in 1..Len(pressed)
  /\ ran \in Seq(Seq(Fleet)) /\ Len(ran) = Len(pressed)

\* A request waits in the inbox before it runs, once, under an identifier of its car.
Waiting ==
  /\ \A k \in 1..Len(inbox) : ~inbox[k].retained =>
        /\ inbox[k].id \in IdsOf(pressed[inbox[k].press])
        /\ ran[inbox[k].press] = <<>>
  /\ \A j, k \in 1..Len(inbox) :
        ~inbox[j].retained /\ ~inbox[k].retained /\ inbox[j].press = inbox[k].press => j = k

\* A device is shown under an identifier of its car.
Shown == \A id \in Ids : device[id] # None => id \in IdsOf(device[id])

NamingInv == NamingShapes /\ Waiting /\ Shown /\ Naming!RightCarOnce

-----------------------------------------------------------------------------
\* The constants of the names, as the assumption has them.
LEMMA NamingConstants ==
  /\ Lists \subseteq Seq(Fleet)
  /\ None \notin Fleet /\ \A c \in Fleet : None \notin Titles[c]
  /\ IsFiniteSet(Ids)
  /\ Ids = Names \cup {Hash(c) : c \in Fleet} \cup Fleet
  /\ \A c \in Fleet : Titles[c] \subseteq Names
  /\ ByVIN \in BOOLEAN
  /\ MaxPresses \in Nat /\ MaxStarts \in Nat
  <1>1. \A S : Naming!IsFiniteSet(S) <=> IsFiniteSet(S)
    BY Zenon DEF Naming!IsFiniteSet, IsFiniteSet
  <1>2. /\ Lists \subseteq Seq(Fleet)
        /\ None \notin Fleet /\ \A c \in Fleet : None \notin Titles[c]
        /\ ByVIN \in BOOLEAN
        /\ MaxPresses \in Nat /\ MaxStarts \in Nat
    BY ServicesAssumption DEF ServicesAssumption, Naming!NamingAssumption
  <1>3. IsFiniteSet(Fleet) /\ IsFiniteSet(Names)
    BY <1>1, ServicesAssumption
       DEF ServicesAssumption, Naming!NamingAssumption, Names, Naming!Names
  <1>4. Ids = Names \cup {Hash(c) : c \in Fleet} \cup Fleet
    BY DEF Ids, Naming!Ids, Names, Hash
  <1>5. IsFiniteSet({Hash(c) : c \in Fleet})
    <2> DEFINE H == {Hash(c) : c \in Fleet}
               f == [c \in Fleet |-> Hash(c)]
    <2>1. f \in Surjection(Fleet, H)
      BY DEF Surjection
    <2> HIDE DEF f, H
    <2> QED
      BY <1>3, <2>1, FS_Surjection DEF H
  <1>6. IsFiniteSet(Ids)
    BY <1>3, <1>4, <1>5, FS_Union
  <1>7. \A c \in Fleet : Titles[c] \subseteq Names
    BY DEF Names, Naming!Names
  <1> QED
    BY <1>2, <1>4, <1>6, <1>7

\* No identifier is of two cars.
LEMMA IdsApart ==
  ASSUME OwnNames, NEW c \in Fleet, NEW d \in Fleet, NEW id, id \in IdsOf(c), id \in IdsOf(d)
  PROVE  c = d
  <1>1. Hash(c) = Hash(d) => c = d
    BY DEF Hash, Naming!Hash
  <1> QED
    BY <1>1 DEF OwnNames, IdsOf

\* A car has one of its identifiers.
LEMMA HasIdentifier ==
  ASSUME NEW c \in Fleet, name[c] \in Titles[c] \cup {None}
  PROVE  Naming!pubID(c) \in Ids /\ Naming!pubID(c) \in IdsOf(c)
  BY NamingConstants DEF Naming!pubID, IdsOf, Hash

\* A sequence made of a finite set has its elements.
LEMMA SequencesOf ==
  ASSUME NEW S, IsFiniteSet(S), NEW s \in Naming!SetToSeqs(S)
  PROVE  s \in Seq(S)
  <1>1. Naming!Cardinality(S) = Cardinality(S)
    BY Zenon DEF Naming!Cardinality, Cardinality
  <1>2. Cardinality(S) \in Nat
    BY FS_CardinalityType
  <1>3. s \in [1..Cardinality(S) -> S]
    BY <1>1 DEF Naming!SetToSeqs
  <1> QED
    BY <1>2, <1>3

\* The cars that the publisher knows are cars.
LEMMA EffectiveCars ==
  ASSUME NamingShapes, NEW cars \in Naming!EffectiveVehicles
  PROVE  cars \in Seq(Fleet)
  <1> DEFINE S == seen \ Naming!Listed
  <1>1. PICK others \in Naming!SetToSeqs(S) : cars = vehicles \o others
    BY DEF Naming!EffectiveVehicles
  <1>2. seen \subseteq Fleet /\ vehicles \in Seq(Fleet)
    BY DEF NamingShapes
  <1>3. IsFiniteSet(S)
    <2>1. IsFiniteSet(Fleet)
      BY NamingConstants, FS_Subset
    <2> QED
      BY <1>2, <2>1, FS_Subset
  <1>4. others \in Seq(S)
    BY <1>3, SequencesOf
  <1> HIDE DEF S
  <1>5. others \in Seq(Fleet)
    BY <1>2, <1>4 DEF S
  <1> QED
    BY <1>1, <1>2, <1>5

\* A set of natural numbers has a least.
LEMMA HasLeast ==
  ASSUME NEW S, S \subseteq Nat, S # {}
  PROVE  \E i \in S : \A j \in S : i <= j
  <1>1. \E i \in S : \A j \in S : ~(<<j, i>> \in OpToRel(<, Nat))
    BY NatLessThanWellFounded, WFMin, Zenon
  <1>2. \A i, j \in Nat : <<j, i>> \in OpToRel(<, Nat) <=> j < i
    BY DEF OpToRel
  <1>3. PICK i \in S : \A j \in S : ~(<<j, i>> \in OpToRel(<, Nat))
    BY <1>1
  <1>4. i \in Nat /\ \A j \in S : j \in Nat /\ ~(j < i)
    BY <1>2, <1>3
  <1> QED
    BY <1>4

\* A car that is found has the identifier.
LEMMA FoundHasIt ==
  ASSUME NEW cars \in Seq(Fleet), NEW id,
         Naming!vinForPubID(id, cars) # None
  PROVE  /\ Naming!vinForPubID(id, cars) \in Fleet
         /\ Naming!pubID(Naming!vinForPubID(id, cars)) = id
  <1> DEFINE found == {i \in DOMAIN cars : Naming!pubID(cars[i]) = id}
             first == CHOOSE i \in found : \A j \in found : i <= j
  <1>1. found # {} /\ Naming!vinForPubID(id, cars) = cars[first]
    BY DEF Naming!vinForPubID
  <1>2. found \subseteq Nat
    OBVIOUS
  <1>3. \E i \in found : \A j \in found : i <= j
    BY <1>1, <1>2, HasLeast
  <1>4. first \in found
    BY <1>3
  <1>5. first \in DOMAIN cars /\ Naming!pubID(cars[first]) = id
    BY <1>4
  <1> HIDE DEF first
  <1> QED
    BY <1>1, <1>5

\* What the broker sends on a subscription is old.
LEMMA ReplayedAreOld ==
  ASSUME NamingShapes, NEW replayed \in Naming!SetToSeqs(Naming!Replayed)
  PROVE  /\ replayed \in Seq(Messages)
         /\ \A k \in 1..Len(replayed) :
               replayed[k].retained = TRUE /\ replayed[k].press \in 1..Len(pressed)
  <1>1. Naming!Replayed =
          {[id |-> i, press |-> retained[i], retained |-> TRUE] :
             i \in {i \in Ids : retained[i] # 0}}
    BY DEF Naming!Replayed, Ids
  <1>2. \A m \in Naming!Replayed :
           m.id \in Ids /\ m = [id |-> m.id, press |-> retained[m.id], retained |-> TRUE]
    BY <1>1
  <1> HIDE DEF Naming!Replayed
  <1>3. IsFiniteSet(Naming!Replayed)
    <2> DEFINE f == [m \in Naming!Replayed |-> m.id]
    <2>1. f \in Injection(Naming!Replayed, Ids)
      BY <1>2 DEF Injection, IsInjective
    <2> QED
      BY <2>1, FS_Injection, NamingConstants
  <1>4. replayed \in Seq(Naming!Replayed)
    BY <1>3, SequencesOf
  <1>5. \A i \in Ids : retained[i] \in 0..Len(pressed) /\ Len(pressed) \in Nat
    BY DEF NamingShapes
  <1>6. \A m \in Naming!Replayed :
           m \in Messages /\ m.retained = TRUE /\ m.press \in 1..Len(pressed)
    <2> TAKE m \in Naming!Replayed
    <2>1. PICK i \in Ids :
             retained[i] # 0 /\ m = [id |-> i, press |-> retained[i], retained |-> TRUE]
      BY <1>1
    <2>2. retained[i] \in 1..Len(pressed)
      BY <1>5, <2>1
    <2> QED
      BY <1>5, <2>1, <2>2 DEF Messages
  <1>7. \A k \in 1..Len(replayed) : replayed[k] \in Naming!Replayed
    BY <1>4
  <1>8. replayed \in Seq(Messages)
    BY <1>4, <1>6
  <1> QED
    BY <1>6, <1>7, <1>8

-----------------------------------------------------------------------------
\* The initial states of the names satisfy the invariant.
LEMMA NamingInit == Naming!Init => NamingInv
  <1> SUFFICES ASSUME Naming!Init PROVE NamingInv
    OBVIOUS
  <1> USE DEF Naming!Init
  <1>1. vehicles \in Seq(Fleet) /\ todo \in Seq(Fleet) /\ inbox \in Seq(Messages)
    BY NamingConstants
  <1>2. pressed = <<>> /\ ran = <<>> /\ inbox = <<>>
    OBVIOUS
  <1>3. device = [i \in Ids |-> None] /\ retained = [i \in Ids |-> 0]
    BY DEF Ids
  <1>4. NamingShapes
    <2>1. pressed \in Seq(Fleet) /\ ran \in Seq(Seq(Fleet)) /\ Len(pressed) = 0 /\ Len(ran) = 0
      BY <1>2
    <2>2. retained \in [Ids -> 0..Len(pressed)] /\ device \in [Ids -> Fleet \cup {None}]
      BY <1>3, <2>1
    <2>3. \A k \in 1..Len(inbox) : inbox[k].press \in 1..Len(pressed)
      BY <1>2
    <2>4. name \in [Fleet -> Names \cup {None}] /\ \A c \in Fleet : name[c] = None
      OBVIOUS
    <2> QED
      BY <1>1, <2>1, <2>2, <2>3, <2>4 DEF NamingShapes
  <1>5. Waiting
    BY <1>2 DEF Waiting
  <1>6. Shown
    BY <1>3 DEF Shown
  <1>7. Naming!RightCarOnce
    BY <1>2 DEF Naming!RightCarOnce
  <1> QED
    BY <1>4, <1>5, <1>6, <1>7 DEF NamingInv

\* The shapes say what the types say.
LEMMA NamingTyped == NamingShapes => Naming!TypeOK
  BY DEF NamingShapes, Naming!TypeOK, Names, Ids, Messages

\* Every step keeps the shapes, whatever the cars are called.
LEMMA NamingShapesStep ==
  ASSUME NamingShapes, [Naming!Next]_(Naming!vars)
  PROVE  NamingShapes'
  <1> USE DEF NamingShapes
  <1> USE DEF Naming!clientVars, Naming!brokerVars, Naming!history
  <1>1. ASSUME Naming!Start PROVE NamingShapes'
    <2>1. \A c \in Fleet : name'[c] \in Titles[c] \cup {None}
      BY <1>1 DEF Naming!Start, Naming!Called
    <2>2. seen' \subseteq Fleet
      BY <1>1 DEF Naming!Start, Naming!Listed
    <2>3. name' \in [Fleet -> Names \cup {None}]
      BY <1>1 DEF Naming!Start, Names
    <2> QED
      BY <1>1, <2>1, <2>2, <2>3 DEF Naming!Start
  <1>2. ASSUME NEW c \in Fleet, Naming!Telemetry(c) PROVE NamingShapes'
    BY <1>2 DEF Naming!Telemetry
  <1>3. ASSUME Naming!Exit PROVE NamingShapes'
    <2>1. todo' \in Seq(Fleet) /\ inbox' \in Seq(Messages) /\ Len(inbox') = 0
      BY <1>3 DEF Naming!Exit
    <2>2. \A k \in 1..Len(inbox') : inbox'[k].press \in 1..Len(pressed')
      BY <2>1
    <2> QED
      BY <1>3, <2>1, <2>2 DEF Naming!Exit
  <1>4. ASSUME Naming!Connect PROVE NamingShapes'
    BY <1>4, EffectiveCars DEF Naming!Connect
  <1>5. ASSUME Naming!Drop PROVE NamingShapes'
    <2>1. todo' \in Seq(Fleet)
      BY <1>5 DEF Naming!Drop
    <2> QED
      BY <1>5, <2>1 DEF Naming!Drop
  <1>6. ASSUME NEW c \in Fleet, Naming!Announce(c)
        PROVE  announced' \subseteq Fleet /\ device' \in [Ids -> Fleet \cup {None}]
    BY <1>6, HasIdentifier DEF Naming!Announce
  <1>7. ASSUME Naming!AnnounceNext PROVE NamingShapes'
    <2>1. Head(todo) \in Fleet /\ Tail(todo) \in Seq(Fleet)
      BY <1>7 DEF Naming!AnnounceNext
    <2> QED
      BY <1>6, <1>7, <2>1 DEF Naming!AnnounceNext
  <1>8. ASSUME NEW c \in Fleet, Naming!TickAnnounces(c) PROVE NamingShapes'
    BY <1>6, <1>8 DEF Naming!TickAnnounces
  <1>9. ASSUME Naming!Subscribe PROVE NamingShapes'
    <2>1. CASE inbox' = inbox
      BY <1>9, <2>1 DEF Naming!Subscribe
    <2>2. ASSUME NEW replayed \in Naming!SetToSeqs(Naming!Replayed), inbox' = inbox \o replayed
          PROVE  NamingShapes'
      <3>1. /\ replayed \in Seq(Messages)
            /\ \A k \in 1..Len(replayed) : replayed[k].press \in 1..Len(pressed)
        BY ReplayedAreOld
      <3>2. inbox' \in Seq(Messages)
        BY <2>2, <3>1
      <3>3. \A k \in 1..Len(inbox') : inbox'[k].press \in 1..Len(pressed)
        BY <2>2, <3>1
      <3> QED
        BY <1>9, <3>2, <3>3 DEF Naming!Subscribe
    <2> QED
      BY <1>9, <2>1, <2>2 DEF Naming!Subscribe
  <1>10. ASSUME NEW id \in Ids, NEW keep \in BOOLEAN, Naming!Press(id, keep) PROVE NamingShapes'
    <2>1. pressed' \in Seq(Fleet) /\ Len(pressed') = Len(pressed) + 1 /\ Len(pressed) \in Nat
      BY <1>10 DEF Naming!Press
    <2>2. ran' \in Seq(Seq(Fleet)) /\ Len(ran') = Len(pressed')
      BY <1>10, <2>1 DEF Naming!Press
    <2>3. retained' \in [Ids -> 0..Len(pressed')]
      BY <1>10, <2>1 DEF Naming!Press
    <2>4. inbox' \in Seq(Messages) /\ \A k \in 1..Len(inbox') : inbox'[k].press \in 1..Len(pressed')
      <3> DEFINE m == [id |-> id, press |-> Len(pressed'), retained |-> FALSE]
      <3>1. m \in Messages /\ m.press \in 1..Len(pressed')
        BY <2>1 DEF Messages
      <3>2. inbox' = inbox \/ inbox' = Append(inbox, m)
        BY <1>10 DEF Naming!Press
      <3> HIDE DEF m
      <3>3. CASE inbox' = inbox
        BY <2>1, <3>3
      <3>4. CASE inbox' = Append(inbox, m)
        <4>1. inbox' \in Seq(Messages) /\ Len(inbox') = Len(inbox) + 1
          BY <3>1, <3>4
        <4>2. \A k \in 1..Len(inbox') : inbox'[k] = IF k = Len(inbox) + 1 THEN m ELSE inbox[k]
          BY <3>1, <3>4, <4>1
        <4>3. ASSUME NEW k \in 1..Len(inbox') PROVE inbox'[k].press \in 1..Len(pressed')
          <5>1. CASE k = Len(inbox) + 1
            BY <3>1, <4>2, <5>1
          <5>2. CASE k # Len(inbox) + 1
            <6>1. k \in 1..Len(inbox)
              BY <4>1, <5>2
            <6>2. inbox[k].press \in 1..Len(pressed) /\ inbox'[k] = inbox[k]
              BY <4>2, <5>2, <6>1
            <6> QED
              BY <2>1, <6>2
          <5> QED
            BY <5>1, <5>2
        <4> QED
          BY <4>1, <4>3
      <3> QED
        BY <3>2, <3>3, <3>4
    <2> QED
      BY <1>10, <2>1, <2>2, <2>3, <2>4 DEF Naming!Press
  <1>11. ASSUME Naming!handleCommand PROVE NamingShapes'
    <2> DEFINE m == Head(inbox)
    <2>1. PICK cars \in Naming!EffectiveVehicles :
            ran' = IF Naming!Addressee(m, cars) = None THEN ran
                   ELSE [ran EXCEPT ![m.press] = Append(@, Naming!Addressee(m, cars))]
      BY <1>11 DEF Naming!handleCommand
    <2>2. inbox # <<>> /\ inbox' = Tail(inbox)
      BY <1>11 DEF Naming!handleCommand
    <2>3. inbox' \in Seq(Messages) /\ \A k \in 1..Len(inbox') : inbox'[k].press \in 1..Len(pressed)
      BY <2>2
    <2>4. m.press \in 1..Len(ran)
      BY <2>2
    <2>5. Naming!Addressee(m, cars) \in Fleet \cup {None}
      BY EffectiveCars, FoundHasIt DEF Naming!Addressee
    <2> HIDE DEF m
    <2>6. ran' \in Seq(Seq(Fleet)) /\ Len(ran') = Len(ran)
      BY <2>1, <2>4, <2>5
    <2> QED
      BY <1>11, <2>3, <2>6 DEF Naming!handleCommand
  <1>12. ASSUME UNCHANGED Naming!vars PROVE NamingShapes'
    BY <1>12 DEF Naming!vars
  <1> QED
    BY <1>1, <1>2, <1>3, <1>4, <1>5, <1>7, <1>8, <1>9, <1>10, <1>11, <1>12 DEF Naming!Next, Ids

\* What waits, runs or is shown leads to one car, whatever the cars are called next.
LEMMA NamingOwnStep ==
  ASSUME OwnNames, NamingInv, NamingShapes', [Naming!Next]_(Naming!vars)
  PROVE  Waiting' /\ Shown' /\ Naming!RightCarOnce'
  <1> USE DEF Naming!clientVars, Naming!brokerVars, Naming!history
  <1>0. NamingShapes /\ Waiting /\ Shown /\ Naming!RightCarOnce
    BY DEF NamingInv
  <1>1. ASSUME device' = device PROVE Shown'
    BY <1>0, <1>1 DEF Shown
  <1>2. ASSUME UNCHANGED <<pressed, ran>> PROVE Naming!RightCarOnce'
    BY <1>0, <1>2 DEF Naming!RightCarOnce
  <1>3. ASSUME UNCHANGED <<inbox, pressed, ran>> PROVE Waiting'
    BY <1>0, <1>3 DEF Waiting
  <1>4. CASE \/ Naming!Start \/ Naming!Connect \/ Naming!Drop \/ UNCHANGED Naming!vars
             \/ \E c \in Fleet : Naming!Telemetry(c)
    BY <1>1, <1>2, <1>3, <1>4
       DEF Naming!Start, Naming!Connect, Naming!Drop, Naming!Telemetry, Naming!vars
  <1>5. CASE Naming!Exit
    <2>1. Len(inbox') = 0
      BY <1>5 DEF Naming!Exit
    <2>2. Waiting'
      BY <2>1 DEF Waiting
    <2> QED
      BY <1>1, <1>2, <1>5, <2>2 DEF Naming!Exit
  <1>6. ASSUME NEW c \in Fleet, Naming!Announce(c) PROVE Shown'
    <2>1. Naming!pubID(c) \in Ids /\ Naming!pubID(c) \in IdsOf(c)
      BY <1>0, HasIdentifier DEF NamingShapes
    <2>2. device' = device \/ device' = [device EXCEPT ![Naming!pubID(c)] = c]
      BY <1>6 DEF Naming!Announce
    <2> QED
      BY <1>0, <2>1, <2>2 DEF Shown, NamingShapes
  <1>7. CASE Naming!AnnounceNext
    <2>1. Head(todo) \in Fleet
      BY <1>0, <1>7 DEF Naming!AnnounceNext, NamingShapes
    <2> QED
      BY <1>2, <1>3, <1>6, <1>7, <2>1 DEF Naming!AnnounceNext
  <1>8. CASE \E c \in Fleet : Naming!TickAnnounces(c)
    BY <1>2, <1>3, <1>6, <1>8 DEF Naming!TickAnnounces
  <1>9. CASE Naming!Subscribe
    <2>1. UNCHANGED <<pressed, ran, device>>
      BY <1>9 DEF Naming!Subscribe
    <2>2. CASE inbox' = inbox
      BY <1>1, <1>2, <1>3, <2>1, <2>2
    <2>3. ASSUME NEW replayed \in Naming!SetToSeqs(Naming!Replayed), inbox' = inbox \o replayed
          PROVE  Waiting'
      <3>1. replayed \in Seq(Messages) /\ \A k \in 1..Len(replayed) : replayed[k].retained = TRUE
        BY <1>0, ReplayedAreOld
      <3>2. inbox \in Seq(Messages)
        BY <1>0 DEF NamingShapes
      <3>3. \A k \in 1..Len(inbox') :
              ~inbox'[k].retained => k \in 1..Len(inbox) /\ inbox'[k] = inbox[k]
        <4>1. \A k \in 1..Len(inbox') :
                inbox'[k] = IF k <= Len(inbox) THEN inbox[k] ELSE replayed[k - Len(inbox)]
          BY <2>3, <3>1, <3>2
        <4>2. ASSUME NEW k \in 1..Len(inbox'), k > Len(inbox)
              PROVE  inbox'[k].retained = TRUE
          <5>1. k - Len(inbox) \in 1..Len(replayed) /\ inbox'[k] = replayed[k - Len(inbox)]
            BY <2>3, <3>1, <3>2, <4>1, <4>2
          <5> QED
            BY <3>1, <5>1
        <4>3. \A k \in 1..Len(inbox') : k <= Len(inbox) => k \in 1..Len(inbox)
          BY <3>2
        <4>4. SUFFICES ASSUME NEW k \in 1..Len(inbox'), ~inbox'[k].retained
                       PROVE  k \in 1..Len(inbox) /\ inbox'[k] = inbox[k]
          OBVIOUS
        <4>5. k <= Len(inbox)
          <5>1. k \in Int /\ Len(inbox) \in Int
            BY <3>2, <4>4
          <5>2. k > Len(inbox) => inbox'[k].retained
            BY <4>2, <4>4
          <5> QED
            BY <4>4, <5>1, <5>2
        <4> QED
          BY <4>1, <4>3, <4>5
      <3> QED
        BY <1>0, <2>1, <3>3 DEF Waiting
    <2> QED
      BY <1>1, <1>2, <1>9, <2>1, <2>2, <2>3 DEF Naming!Subscribe
  <1>10. ASSUME NEW id \in Ids, NEW keep \in BOOLEAN, Naming!Press(id, keep)
         PROVE  Waiting' /\ Shown' /\ Naming!RightCarOnce'
    <2> DEFINE m == [id |-> id, press |-> Len(pressed'), retained |-> FALSE]
               n == Len(pressed)
    <2>1. /\ pressed' = Append(pressed, device[id]) /\ ran' = Append(ran, <<>>)
          /\ device' = device /\ (inbox' = inbox \/ inbox' = Append(inbox, m))
          /\ id \in IdsOf(device[id])
      BY <1>0, <1>10 DEF Naming!Press, Shown
    <2>2. /\ n \in Nat /\ Len(pressed') = n + 1 /\ Len(ran) = n /\ Len(ran') = n + 1
          /\ pressed'[n + 1] = device[id] /\ ran'[n + 1] = <<>>
          /\ \A k \in 1..n : pressed'[k] = pressed[k] /\ ran'[k] = ran[k]
      BY <1>0, <2>1 DEF NamingShapes
    <2>3. Naming!RightCarOnce'
      BY <1>0, <2>1, <2>2 DEF Naming!RightCarOnce
    <2>4. /\ inbox \in Seq(Messages) /\ inbox' \in Seq(Messages)
          /\ \A k \in 1..Len(inbox) : inbox[k].press \in 1..n
      BY <1>0 DEF NamingShapes
    <2>5. /\ m.id = id /\ m.press = n + 1 /\ m.retained = FALSE
      BY <2>2
    <2> HIDE DEF m, n
    <2>6. ASSUME NEW k \in 1..Len(inbox'), ~inbox'[k].retained
          PROVE  /\ \/ k \in 1..Len(inbox) /\ inbox'[k] = inbox[k] /\ inbox'[k].press \in 1..n
                    \/ k = Len(inbox) + 1 /\ inbox'[k] = m /\ inbox'[k].press = n + 1
      <3>1. CASE inbox' = inbox
        BY <2>4, <3>1
      <3>2. CASE inbox' = Append(inbox, m)
        BY <2>4, <2>5, <3>2
      <3> QED
        BY <2>1, <3>1, <3>2
    <2>7. ASSUME NEW k \in 1..Len(inbox'), ~inbox'[k].retained
          PROVE  /\ inbox'[k].id \in IdsOf(pressed'[inbox'[k].press])
                 /\ ran'[inbox'[k].press] = <<>>
      BY <1>0, <2>1, <2>2, <2>5, <2>6, <2>7 DEF Waiting
    <2>8. ASSUME NEW j \in 1..Len(inbox'), NEW k \in 1..Len(inbox'),
                 ~inbox'[j].retained, ~inbox'[k].retained, inbox'[j].press = inbox'[k].press
          PROVE  j = k
      <3>1. CASE inbox'[j].press = n + 1
        <4>1. n + 1 \notin 1..n
          BY <2>2
        <4>2. j = Len(inbox) + 1 /\ k = Len(inbox) + 1
          BY <2>6, <2>8, <3>1, <4>1
        <4> QED
          BY <4>2
      <3>2. CASE inbox'[j].press # n + 1
        <4>1. /\ j \in 1..Len(inbox) /\ inbox'[j] = inbox[j]
              /\ k \in 1..Len(inbox) /\ inbox'[k] = inbox[k]
          BY <2>6, <2>8, <3>2
        <4> QED
          BY <1>0, <2>8, <4>1 DEF Waiting
      <3> QED
        BY <3>1, <3>2
    <2>9. Waiting'
      BY <2>7, <2>8 DEF Waiting
    <2> QED
      BY <1>1, <2>1, <2>3, <2>9
  <1>11. CASE Naming!handleCommand
    <2> DEFINE m == Head(inbox)
    <2>1. PICK cars \in Naming!EffectiveVehicles :
            ran' = IF Naming!Addressee(m, cars) = None THEN ran
                   ELSE [ran EXCEPT ![m.press] = Append(@, Naming!Addressee(m, cars))]
      BY <1>11 DEF Naming!handleCommand
    <2>2. /\ inbox # <<>> /\ inbox \in Seq(Messages) /\ inbox' = Tail(inbox)
          /\ pressed' = pressed /\ device' = device
      BY <1>0, <1>11 DEF Naming!handleCommand, NamingShapes
    <2>3. /\ 1 \in 1..Len(inbox) /\ m = inbox[1] /\ m.press \in 1..Len(ran)
          /\ \A k \in 1..Len(inbox') : k + 1 \in 1..Len(inbox) /\ inbox'[k] = inbox[k + 1]
      BY <1>0, <2>2 DEF NamingShapes
    <2>4. ran \in Seq(Seq(Fleet)) /\ Len(ran) = Len(pressed)
      BY <1>0 DEF NamingShapes
    <2> HIDE DEF m
    <2>5. CASE ran' = ran
      <3>1. \A k \in 1..Len(inbox') : ~inbox'[k].retained =>
               /\ inbox'[k].id \in IdsOf(pressed'[inbox'[k].press])
               /\ ran'[inbox'[k].press] = <<>>
        BY <1>0, <2>2, <2>3, <2>5 DEF Waiting
      <3>2. ASSUME NEW j \in 1..Len(inbox'), NEW k \in 1..Len(inbox'),
                   ~inbox'[j].retained, ~inbox'[k].retained, inbox'[j].press = inbox'[k].press
            PROVE  j = k
        <4>1. j + 1 = k + 1
          BY <1>0, <2>3, <3>2 DEF Waiting
        <4> QED
          BY <4>1
      <3>3. Waiting'
        BY <3>1, <3>2 DEF Waiting
      <3> QED
        BY <1>1, <1>2, <2>2, <2>5, <3>3
    <2>6. CASE ran' # ran
      <3> DEFINE c == Naming!Addressee(m, cars)
      <3>1. c # None /\ ran' = [ran EXCEPT ![m.press] = Append(@, c)]
        BY <2>1, <2>6
      <3>2. ~m.retained /\ c = Naming!vinForPubID(m.id, cars)
        BY <3>1 DEF Naming!Addressee
      <3>3. c \in Fleet /\ Naming!pubID(c) = m.id
        BY <1>0, <3>1, <3>2, EffectiveCars, FoundHasIt
      <3>4. m.id \in IdsOf(c)
        BY <1>0, <3>3, HasIdentifier DEF NamingShapes
      <3>5. m.id \in IdsOf(pressed[m.press]) /\ ran[m.press] = <<>>
        BY <1>0, <2>3, <3>2 DEF Waiting
      <3>6. pressed[m.press] \in Fleet
        BY <1>0, <2>3, <2>4 DEF NamingShapes
      <3>7. c = pressed[m.press]
        BY <3>3, <3>4, <3>5, <3>6, IdsApart
      <3> HIDE DEF c
      <3>8. /\ \A n \in 1..Len(ran) : n # m.press => ran'[n] = ran[n]
            /\ ran'[m.press] = <<c>> /\ DOMAIN ran' = DOMAIN ran
        BY <2>3, <2>4, <3>1, <3>5
      <3>9. Naming!RightCarOnce'
        <4>1. Len(<<c>>) = 1 /\ <<c>>[1] = c
          OBVIOUS
        <4>2. ASSUME NEW n \in DOMAIN ran'
              PROVE  Len(ran'[n]) <= 1 /\ (ran'[n] # <<>> => ran'[n][1] = pressed'[n])
          <5>1. CASE n = m.press
            <6>1. ran'[n] = <<c>> /\ pressed'[n] = c
              BY <2>2, <3>7, <3>8, <5>1
            <6> QED
              BY <4>1, <6>1
          <5>2. CASE n # m.press
            BY <1>0, <2>2, <2>4, <3>8, <5>2 DEF Naming!RightCarOnce
          <5> QED
            BY <5>1, <5>2
        <4> QED
          BY <4>2 DEF Naming!RightCarOnce
      <3>10. Waiting'
        <4>1. ASSUME NEW k \in 1..Len(inbox'), ~inbox'[k].retained
              PROVE  inbox'[k].press \in 1..Len(ran) /\ inbox'[k].press # m.press
          <5>1. k + 1 \in 1..Len(inbox) /\ inbox'[k] = inbox[k + 1] /\ k + 1 # 1
            BY <2>3
          <5>2. inbox[k + 1].press \in 1..Len(ran)
            BY <1>0, <5>1 DEF NamingShapes
          <5> QED
            BY <1>0, <2>3, <3>2, <4>1, <5>1, <5>2 DEF Waiting
        <4> QED
          BY <1>0, <2>2, <2>3, <3>8, <4>1 DEF Waiting
      <3> QED
        BY <1>1, <2>2, <3>9, <3>10
    <2> QED
      BY <2>5, <2>6
  <1> QED
    BY <1>4, <1>5, <1>7, <1>8, <1>9, <1>10, <1>11 DEF Naming!Next, Ids

\* What holds of the names alone.
LEMMA NamingSafe ==
  ASSUME OwnNames
  PROVE  Naming!Spec => []Naming!RightCarOnce
  <1>1. NamingInv /\ [Naming!Next]_(Naming!vars) => NamingInv'
    BY NamingShapesStep, NamingOwnStep DEF NamingInv
  <1>2. NamingInv => Naming!RightCarOnce
    BY DEF NamingInv
  <1> QED
    BY <1>1, <1>2, NamingInit, PTL DEF Naming!Spec

\* The types alone ask for nothing of the names.
LEMMA NamingTypes == Naming!Spec => []Naming!TypeOK
  <1>1. Naming!Init => NamingShapes
    BY NamingInit DEF NamingInv
  <1>2. NamingShapes /\ [Naming!Next]_(Naming!vars) => NamingShapes'
    BY NamingShapesStep
  <1> QED
    BY <1>1, <1>2, NamingTyped, PTL DEF Naming!Spec

\* A behaviour of Services is one of the names that stutters while they stand still.
LEMMA NamingPart == Spec => Naming!Spec
  <1>1. Init => Naming!Init
    BY DEF Init
  <1>2. [Next]_servicesVars => [Naming!Next]_(Naming!vars)
    BY DEF Next, CredentialNext, EnrollNext, VehicleStateNext, ViewsNext, NamingNext,
           servicesVars, namingVars, Naming!vars, Naming!clientVars, Naming!brokerVars,
           Naming!history
  <1> QED
    BY <1>1, <1>2, PTL DEF Spec, Naming!Spec

-----------------------------------------------------------------------------
\* What a run asks of Services, for every value of the constants.

\* relay.go: the gateway does not strand itself, and a pasted token stays.
THEOREM CredentialKeptHolds == Spec => []CredentialKept
  BY CredentialPart, CredentialSafe, PTL DEF CredentialKept

\* relay.go: a status of "ok" is true of the next start.
THEOREM StatusOkSurvivesRestartHolds == Spec => []StatusOkSurvivesRestart
  BY CredentialPart, CredentialSafe, PTL DEF StatusOkSurvivesRestart

\* main.go: a clean shutdown loses no update.
THEOREM CleanShutdownKeepsAllHolds == Spec => []CleanShutdownKeepsAll
  BY VehicleStatePart, VehicleStateSafe, PTL DEF CleanShutdownKeepsAll

\* state.go: no state of the process before passes for one of this one.
THEOREM NoGhostHolds == Spec => []NoGhost
  BY VehicleStatePart, VehicleStateSafe, PTL DEF NoGhost

\* onboard/server.go: enrolment keeps the chain and sends nothing less.
THEOREM EnrollmentWholeHolds == Spec => []EnrollmentWhole
  BY EnrollPart, EnrollSafe, PTL DEF EnrollmentWhole

\* entities.go, mapper.go, wss/server.go: the pictures of a car agree.
THEOREM ViewsAgreeHolds == Spec => []ViewsAgree
  BY ViewsPart, ViewsSafe, PTL DEF ViewsAgree

\* publisher.go: an invalid field takes nothing off the document.
THEOREM StateKeptHolds == Spec => StateKept
  BY ViewsPart, ViewsSafe, PTL DEF StateKept

\* publisher.go: a press runs once at most, on the car that was shown, as long as no
\* two cars have had the same name.
THEOREM RightCarOnceHolds ==
  ASSUME OwnNames
  PROVE  Spec => []RightCarOnce
  BY NamingPart, NamingSafe, PTL DEF RightCarOnce

\* The part that moves keeps its types.
THEOREM TypeOKHolds == Spec => []TypeOK
  <1>1. Init => part \in Parts
    BY DEF Init
  <1>2. part \in Parts /\ [Next]_servicesVars => (part \in Parts)'
    BY DEF Next, CredentialNext, EnrollNext, VehicleStateNext, ViewsNext, NamingNext,
           servicesVars
  <1>3. /\ part \in Parts
        /\ Credential!TypeOK /\ Enroll!TypeOK /\ VehicleState!TypeOK /\ Views!TypeOK
        /\ Naming!TypeOK
        => TypeOK
    BY DEF Parts, TypeOK
  <1> QED
    BY <1>1, <1>2, <1>3, CredentialPart, CredentialSafe, EnrollPart, EnrollSafe,
       VehicleStatePart, VehicleStateSafe, ViewsPart, ViewsSafe, NamingPart, NamingTypes,
       PTL DEF Spec
=============================================================================
