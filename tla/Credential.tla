----------------------------- MODULE Credential -----------------------------
(***************************************************************************)
(* The OAuth credential: tokenManager in internal/commands/relay.go, and   *)
(* the wizard's own refresher in internal/onboard/server.go, which works   *)
(* on the token cache alone when no relay runs.                            *)
(*                                                                         *)
(* Tesla replaces the refresh token when it is used, so the one secret     *)
(* that keeps the gateway alive lives in memory, on disk and at Tesla, and *)
(* a lost answer, a failed write or a crash can leave the three apart.     *)
(* A token is a pair: the login (grant) it descends from, and how often    *)
(* Tesla has replaced it since.                                            *)
(***************************************************************************)
EXTENDS Integers, FiniteSets

CONSTANTS
  Callers,  \* goroutines that ask for an access token or paste a refresh token
  Main,     \* the goroutine that runs main(), and in it NewRelay
  None,
  MaxGrants, MaxUses, MaxCrashes \* bounds on logins, on uses of each, on crashes

Threads == Callers \cup {Main}
Tokens  == [grant : 0..MaxGrants, use : 0..MaxUses]

CredentialAssumption ==
  /\ Main \notin Callers
  /\ None \notin Threads /\ None \notin Tokens
  /\ {MaxGrants, MaxUses, MaxCrashes} \subseteq Nat

VARIABLES
  relayed,    \* is the command relay enabled? Then it owns the credential
  up,         \* "down", "starting" (inside NewRelay) or "up"
  pc,         \* where each goroutine is
  paste,      \* the refresh token a goroutine wants adopted
  mu,         \* who holds tokenManager.mu, or the wizard's tokenMu
  refresh,    \* tokenManager.refresh; standalone, what readTokenCache returned
  access,     \* tokenManager.access is set and not about to expire
  persistErr, \* is there an error from the last persist?
  refreshErr, \* is there an error from the last refresh?
  reply,      \* the replacement token in the answer that mu's holder is handling
  cache,      \* the file TokenCache
  grants,     \* outside: how many logins there were
  valid,      \* outside: the tokens Tesla accepts
  crashes,
  adopted,    \* history: the grant that was loaded or pasted last
  loss        \* history: may a replacement have been lost since then?

memory  == <<refresh, access, persistErr, refreshErr>>
outside == <<grants, valid>>
history == <<crashes, adopted, loss>>
vars    == <<relayed, up, pc, paste, mu, memory, reply, cache, outside, history>>

\* The RefreshToken in the configuration.
Configured == [grant |-> 0, use |-> 0]

\* newTokenManager: a cached token takes precedence over the configured one.
Loads(file) == IF file # None THEN file ELSE Configured

Init ==
  /\ relayed \in BOOLEAN
  /\ up = "down"
  /\ pc = [t \in Threads |-> "idle"]
  /\ paste = [t \in Threads |-> None]
  /\ mu = None
  /\ refresh = None
  /\ access = FALSE
  /\ persistErr = FALSE
  /\ refreshErr = FALSE
  /\ reply = None
  /\ cache = IF relayed THEN None ELSE Configured
  /\ grants = 0
  /\ valid = {Configured}
  /\ crashes = 0
  /\ adopted = 0
  /\ loss = FALSE

-----------------------------------------------------------------------------
\* newTokenManager and NewRelay, which refreshes before anything else runs.
Start ==
  /\ up = "down"
  /\ IF relayed
     THEN /\ refresh' = Loads(cache)
          /\ up' = "starting"
          /\ pc' = [pc EXCEPT ![Main] = "token"]
     ELSE /\ up' = "up"
          /\ UNCHANGED <<refresh, pc>>
  /\ adopted' = Loads(cache).grant
  /\ UNCHANGED <<relayed, paste, mu, access, persistErr, refreshErr, reply, cache, outside,
                 crashes, loss>>

\* The process dies. What memory held is gone.
Crash ==
  /\ up # "down"
  /\ crashes < MaxCrashes
  /\ crashes' = crashes + 1
  /\ loss' = (loss \/ persistErr \/ reply # None)
  /\ up' = "down"
  /\ pc' = [t \in Threads |-> "idle"]
  /\ paste' = [t \in Threads |-> None]
  /\ mu' = None
  /\ refresh' = None
  /\ access' = FALSE
  /\ persistErr' = FALSE
  /\ refreshErr' = FALSE
  /\ reply' = None
  /\ UNCHANGED <<relayed, cache, outside, adopted>>

\* The access token runs out.
Expire ==
  /\ access
  /\ access' = FALSE
  /\ UNCHANGED <<relayed, up, pc, paste, mu, refresh, persistErr, refreshErr, reply, cache,
                 outside, history>>

-----------------------------------------------------------------------------
\* A command, a vehicle_data seed or the wizard needs an access token.
Ask(t) ==
  /\ up = "up" /\ t \in Callers
  /\ pc[t] = "idle"
  /\ pc' = [pc EXCEPT ![t] = "token"]
  /\ UNCHANGED <<relayed, up, paste, mu, memory, reply, cache, outside, history>>

\* The owner logs in at Tesla and pastes the new refresh token into the wizard.
Paste(t) ==
  /\ up = "up" /\ t \in Callers
  /\ pc[t] = "idle"
  /\ grants < MaxGrants
  /\ grants' = grants + 1
  /\ LET tok == [grant |-> grants', use |-> 0]
     IN  /\ valid' = valid \cup {tok}
         /\ paste' = [paste EXCEPT ![t] = tok]
  /\ pc' = [pc EXCEPT ![t] = "paste"]
  /\ UNCHANGED <<relayed, up, mu, memory, reply, cache, history>>

\* Broken: the temporary file is written and never renamed.
PersistNothing(tok, ok) == UNCHANGED cache

\* persist: the file is replaced by a rename, or it is not.
Persist(tok, ok) == cache' = IF ok THEN tok ELSE cache

\* The critical section ends and the goroutine goes back to its own business.
Unlock(t) ==
  /\ mu' = None
  /\ pc' = [pc EXCEPT ![t] = "idle"]
  /\ up' = IF t = Main THEN "up" ELSE up

\* token, up to the refresh: save what could not be saved before, and return
\* the access token if there is one.
Token(t) ==
  /\ relayed
  /\ pc[t] = "token"
  /\ mu = None
  /\ IF persistErr
     THEN \E ok \in BOOLEAN : Persist(refresh, ok) /\ persistErr' = ~ok
     ELSE UNCHANGED <<cache, persistErr>>
  /\ IF access
     THEN Unlock(t)
     ELSE /\ mu' = t
          /\ pc' = [pc EXCEPT ![t] = "send"]
          /\ UNCHANGED up
  /\ UNCHANGED <<relayed, paste, refresh, access, refreshErr, reply, outside, history>>

\* accessToken of the wizard without a relay: it reads the cache each time.
WizardToken(t) ==
  /\ ~relayed
  /\ pc[t] = "token"
  /\ mu = None
  /\ refresh' = cache
  /\ mu' = t
  /\ pc' = [pc EXCEPT ![t] = "send"]
  /\ UNCHANGED <<relayed, up, paste, access, persistErr, refreshErr, reply, cache, outside,
                 history>>

\* The refresh fails: Tesla does not know the token, or was not reached.
RefreshFails(t) ==
  /\ pc[t] = "send"
  /\ refreshErr' = relayed
  /\ Unlock(t)
  /\ UNCHANGED <<relayed, paste, refresh, access, persistErr, reply, cache, outside, history>>

\* Tesla gives an access token and lets the refresh token be.
RefreshKeeps(t) ==
  /\ pc[t] = "send"
  /\ refresh \in valid
  /\ access' = relayed
  /\ refreshErr' = FALSE
  /\ Unlock(t)
  /\ UNCHANGED <<relayed, paste, refresh, persistErr, reply, cache, outside, history>>

\* Tesla replaces the refresh token, and the answer arrives or is lost.
RefreshRotates(t) ==
  /\ pc[t] = "send"
  /\ refresh \in valid
  /\ refresh.use < MaxUses
  /\ LET next == [refresh EXCEPT !.use = @ + 1]
     IN  /\ valid' = (valid \ {refresh}) \cup {next}
         /\ \/ /\ reply' = next
               /\ pc' = [pc EXCEPT ![t] = "receive"]
               /\ UNCHANGED <<up, mu, refreshErr, loss>>
            \/ /\ refreshErr' = relayed
               /\ loss' = TRUE
               /\ Unlock(t)
               /\ UNCHANGED reply
  /\ UNCHANGED <<relayed, paste, refresh, access, persistErr, cache, grants, crashes, adopted>>

\* Broken: a failed write is not remembered.
ReceiveIgnoresDisk(t) ==
  /\ relayed
  /\ pc[t] = "receive"
  /\ access' = TRUE
  /\ refresh' = reply
  /\ \E ok \in BOOLEAN : Persist(reply, ok)
  /\ persistErr' = FALSE
  /\ refreshErr' = FALSE
  /\ reply' = None
  /\ Unlock(t)
  /\ UNCHANGED <<relayed, paste, outside, history>>

\* doRefresh takes the replacement into memory and on to the disk.
Receive(t) ==
  /\ relayed
  /\ pc[t] = "receive"
  /\ access' = TRUE
  /\ refresh' = reply
  /\ \E ok \in BOOLEAN : Persist(reply, ok) /\ persistErr' = ~ok
  /\ refreshErr' = FALSE
  /\ reply' = None
  /\ Unlock(t)
  /\ UNCHANGED <<relayed, paste, outside, history>>

\* The wizard without a relay has only the disk. If it cannot write, it has
\* lost the credential and says so.
WizardReceive(t) ==
  /\ ~relayed
  /\ pc[t] = "receive"
  /\ \E ok \in BOOLEAN : Persist(reply, ok) /\ loss' = (loss \/ ~ok)
  /\ reply' = None
  /\ Unlock(t)
  /\ UNCHANGED <<relayed, paste, memory, outside, crashes, adopted>>

\* Broken: it does not wait for a refresh that is under way.
AdoptUnlocked(t) ==
  /\ relayed
  /\ pc[t] = "paste"
  /\ refresh' = paste[t]
  /\ access' = FALSE
  /\ \E ok \in BOOLEAN : Persist(paste[t], ok) /\ persistErr' = ~ok
  /\ adopted' = paste[t].grant
  /\ loss' = FALSE
  /\ pc' = [pc EXCEPT ![t] = "idle"]
  /\ UNCHANGED <<relayed, up, paste, mu, refreshErr, reply, outside, crashes>>

\* adopt: memory first, then the disk. The next token() proves the new token.
Adopt(t) ==
  /\ relayed
  /\ pc[t] = "paste"
  /\ mu = None
  /\ refresh' = paste[t]
  /\ access' = FALSE
  /\ \E ok \in BOOLEAN : Persist(paste[t], ok) /\ persistErr' = ~ok
  /\ adopted' = paste[t].grant
  /\ loss' = FALSE
  /\ Unlock(t)
  /\ UNCHANGED <<relayed, paste, refreshErr, reply, outside, crashes>>

\* saveRefreshToken of the wizard without a relay.
WizardAdopt(t) ==
  /\ ~relayed
  /\ pc[t] = "paste"
  /\ mu = None
  /\ \E ok \in BOOLEAN :
        /\ Persist(paste[t], ok)
        /\ adopted' = IF ok THEN paste[t].grant ELSE adopted
        /\ loss' = (loss /\ ~ok)
  /\ Unlock(t)
  /\ UNCHANGED <<relayed, paste, memory, reply, outside, crashes>>

ThreadStep(t) ==
  \/ Token(t) \/ WizardToken(t)
  \/ RefreshFails(t) \/ RefreshKeeps(t) \/ RefreshRotates(t)
  \/ Receive(t) \/ WizardReceive(t)
  \/ Adopt(t) \/ WizardAdopt(t)

Next ==
  \/ Start \/ Crash \/ Expire
  \/ \E t \in Threads : Ask(t) \/ Paste(t) \/ ThreadStep(t)

Spec == Init /\ [][Next]_vars

-----------------------------------------------------------------------------
TypeOK ==
  /\ relayed \in BOOLEAN
  /\ up \in {"down", "starting", "up"}
  /\ pc \in [Threads -> {"idle", "token", "paste", "send", "receive"}]
  /\ paste \in [Threads -> Tokens \cup {None}]
  /\ mu \in Threads \cup {None}
  /\ refresh \in Tokens \cup {None}
  /\ relayed /\ up # "down" => refresh # None
  /\ {access, persistErr, refreshErr, loss} \subseteq BOOLEAN
  /\ reply \in Tokens \cup {None}
  /\ cache \in Tokens \cup {None}
  /\ grants \in 0..MaxGrants
  /\ valid \subseteq Tokens
  /\ crashes \in 0..MaxCrashes
  /\ adopted \in 0..MaxGrants

\* The credential that later refreshes will use.
Held == IF relayed THEN refresh ELSE cache
Idle == up = "up" /\ mu = None

\* The gateway never strands itself: as long as no answer of Tesla was lost, and
\* no crash or failed write took the only copy of a replacement, it holds a
\* token Tesla accepts (relay.go:603-609, onboard/server.go:538-542).
CredentialAlive == Idle /\ ~loss => Held \in valid

\* status, which /healthz shows, is the truth about a restart: while it says
\* "ok", what the next start would load is good, lost answers and failed writes
\* notwithstanding (relay.go:1114-1117).
status == IF persistErr \/ refreshErr THEN "failing" ELSE "ok"
StatusOkSurvivesRestart ==
  relayed /\ Idle /\ status = "ok" => Loads(cache) \in valid

\* A pasted token is in use from then on (relay.go:612-615): a refresh that was
\* under way when it was pasted does not bring the old login back.
PastedTokenKept == Idle => Held.grant = adopted

\* The credential is alive, and the one that was given last.
CredentialKept == CredentialAlive /\ PastedTokenKept
=============================================================================
