------------------------------- MODULE Onboard -------------------------------
(***************************************************************************)
(* The key pair and the partner registration of the onboarding wizard,     *)
(* internal/onboard/server.go: three files written one after the other,    *)
(* the progress kept in memory and in state.json, handlers that run        *)
(* concurrently under Store.mu, and a gateway that can be restarted at any *)
(* moment.  Saving the state again after each step is modelled; its error  *)
(* is ignored by every handler but generate.                               *)
(*                                                                         *)
(* Key pairs are numbered in the order they are made.  What Tesla and the  *)
(* cars know is external.  The operator may take the steps of the page in  *)
(* any order: no handler asks for the step before its own.                 *)
(***************************************************************************)
EXTENDS Integers

CONSTANTS
  Domains,    \* partner domains the operator may enter
  None,       \* no domain entered
  MaxKeys     \* bound on the key pairs that are made

OnboardAssumption ==
  /\ None \notin Domains
  /\ MaxKeys \in Nat

VARIABLES
  writesFail,      \* may a file write fail? Chosen once and for all
  private, public, \* key of private-key.pem and public-key.pem, 0: no file
  saved,           \* state.json
  st,              \* Store.st
  gen,             \* what generateKeys, holding Store.mu, writes next
  made,            \* key pairs made so far
  request,         \* registerPartner: "idle", "asked" or "granted"
  domain,          \* the domain registerPartner has read
  partner,         \* external: the key Tesla has for each domain, 0: none
  trusted          \* external: keys that paired cars trust

disk     == <<private, public, saved>>
tesla    == <<partner, trusted>>
register == <<request, domain>>
vars     == <<writesFail, disk, st, gen, made, register, tesla>>

Fresh == [domain |-> None, hasKeys |-> FALSE, partnerDone |-> FALSE]

Init ==
  /\ writesFail \in BOOLEAN
  /\ private = 0 /\ public = 0
  /\ saved = Fresh
  /\ st = Fresh
  /\ gen = "free"
  /\ made = 0
  /\ request = "idle" /\ domain = None
  /\ partner = [d \in Domains |-> 0]
  /\ trusted = {}

\* saveState, of the state s.
saveState(s) ==
  \/ saved' = s
  \/ writesFail /\ UNCHANGED saved

\* saveDomain, which the rest of the progress survives.
SaveDomain(d) ==
  /\ gen = "free"
  /\ st' = [st EXCEPT !.domain = d]
  /\ saveState(st')
  /\ UNCHANGED <<writesFail, private, public, gen, made, register, tesla>>

-----------------------------------------------------------------------------
\* Broken: the state is written ahead of the keys.
GenerateStateFirst(confirm) ==
  /\ gen = "free" /\ made < MaxKeys
  /\ st.hasKeys => confirm
  /\ made' = made + 1
  /\ gen' = "private"
  /\ st' = [st EXCEPT !.hasKeys = TRUE]
  /\ saveState(st')
  /\ UNCHANGED <<writesFail, private, public, register, tesla>>

\* generate: an existing pair is replaced only when the operator confirms.
Generate(confirm) ==
  /\ gen = "free" /\ made < MaxKeys
  /\ st.hasKeys => confirm
  /\ made' = made + 1
  /\ gen' = "private"
  /\ UNCHANGED <<writesFail, disk, st, register, tesla>>

WritePrivate ==
  /\ gen = "private"
  /\ \/ private' = made /\ gen' = "public"
     \/ writesFail /\ gen' = "free" /\ UNCHANGED private
  /\ UNCHANGED <<writesFail, public, saved, st, made, register, tesla>>

WritePublic ==
  /\ gen = "public"
  /\ \/ public' = made /\ gen' = "state"
     \/ writesFail /\ gen' = "free" /\ UNCHANGED public
  /\ UNCHANGED <<writesFail, private, saved, st, made, register, tesla>>

\* HasKeys is set before the state is saved, and stays when that fails.
WriteState ==
  /\ gen = "state"
  /\ st' = [st EXCEPT !.hasKeys = TRUE]
  /\ saveState(st')
  /\ gen' = "free"
  /\ UNCHANGED <<writesFail, private, public, made, register, tesla>>

-----------------------------------------------------------------------------
\* registerPartner reads the domain, calls Tesla without the lock and records. It
\* does not ask whether there are keys.
Register ==
  /\ gen = "free" /\ request = "idle"
  /\ st.domain # None
  /\ domain' = st.domain
  /\ request' = "asked"
  /\ UNCHANGED <<writesFail, disk, st, gen, made, tesla>>

\* Tesla fetches the key that the well-known path serves, which is the file as it
\* is (server.go:198), or refuses (external), or its answer is lost.
TeslaAnswers ==
  /\ request = "asked"
  /\ \/ /\ public > 0
        /\ partner' = [partner EXCEPT ![domain] = public]
        /\ request' \in {"granted", "idle"}
     \/ /\ request' = "idle"
        /\ UNCHANGED partner
  /\ UNCHANGED <<writesFail, disk, st, gen, made, domain, trusted>>

\* The answer is recorded under the lock.
RecordPartner ==
  /\ gen = "free" /\ request = "granted"
  /\ st' = [st EXCEPT !.partnerDone = TRUE]
  /\ saveState(st')
  /\ request' = "idle"
  /\ UNCHANGED <<writesFail, private, public, gen, made, domain, tesla>>

\* A car is paired with the key of a registered domain (external), whatever the
\* page says: Tesla may have granted what the wizard never heard of.
Pair ==
  /\ \E d \in Domains :
        /\ partner[d] > 0
        /\ trusted' = trusted \cup {partner[d]}
  /\ UNCHANGED <<writesFail, disk, st, gen, made, register, partner>>

-----------------------------------------------------------------------------
\* The gateway dies, whatever it is doing, and newStore reads state.json.
Restart ==
  /\ st' = saved
  /\ gen' = "free"
  /\ request' = "idle"
  /\ UNCHANGED <<writesFail, disk, made, domain, tesla>>

Next ==
  \/ \E d \in Domains : SaveDomain(d)
  \/ \E confirm \in BOOLEAN : Generate(confirm)
  \/ WritePrivate \/ WritePublic \/ WriteState
  \/ Register \/ TeslaAnswers \/ RecordPartner
  \/ Pair \/ Restart

Spec == Init /\ [][Next]_vars

-----------------------------------------------------------------------------
Progress == [domain : Domains \cup {None}, hasKeys : BOOLEAN, partnerDone : BOOLEAN]

TypeOK ==
  /\ writesFail \in BOOLEAN
  /\ {private, public} \subseteq 0..made /\ made \in 0..MaxKeys
  /\ {saved, st} \subseteq Progress
  /\ gen \in {"free", "private", "public", "state"}
  /\ request \in {"idle", "asked", "granted"}
  /\ domain \in Domains \cup {None}
  /\ request # "idle" => domain # None
  /\ partner \in [Domains -> 0..made]
  /\ trusted \subseteq 1..made

\* A page that says "generated" has both files behind it, after a restart in the
\* middle of generateKeys too (server.go:103-116).
HasKeysHaveFiles ==
  st.hasKeys \/ saved.hasKeys => private > 0 /\ public > 0

\* A page that says the registration is done follows one that Tesla granted,
\* whatever was edited or restarted since.
DoneWasGranted ==
  st.partnerDone \/ saved.partnerDone => \E d \in Domains : partner[d] > 0

\* What the page says has happened did happen, on disk and at Tesla.
StepsTrue == HasKeysHaveFiles /\ DoneWasGranted

\* server.go:330: every paired car trusts the key pair, so the wizard knows that
\* there is one, and replaces it only for an operator who confirms. A state.json
\* that could not be written forgets the keys, hence the condition. A death
\* between the public key and the state forgets them too, while the file is
\* served, registered and paired with.
PairedKeysGuarded ==
  (gen = "free" /\ private \in trusted /\ ~writesFail) => st.hasKeys

\* keys.go:25-26: the public key that is published belongs to the private key
\* that signs, except while generateKeys replaces both.
ServedKeySigns == gen = "free" => public = private

\* index.html:82-87: the domain on the page is registered when step 4 is done.
DoneIsCurrent == st.partnerDone => partner[st.domain] > 0
=============================================================================
