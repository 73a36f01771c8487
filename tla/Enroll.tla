------------------------------- MODULE Enroll -------------------------------
(***************************************************************************)
(* Enrolment: the wizard's steps 6b and 7 in internal/onboard/server.go,   *)
(* /admin/enroll in internal/fleetapi, and the envelope of internal/enroll.*)
(*                                                                         *)
(* saveEnrollment writes the enrolment file after it has given up the      *)
(* lock, beside the file and under one name that all handlers share, and   *)
(* takes the certificate chain of the old file over when none is pasted.   *)
(* Handlers run at the same time and the gateway may die in any of them.   *)
(*                                                                         *)
(* A file is a number with a content.  A config is its profile, its chain  *)
(* and, when it is an envelope already, its VINs; the host, the port and   *)
(* the single fields are left out.                                         *)
(***************************************************************************)
EXTENDS Integers, FiniteSets

CONSTANTS
  Saves,      \* handlers that run saveEnrollment
  Chains,     \* certificate chains
  Cars,
  Configured, \* the VINs in the configuration, which the relay enrols
  CAFile,     \* Options.CAFile: None, a chain, or Garbled for a file without one
  None,
  Empty, Garbled \* contents of a file that are no JSON

Profiles == {"eco", "off"}
Configs  == [profile : Profiles, ca : Chains \cup {None}, vins : {None} \cup SUBSET Cars]
NotJSON  == {Empty, Garbled}

EnrollAssumption ==
  /\ IsFiniteSet(Saves)
  /\ NotJSON \cap Configs = {}
  /\ None \notin Saves \cup Chains \cup Cars
  /\ Configured \subseteq Cars
  /\ CAFile \in Chains \cup {None, Garbled}

VARIABLES
  tmp, target, \* the file at EnrollFile.tmp and at EnrollFile, 0: there is none
  content,     \* what each file holds
  save,        \* where each save is
  draft,       \* the config it has built
  fd,          \* the file it has open
  given,       \* history: the chain a save did not take from the old file
  chainSaved,  \* history: the last such chain that was saved
  overlapped   \* history: have two saves been under way at once?

disk     == <<tmp, target, content>>
saveVars == <<save, draft, fd>>
history  == <<given, chainSaved, overlapped>>
vars     == <<disk, saveVars, history>>

Files    == 1..(Cardinality(Saves) + 2)

\* The operator may have put an envelope of his own in place.
Init ==
  /\ tmp = 0
  /\ \E c \in {c \in Configs : c.profile = "eco" /\ c.vins \in {None, {}, Configured}} :
        /\ target \in {0, 1}
        /\ content = [f \in Files |-> IF f = target THEN c ELSE Empty]
        /\ chainSaved = IF target = 0 THEN None ELSE c.ca
  /\ save = [s \in Saves |-> "idle"]
  /\ draft = [s \in Saves |-> None]
  /\ fd = [s \in Saves |-> 0]
  /\ given = [s \in Saves |-> None]
  /\ overlapped = FALSE

-----------------------------------------------------------------------------
\* envelope.go.
hasFields(c) == c.profile # "off"

\* CA. A file that is no JSON has none.
CA(payload) == IF payload \in NotJSON THEN None ELSE payload.ca

\* The cars an envelope names, or else those it is wrapped for.
Addressed(c, vins) == IF c.vins = None THEN vins ELSE c.vins

\* Wrap: None is an error.
Wrap(payload, vins) ==
  IF payload \in NotJSON \/ ~hasFields(payload) \/ Addressed(payload, vins) = {} THEN None
  ELSE [payload EXCEPT !.vins = Addressed(payload, vins)]

\* chain: the pasted chain, or that of CAFile, or none.
chain(pasted) == IF pasted # None THEN pasted ELSE CAFile

-----------------------------------------------------------------------------
\* saveEnrollment, up to the chain. What is no PEM is refused.
SaveEnrollment(s, profile, pasted) ==
  /\ save[s] = "idle"
  /\ chain(pasted) # Garbled
  /\ draft' = [draft EXCEPT ![s] = [profile |-> profile, ca |-> chain(pasted), vins |-> None]]
  /\ save' = [save EXCEPT ![s] = IF chain(pasted) = None THEN "keep" ELSE "open"]
  /\ given' = [given EXCEPT ![s] = chain(pasted)]
  /\ overlapped' = (overlapped \/ \E t \in Saves \ {s} : save[t] # "idle")
  /\ UNCHANGED <<disk, fd, chainSaved>>

\* Broken: a save without a chain saves none.
KeepsNoChain(s) ==
  /\ save[s] = "keep"
  /\ save' = [save EXCEPT ![s] = "open"]
  /\ UNCHANGED <<disk, draft, fd, history>>

\* The field always renders empty: the chain already saved is kept.
KeepChain(s) ==
  /\ save[s] = "keep"
  /\ draft' = [draft EXCEPT ![s].ca = IF target = 0 THEN None ELSE CA(content[target])]
  /\ save' = [save EXCEPT ![s] = "open"]
  /\ UNCHANGED <<disk, fd, history>>

\* atomicWrite: os.WriteFile opens the file beside, emptied or new. A file that has
\* neither a name nor a handle is gone.
Free(f) == f \notin {tmp, target} /\ \A s \in Saves : fd[s] # f
Keep(files) == content' = [f \in Files |-> IF Free(f)' THEN Empty ELSE files[f]]

OpenTmp(s) ==
  /\ save[s] = "open"
  /\ tmp' = IF tmp = 0 THEN CHOOSE f \in Files : Free(f) ELSE tmp
  /\ fd' = [fd EXCEPT ![s] = tmp']
  /\ save' = [save EXCEPT ![s] = "write"]
  /\ UNCHANGED <<target, draft, history>>
  /\ Keep([content EXCEPT ![tmp'] = Empty])

Returns(s) ==
  /\ save' = [save EXCEPT ![s] = "idle"]
  /\ draft' = [draft EXCEPT ![s] = None]
  /\ given' = [given EXCEPT ![s] = None]

\* Two handlers that have opened one file both write from its start: over a
\* longer config, the end of the other one stays.
WriteTmp(s) ==
  /\ save[s] = "write"
  /\ fd' = [fd EXCEPT ![s] = 0]
  /\ save' = [save EXCEPT ![s] = "rename"]
  /\ UNCHANGED <<tmp, target, draft, history>>
  /\ \E c \in {draft[s]} \cup (IF content[fd[s]] = Empty THEN {} ELSE {Garbled}) :
        Keep([content EXCEPT ![fd[s]] = c])

\* Broken: the save gives up with its file open.
LeavesOpen(s) ==
  /\ save[s] = "write"
  /\ Returns(s)
  /\ UNCHANGED <<tmp, target, fd, chainSaved, overlapped>>
  /\ Keep([content EXCEPT ![fd[s]] = Garbled])

\* The disk is full, and the save gives up.
WriteFails(s) ==
  /\ save[s] = "write"
  /\ fd' = [fd EXCEPT ![s] = 0]
  /\ Returns(s)
  /\ UNCHANGED <<tmp, target, chainSaved, overlapped>>
  /\ Keep([content EXCEPT ![fd[s]] = Garbled])

\* Rename whatever now has the name, or fail when another handler has been here.
Rename(s) ==
  /\ save[s] = "rename"
  /\ Returns(s)
  /\ UNCHANGED <<fd, overlapped>>
  /\ IF tmp = 0 THEN UNCHANGED <<disk, chainSaved>>
     ELSE /\ target' = tmp
          /\ tmp' = 0
          /\ Keep(content)
          /\ chainSaved' = IF given[s] = None THEN chainSaved ELSE given[s]

-----------------------------------------------------------------------------
\* Both enrolments read the file once and change nothing here: each is the envelope
\* that goes to the proxy, or None.

\* Broken: a config is sent whether or not it has a chain.
EnrollsAnything(vehicles) == IF target = 0 THEN None ELSE Wrap(content[target], vehicles)

\* enroll of the wizard, for the cars the account has.
WizardEnroll(vehicles) ==
  IF target = 0 \/ CA(content[target]) = None THEN None ELSE Wrap(content[target], vehicles)

\* handleEnroll and Relay.Enroll, which do not look for a chain.
AdminEnroll == IF target = 0 THEN None ELSE Wrap(content[target], Configured)

-----------------------------------------------------------------------------
\* The gateway dies.
Crash ==
  /\ save' = [s \in Saves |-> "idle"]
  /\ draft' = [s \in Saves |-> None]
  /\ fd' = [s \in Saves |-> 0]
  /\ given' = [s \in Saves |-> None]
  /\ UNCHANGED <<tmp, target, chainSaved, overlapped>>
  /\ Keep(content)

Save(s) ==
  \/ \E profile \in Profiles, pasted \in Chains \cup {None} :
        SaveEnrollment(s, profile, pasted)
  \/ KeepChain(s) \/ OpenTmp(s) \/ WriteTmp(s) \/ WriteFails(s) \/ Rename(s)

Next == Crash \/ \E s \in Saves : Save(s)

Spec == Init /\ [][Next]_vars

-----------------------------------------------------------------------------
TypeOK ==
  /\ {tmp, target} \subseteq {0} \cup Files /\ (tmp # 0 => tmp # target)
  /\ \A f \in Files : content[f] \in Configs \cup NotJSON
  /\ \A s \in Saves :
       /\ save[s] \in {"idle", "keep", "open", "write", "rename"}
       /\ save[s] # "idle" => draft[s] \in Configs
       /\ fd[s] # 0 <=> save[s] = "write"

\* onboard/server.go:454-459 and 122: as long as saves do not overlap, the file is at
\* every moment a whole config with the chain that was saved last, whatever dies
\* or fails half way and whatever an earlier attempt has left behind.
ChainKept ==
  ~overlapped /\ target # 0 => CA(content[target]) = chainSaved /\ content[target] \notin NotJSON

\* onboard/server.go:480-482, envelope.go:12-20: whatever dies or fails, what would be sent has
\* fields, cars and the chain that was saved last, and from the wizard a chain at
\* all: a bare or an empty config stops the proxy, or the car.
Sent == ({AdminEnroll} \cup {WizardEnroll(vehicles) : vehicles \in SUBSET Cars}) \ {None}
SentIsWhole ==
  /\ \A body \in Sent :
       /\ hasFields(body) /\ body.vins \in (SUBSET Cars) \ {{}}
       /\ ~overlapped => body.ca = chainSaved
  /\ \A vehicles \in SUBSET Cars :
       WizardEnroll(vehicles) # None => WizardEnroll(vehicles).ca # None

\* Enrolment keeps what it was given and sends nothing less.
EnrollmentWhole == ChainKept /\ SentIsWhole

\* No save under way.
Quiet == \A s \in Saves : save[s] = "idle"

\* The same of saves that overlap (onboard/server.go:454-459).
OverlapKeepsChain ==
  target # 0 /\ Quiet => CA(content[target]) = chainSaved /\ content[target] \notin NotJSON

\* envelope.go:78-80, of both ways to enrol.
NeverWithoutChain == \A body \in Sent : body.ca # None
=============================================================================
