--------------------------- MODULE GraphConnection ---------------------------
(***************************************************************************)
(* The credentials for Microsoft Graph: a settings row that names the app  *)
(* registration, and its client secret in a secret store.  The setup page  *)
(* writes them with two saves; the poller reads them, for each call of a   *)
(* poll cycle, with two queries.                                           *)
(*                                                                         *)
(* The context of a poll cycle lives as long as the cycle, and FindAsync   *)
(* answers from the context when it tracks the row already.  The secret is *)
(* read untracked.  The database holds the secret here (DatabaseSecret-    *)
(* Store); Key Vault differs in that its write needs no FindSecret.        *)
(***************************************************************************)
EXTENDS Naturals, FiniteSets

CONSTANTS
  Requests,   \* posts of the setup page that may be open at a time
  Apps,       \* (tenant, client) ids of app registrations
  Secrets,    \* client secrets
  Owner,      \* the app registration a secret belongs to
  MaxPosts,   \* bound: posts of the page
  MaxCalls,   \* bound: Graph calls of a cycle
  MaxFaults,  \* bound: failed saves, failed queries and crashes
  None

ASSUME ConstantsAssumption ==
  /\ Owner \in [Secrets -> Apps]
  /\ MaxPosts \in Nat
  /\ MaxFaults \in Nat
  /\ MaxCalls \in Nat \ {0}
  /\ None \notin Apps \cup Secrets

VARIABLES
  settings,   \* GraphConnectionSettings: the app, None while there is no row
  secret,     \* the row of EncryptedSecrets, or None
  step,       \* per request, what it does next
  app,        \* per request, the app entered
  entered,    \* per request, the secret entered
  found,      \* per request, the settings row its context tracks, or None
  hasSecret,  \* per request, whether FindAsync found a secret row
  alone,      \* history: no other request was open since this one began
  phase,      \* where the poll cycle stands
  calls,      \* the Graph calls of the cycle so far
  tracked,    \* the settings row that the cycle's context tracks, or None
  client,     \* the pair the last GraphServiceClient was built from
  quiet,      \* history: the cycle began on matching credentials, at rest,
              \* and no request was open since
  posts,      \* how much of MaxPosts is spent
  faults      \* how much of MaxFaults is spent

stored == <<settings, secret>>
request == <<step, app, entered, found, hasSecret, alone>>
cycle == <<phase, calls, tracked, client, quiet>>
vars == <<stored, request, cycle, posts, faults>>

Steps == {"closed", "findSecret", "saveSecret", "findSettings", "saveSettings"}
Open == {q \in Requests : step[q] # "closed"}

Init ==
  /\ settings = None
  /\ secret = None
  /\ step = [q \in Requests |-> "closed"]
  /\ app = [q \in Requests |-> None]
  /\ entered = [q \in Requests |-> None]
  /\ found = [q \in Requests |-> None]
  /\ hasSecret = [q \in Requests |-> FALSE]
  /\ alone = [q \in Requests |-> FALSE]
  /\ phase = "idle"
  /\ calls = 0
  /\ tracked = None
  /\ client = <<None, None>>
  /\ quiet = FALSE
  /\ posts = 0
  /\ faults = 0

-----------------------------------------------------------------------------
(***************************************************************************)
(* OnPostAsync of the page, one action per query or save                   *)
(***************************************************************************)

\* Variant with a mistake: nothing is validated.
Accepted_Unasked(a, s) == TRUE

\* The call to Microsoft Graph with the credentials as entered.
Accepted(a, s) == Owner[s] = a

\* Variant with a mistake: the settings are saved first.
FirstStep_Settings == "findSettings"

FirstStep == "findSecret"

\* Malformed or refused credentials are shown again, and change nothing.
Post(q, a, s) ==
  /\ step[q] = "closed"
  /\ posts < MaxPosts
  /\ Accepted(a, s)
  /\ posts' = posts + 1
  /\ step' = [step EXCEPT ![q] = FirstStep]
  /\ app' = [app EXCEPT ![q] = a]
  /\ entered' = [entered EXCEPT ![q] = s]
  /\ alone' = [p \in Requests |-> p = q /\ Open = {}]
  /\ quiet' = FALSE
  /\ UNCHANGED <<stored, found, hasSecret, phase, calls, tracked, client, faults>>

\* The response is sent, or the request ends in an error page.
Close(q) ==
  /\ step' = [step EXCEPT ![q] = "closed"]
  /\ app' = [app EXCEPT ![q] = None]
  /\ entered' = [entered EXCEPT ![q] = None]
  /\ found' = [found EXCEPT ![q] = None]
  /\ hasSecret' = [hasSecret EXCEPT ![q] = FALSE]
  /\ alone' = [alone EXCEPT ![q] = FALSE]

FindSecret(q) ==
  /\ step[q] = "findSecret"
  /\ hasSecret' = [hasSecret EXCEPT ![q] = secret # None]
  /\ step' = [step EXCEPT ![q] = "saveSecret"]
  /\ UNCHANGED <<stored, app, entered, found, alone, cycle, posts, faults>>

SaveSecret(q) ==
  /\ step[q] = "saveSecret"
  /\ hasSecret[q] \/ secret = None
  /\ secret' = entered[q]
  /\ step' = [step EXCEPT ![q] = "findSettings"]
  /\ UNCHANGED <<settings, app, entered, found, hasSecret, alone, cycle, posts, faults>>

FindSettings(q) ==
  /\ step[q] = "findSettings"
  /\ found' = [found EXCEPT ![q] = settings]
  /\ step' = [step EXCEPT ![q] = "saveSettings"]
  /\ UNCHANGED <<stored, app, entered, hasSecret, alone, cycle, posts, faults>>

\* Variant with a mistake: an existing row keeps its app.
Written_Kept(q) == IF found[q] = None THEN app[q] ELSE settings

\* An update writes the columns that differ from the row as it was read.
Written(q) == IF found[q] = app[q] THEN settings ELSE app[q]

SaveSettings(q) ==
  /\ step[q] = "saveSettings"
  /\ found[q] # None \/ settings = None
  /\ settings' = Written(q)
  /\ Close(q)
  /\ UNCHANGED <<secret, cycle, posts, faults>>

\* Two requests found no row and both insert: the key refuses the second.
InsertRefused(q) ==
  /\ \/ step[q] = "saveSecret" /\ ~hasSecret[q] /\ secret # None
     \/ step[q] = "saveSettings" /\ found[q] = None /\ settings # None
  /\ Close(q)
  /\ UNCHANGED <<stored, cycle, posts, faults>>

Fault ==
  /\ faults < MaxFaults
  /\ faults' = faults + 1

\* A query or save throws.  (If it committed, that is the save, and then this.)
RequestFails(q) ==
  /\ step[q] # "closed"
  /\ Fault
  /\ Close(q)
  /\ UNCHANGED <<stored, cycle, posts>>

-----------------------------------------------------------------------------
(***************************************************************************)
(* A poll cycle, as far as it needs the credentials                        *)
(***************************************************************************)
Matching == settings # None /\ secret # None /\ Owner[secret] = settings

\* Variant with a mistake: one context for all cycles.
NewContext_Kept == UNCHANGED tracked

\* The cycle's scope has a context of its own, which tracks nothing yet.
NewContext == tracked' = None

StartCycle ==
  /\ phase = "idle"
  /\ phase' = "call"
  /\ calls' = 0
  /\ NewContext
  /\ quiet' = (Open = {} /\ Matching)
  /\ UNCHANGED <<stored, request, client, posts, faults>>

\* CreateClientAsync asks for the settings; without a row the call fails.
ReadSettings ==
  /\ phase = "call"
  /\ calls' = calls + 1
  /\ tracked' = IF tracked = None THEN settings ELSE tracked
  /\ phase' = IF tracked' = None THEN "called" ELSE "secret"
  /\ UNCHANGED <<stored, request, client, quiet, posts, faults>>

\* ... and then for the secret, and builds the client.
BuildClient ==
  /\ phase = "secret"
  /\ secret # None
  /\ client' = <<tracked, secret>>
  /\ phase' = "called"
  /\ UNCHANGED <<stored, request, calls, tracked, quiet, posts, faults>>

\* A query fails, or the secret is not there or cannot be decrypted.
NoClient ==
  /\ phase = "secret"
  /\ IF secret = None THEN UNCHANGED faults ELSE Fault
  /\ phase' = "called"
  /\ UNCHANGED <<stored, request, calls, tracked, client, quiet, posts>>

\* The next mailbox is listed, or the attachments of a message fetched.
NextCall ==
  /\ phase = "called"
  /\ calls < MaxCalls
  /\ phase' = "call"
  /\ UNCHANGED <<stored, request, calls, tracked, client, quiet, posts, faults>>

EndCycle ==
  /\ phase = "called"
  /\ phase' = "idle"
  /\ UNCHANGED <<stored, request, calls, tracked, client, quiet, posts, faults>>

\* Pages and poller are one process.
Crash ==
  /\ Fault
  /\ phase' = "idle"
  /\ tracked' = None
  /\ calls' = 0
  /\ step' = [q \in Requests |-> "closed"]
  /\ app' = [q \in Requests |-> None]
  /\ entered' = [q \in Requests |-> None]
  /\ found' = [q \in Requests |-> None]
  /\ hasSecret' = [q \in Requests |-> FALSE]
  /\ alone' = [q \in Requests |-> FALSE]
  /\ quiet' = FALSE
  /\ UNCHANGED <<stored, client, posts>>

Handle(q) ==
  FindSecret(q) \/ SaveSecret(q) \/ FindSettings(q) \/ SaveSettings(q) \/ InsertRefused(q)

Poll == StartCycle \/ ReadSettings \/ BuildClient \/ NoClient \/ NextCall \/ EndCycle

Next ==
  \/ \E q \in Requests, a \in Apps, s \in Secrets : Post(q, a, s)
  \/ \E q \in Requests : Handle(q)
  \/ \E q \in Requests : RequestFails(q)
  \/ Poll
  \/ Crash

Spec == Init /\ [][Next]_vars

\* Open requests go on, and the timer starts one cycle after the other.
FairSpec ==
  /\ Spec
  /\ \A q \in Requests : WF_vars(Handle(q))
  /\ WF_vars(Poll)

-----------------------------------------------------------------------------
TypeOK ==
  /\ settings \in Apps \cup {None}
  /\ secret \in Secrets \cup {None}
  /\ step \in [Requests -> Steps]
  /\ app \in [Requests -> Apps \cup {None}]
  /\ entered \in [Requests -> Secrets \cup {None}]
  /\ found \in [Requests -> Apps \cup {None}]
  /\ hasSecret \in [Requests -> BOOLEAN]
  /\ alone \in [Requests -> BOOLEAN]
  /\ phase \in {"idle", "call", "secret", "called"}
  /\ calls \in Nat
  /\ tracked \in Apps \cup {None}
  /\ client \in (Apps \cup {None}) \X (Secrets \cup {None})
  /\ quiet \in BOOLEAN
  /\ posts \in Nat
  /\ faults \in Nat
  /\ \A q \in Open : entered[q] # None /\ Owner[entered[q]] = app[q]

-----------------------------------------------------------------------------
(***************************************************************************)
(* Properties                                                              *)
(***************************************************************************)

\* The settings row, which tells the setup gate that the connection is
\* configured, is never there without a secret: whatever fails or overlaps, a
\* poller that finds the settings finds a secret to go with them.
SettingsImplySecret == settings # None => secret # None

\* FR-CFG-4: what is stored was validated as a pair.  A post that no other post
\* overlaps leaves exactly its own pair, also after posts that failed half-way
\* or overlapped and left a secret of one app beside the id of another.
PostStoresItsPair ==
  [][\A q \in Requests : SaveSettings(q) /\ alone[q] =>
       settings' = app[q] /\ secret' = entered[q]]_vars

\* A cycle that begins on matching credentials calls Graph with them, unless a
\* post comes in between: nothing stale outlives the cycle that read it.
QuietCycleIsAccepted ==
  quiet /\ phase = "secret" => Owner[secret] = tracked

\* A rotation reaches the poller without a restart.
RotationArrives ==
  <>[](settings # None => client = <<settings, secret>>)
=============================================================================
