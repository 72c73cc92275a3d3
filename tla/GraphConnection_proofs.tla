----------------------- MODULE GraphConnection_proofs -----------------------
(***************************************************************************)
(* The credentials, for any number of overlapping posts, app registrations *)
(* and Graph calls.                                                        *)
(***************************************************************************)
EXTENDS GraphConnection, TLAPS

USE DEF stored, request, cycle, vars

PostSome == \E q \in Requests, a \in Apps, s \in Secrets : Post(q, a, s)

\* Every variable keeps its type, and an open request holds a pair that Graph
\* has accepted.
THEOREM TypeCorrect == Spec => []TypeOK
<1>1. ASSUME Init PROVE TypeOK
  <2>1. Open = {}
    BY <1>1 DEF Init, Open
  <2>2. step \in [Requests -> Steps] /\ app \in [Requests -> Apps \cup {None}]
        /\ entered \in [Requests -> Secrets \cup {None}]
    BY <1>1 DEF Init, Steps
  <2>3. found \in [Requests -> Apps \cup {None}] /\ hasSecret \in [Requests -> BOOLEAN]
        /\ alone \in [Requests -> BOOLEAN]
    BY <1>1 DEF Init
  <2>4. client \in (Apps \cup {None}) \X (Secrets \cup {None}) /\ quiet = FALSE
    BY <1>1 DEF Init
  <2>5. settings = None /\ secret = None /\ phase = "idle" /\ tracked = None
        /\ calls = 0 /\ posts = 0 /\ faults = 0
    BY <1>1 DEF Init
  <2> QED
    BY <2>1, <2>2, <2>3, <2>4, <2>5 DEF TypeOK
<1>2. TypeOK /\ [Next]_vars => TypeOK'
  <2> SUFFICES ASSUME TypeOK, [Next]_vars PROVE TypeOK'
    OBVIOUS
  <2> USE ConstantsAssumption DEF TypeOK, Open, Steps
  <2>1. CASE UNCHANGED vars
    BY <2>1
  <2>2. CASE PostSome
    <3>1. PICK q \in Requests, a \in Apps, s \in Secrets : Post(q, a, s)
      BY <2>2 DEF PostSome
    <3>2. Owner[s] = a /\ s # None
      BY <3>1 DEF Post, Accepted
    <3>3. step' = [step EXCEPT ![q] = "findSecret"]
      BY <3>1 DEF Post, FirstStep
    <3>4. step' \in [Requests -> Steps] /\ app' \in [Requests -> Apps \cup {None}]
          /\ entered' \in [Requests -> Secrets \cup {None}] /\ alone' \in [Requests -> BOOLEAN]
      BY <3>1, <3>3 DEF Post
    <3>5. \A p \in Open' : entered'[p] # None /\ Owner[entered'[p]] = app'[p]
      BY <3>1, <3>2, <3>3 DEF Post
    <3>6. quiet' = FALSE /\ posts' \in Nat
      BY <3>1 DEF Post
    <3>7. UNCHANGED <<stored, found, hasSecret, phase, calls, tracked, client, faults>>
      BY <3>1 DEF Post
    <3> QED
      BY <3>4, <3>5, <3>6, <3>7
  <2>3. CASE \E q \in Requests : Handle(q)
    <3>1. PICK q \in Requests : Handle(q)
      BY <2>3
    <3>2. CASE FindSecret(q)
      BY <3>2 DEF FindSecret
    <3>3. CASE SaveSecret(q)
      BY <3>3 DEF SaveSecret
    <3>4. CASE FindSettings(q)
      BY <3>4 DEF FindSettings
    <3>5. CASE SaveSettings(q)
      BY <3>5 DEF SaveSettings, Written, Close
    <3>6. CASE InsertRefused(q)
      BY <3>6 DEF InsertRefused, Close
    <3> QED
      BY <3>1, <3>2, <3>3, <3>4, <3>5, <3>6 DEF Handle
  <2>4. CASE \E q \in Requests : RequestFails(q)
    BY <2>4 DEF RequestFails, Close, Fault
  <2>5. CASE StartCycle
    BY <2>5 DEF StartCycle, NewContext, Matching
  <2>6. CASE ReadSettings
    BY <2>6 DEF ReadSettings
  <2>7. CASE BuildClient
    BY <2>7 DEF BuildClient
  <2>8. CASE NoClient \/ NextCall \/ EndCycle
    <3>1. CASE NoClient
      BY <3>1 DEF NoClient, Fault
    <3> QED
      BY <2>8, <3>1 DEF NextCall, EndCycle
  <2>9. CASE Crash
    <3>1. step' \in [Requests -> Steps] /\ Open' = {}
      BY <2>9 DEF Crash
    <3>2. app' \in [Requests -> Apps \cup {None}] /\ entered' \in [Requests -> Secrets \cup {None}]
      BY <2>9 DEF Crash
    <3>3. found' \in [Requests -> Apps \cup {None}] /\ hasSecret' \in [Requests -> BOOLEAN]
          /\ alone' \in [Requests -> BOOLEAN]
      BY <2>9 DEF Crash
    <3>4. calls' = 0 /\ faults' \in Nat /\ quiet' = FALSE /\ phase' = "idle"
          /\ tracked' = None
      BY <2>9 DEF Crash, Fault
    <3>5. UNCHANGED <<settings, secret, client, posts>>
      BY <2>9 DEF Crash
    <3> QED
      BY <3>1, <3>2, <3>3, <3>4, <3>5
  <2> QED
    BY <2>1, <2>2, <2>3, <2>4, <2>5, <2>6, <2>7, <2>8, <2>9 DEF Next, Poll, PostSome
<1> QED
  BY <1>1, <1>2, PTL DEF Spec

-----------------------------------------------------------------------------
(***************************************************************************)
(* SettingsImplySecret: a request that has come to the settings row has     *)
(* saved its secret, and nothing ever removes one.                          *)
(***************************************************************************)
SecretInv ==
  /\ SettingsImplySecret
  /\ \A q \in Requests : step[q] \in {"findSettings", "saveSettings"} => secret # None

\* The settings row never stands without a secret, for any overlap and failure.
THEOREM SettingsHaveSecret == Spec => []SettingsImplySecret
<1>1. Init => SecretInv
  BY DEF Init, SecretInv, SettingsImplySecret
<1>2. TypeOK /\ SecretInv /\ [Next]_vars => SecretInv'
  <2> SUFFICES ASSUME TypeOK, SecretInv, [Next]_vars PROVE SecretInv'
    OBVIOUS
  <2> USE DEF SecretInv, SettingsImplySecret
  <2>t. step \in [Requests -> Steps]
    BY DEF TypeOK
  <2>1. CASE UNCHANGED vars
    BY <2>1
  <2>2. CASE PostSome
    BY <2>2, <2>t DEF PostSome, Post, FirstStep
  <2>3. CASE \E q \in Requests : Handle(q)
    <3>1. PICK q \in Requests : Handle(q)
      BY <2>3
    <3>2. CASE FindSecret(q)
      BY <3>2, <2>t DEF FindSecret
    <3>3. CASE SaveSecret(q)
      <4>1. entered[q] # None
        BY <3>3 DEF SaveSecret, TypeOK, Open
      <4> QED
        BY <3>3, <4>1, <2>t DEF SaveSecret
    <3>4. CASE FindSettings(q)
      BY <3>4, <2>t DEF FindSettings
    <3>5. CASE SaveSettings(q)
      BY <3>5, <2>t DEF SaveSettings, Close
    <3>6. CASE InsertRefused(q)
      BY <3>6, <2>t DEF InsertRefused, Close
    <3> QED
      BY <3>1, <3>2, <3>3, <3>4, <3>5, <3>6 DEF Handle
  <2>4. CASE \E q \in Requests : RequestFails(q)
    BY <2>4, <2>t DEF RequestFails, Close
  <2>5. CASE Poll
    BY <2>5 DEF Poll, StartCycle, ReadSettings, BuildClient, NoClient, NextCall, EndCycle
  <2>6. CASE Crash
    BY <2>6 DEF Crash
  <2> QED
    BY <2>1, <2>2, <2>3, <2>4, <2>5, <2>6 DEF Next, PostSome
<1>3. SecretInv => SettingsImplySecret
  BY DEF SecretInv
<1> QED
  BY <1>1, <1>2, <1>3, TypeCorrect, PTL DEF Spec

-----------------------------------------------------------------------------
(***************************************************************************)
(* PostStoresItsPair: a request that is alone sees the rows as it left them *)
(* or found them, from one of its steps to the next.                        *)
(***************************************************************************)
AloneInv ==
  \A q \in Requests : alone[q] =>
    /\ Open = {q}
    /\ step[q] \in {"findSettings", "saveSettings"} => secret = entered[q]
    /\ step[q] = "saveSettings" => found[q] = settings

LEMMA AloneKept ==
  ASSUME TypeOK, AloneInv, [Next]_vars
  PROVE  AloneInv'
<1>t. step \in [Requests -> Steps] /\ alone \in [Requests -> BOOLEAN]
      /\ found \in [Requests -> Apps \cup {None}]
  BY DEF TypeOK
<1>1. CASE UNCHANGED vars
  BY <1>1 DEF AloneInv, Open
<1>2. CASE PostSome
  <2>1. PICK q \in Requests, a \in Apps, s \in Secrets : Post(q, a, s)
    BY <1>2 DEF PostSome
  <2>2. step' = [step EXCEPT ![q] = "findSecret"]
        /\ alone' = [p \in Requests |-> p = q /\ Open = {}]
    BY <2>1 DEF Post, FirstStep
  <2>3. ASSUME NEW p \in Requests, alone'[p]
        PROVE  p = q /\ Open' = {q} /\ step'[q] = "findSecret"
    BY <1>t, <2>2, <2>3 DEF Open
  <2> QED
    BY <2>3 DEF AloneInv
<1>3. CASE \E q \in Requests : FindSecret(q) \/ SaveSecret(q) \/ FindSettings(q)
  <2>1. PICK q \in Requests : FindSecret(q) \/ SaveSecret(q) \/ FindSettings(q)
    BY <1>3
  <2>2. q \in Open /\ Open' = Open /\ alone' = alone /\ entered' = entered /\ settings' = settings
    BY <1>t, <2>1 DEF FindSecret, SaveSecret, FindSettings, Open
  <2>3. SUFFICES ASSUME NEW p \in Requests, alone[p]
                 PROVE  /\ Open = {p}
                        /\ step'[p] \in {"findSettings", "saveSettings"} => secret' = entered[p]
                        /\ step'[p] = "saveSettings" => found'[p] = settings
    BY <2>2 DEF AloneInv
  <2>4. Open = {p} /\ p = q
    BY <2>2, <2>3 DEF AloneInv
  <2> QED
    BY <1>t, <2>1, <2>3, <2>4 DEF AloneInv, FindSecret, SaveSecret, FindSettings
<1>4. CASE \E q \in Requests : SaveSettings(q) \/ InsertRefused(q) \/ RequestFails(q)
  <2>1. PICK q \in Requests : SaveSettings(q) \/ InsertRefused(q) \/ RequestFails(q)
    BY <1>4
  <2>2. Close(q) /\ q \in Open
    BY <2>1 DEF SaveSettings, InsertRefused, RequestFails, Open
  <2>3. ASSUME NEW p \in Requests, alone'[p]
        PROVE  FALSE
    <3>1. p # q /\ alone[p]
      BY <1>t, <2>2, <2>3 DEF Close
    <3> QED
      BY <2>2, <3>1 DEF AloneInv
  <2>4. SaveSettings(q) \/ settings' = settings
    BY <2>1 DEF InsertRefused, RequestFails
  <2> QED
    BY <2>3 DEF AloneInv
<1>5. CASE Poll
  <2>1. UNCHANGED <<stored, request>>
    BY <1>5 DEF Poll, StartCycle, ReadSettings, BuildClient, NoClient, NextCall, EndCycle
  <2> QED
    BY <2>1 DEF AloneInv, Open
<1>6. CASE Crash
  BY <1>6 DEF Crash, AloneInv
<1> QED
  BY <1>1, <1>2, <1>3, <1>4, <1>5, <1>6 DEF Next, Handle, PostSome

\* FR-CFG-4 for a post that is alone: it leaves its own validated pair, whatever
\* earlier posts left behind.
THEOREM LonePostIsWhole == Spec => PostStoresItsPair
<1>1. Init => AloneInv
  BY DEF Init, AloneInv
<1>2. TypeOK /\ AloneInv /\ [Next]_vars =>
        [\A q \in Requests : SaveSettings(q) /\ alone[q] =>
           settings' = app[q] /\ secret' = entered[q]]_vars
  BY DEF AloneInv, SaveSettings, Written
<1> QED
  BY <1>1, <1>2, AloneKept, TypeCorrect, PTL DEF Spec, PostStoresItsPair

-----------------------------------------------------------------------------
(***************************************************************************)
(* QuietCycleIsAccepted: without posts the rows stand still, and the        *)
(* context of the cycle can only remember what is stored.                   *)
(***************************************************************************)
QuietInv ==
  /\ quiet => Open = {} /\ Matching /\ tracked \in {None, settings}
  /\ phase = "secret" => tracked # None

LEMMA QuietInvariant == Spec => []QuietInv
<1>1. Init => QuietInv
  BY DEF Init, QuietInv
<1>2. TypeOK /\ QuietInv /\ [Next]_vars => QuietInv'
  <2> SUFFICES ASSUME TypeOK, QuietInv, [Next]_vars PROVE QuietInv'
    OBVIOUS
  <2>t. step \in [Requests -> Steps]
    BY DEF TypeOK
  <2>1. CASE UNCHANGED vars
    BY <2>1 DEF QuietInv, Open, Matching
  <2>2. CASE PostSome
    BY <2>2 DEF PostSome, Post, QuietInv
  <2>3. CASE \E q \in Requests : Handle(q) \/ RequestFails(q)
    <3>1. PICK q \in Requests : Handle(q) \/ RequestFails(q)
      BY <2>3
    <3>2. q \in Open
      BY <3>1 DEF Handle, FindSecret, SaveSecret, FindSettings, SaveSettings,
         InsertRefused, RequestFails, Open
    <3>3. UNCHANGED cycle
      BY <3>1 DEF Handle, FindSecret, SaveSecret, FindSettings, SaveSettings,
         InsertRefused, RequestFails
    <3> QED
      BY <3>2, <3>3 DEF QuietInv
  <2>4. CASE Poll
    <3>1. UNCHANGED <<stored, request>>
      BY <2>4 DEF Poll, StartCycle, ReadSettings, BuildClient, NoClient, NextCall, EndCycle
    <3>2. Open' = Open /\ Matching' = Matching
      BY <3>1 DEF Open, Matching
    <3>3. CASE StartCycle
      BY <3>1, <3>2, <3>3 DEF StartCycle, NewContext, QuietInv
    <3>4. CASE ReadSettings
      BY <3>1, <3>2, <3>4 DEF ReadSettings, QuietInv
    <3>5. CASE BuildClient \/ NoClient \/ NextCall \/ EndCycle
      BY <3>1, <3>2, <3>5 DEF BuildClient, NoClient, NextCall, EndCycle, QuietInv
    <3> QED
      BY <2>4, <3>3, <3>4, <3>5 DEF Poll
  <2>5. CASE Crash
    BY <2>5 DEF Crash, QuietInv
  <2> QED
    BY <2>1, <2>2, <2>3, <2>4, <2>5 DEF Next, PostSome
<1> QED
  BY <1>1, <1>2, TypeCorrect, PTL DEF Spec

\* A cycle that no post touches calls Graph with credentials it accepts.
THEOREM QuietCyclesMatch == Spec => []QuietCycleIsAccepted
<1>1. QuietInv => QuietCycleIsAccepted
  BY DEF QuietInv, QuietCycleIsAccepted, Matching
<1> QED
  BY <1>1, QuietInvariant, PTL

-----------------------------------------------------------------------------
(***************************************************************************)
(* RotationArrives, without the fairness: once no post is open, a cycle    *)
(* that starts is at rest, and what is at rest stays so until the next     *)
(* post; its clients are built from what is stored.                        *)
(***************************************************************************)
AtRest == Open = {} /\ tracked \in {None, settings}
Current == client = <<settings, secret>>

\* Nothing that a context remembers comes between the rows and the client.
ClientFollowsRows ==
  [][ /\ StartCycle /\ Open = {} => AtRest'
      /\ AtRest => AtRest' \/ PostSome
      /\ AtRest /\ ReadSettings => (phase' = "secret" <=> settings # None)
      /\ AtRest /\ BuildClient => Current'
      /\ AtRest /\ Current => Current' \/ PostSome ]_vars

\* Whatever earlier posts wrote, and in which order: as soon as none is open, the next
\* cycle forgets what an older one remembered of the settings, reads them if there are
\* any, builds each client from the stored pair, and no failure, crash or later cycle
\* makes it go back to another one.
THEOREM RotationIsRead == Spec => ClientFollowsRows
<1>1. ASSUME TypeOK, QuietInv, [Next]_vars, ~UNCHANGED vars
      PROVE  /\ StartCycle /\ Open = {} => AtRest'
             /\ AtRest => AtRest' \/ PostSome
             /\ AtRest /\ ReadSettings => (phase' = "secret" <=> settings # None)
             /\ AtRest /\ BuildClient => Current'
             /\ AtRest /\ Current => Current' \/ PostSome
  <2>1. Poll => UNCHANGED <<stored, request>> /\ Open' = Open
    BY DEF Poll, StartCycle, ReadSettings, BuildClient, NoClient, NextCall, EndCycle, Open
  <2>2. StartCycle /\ Open = {} => AtRest'
    BY <2>1 DEF Poll, StartCycle, NewContext, AtRest
  <2>3. AtRest /\ ReadSettings => (phase' = "secret" <=> settings # None)
    BY DEF AtRest, ReadSettings
  <2>4. AtRest /\ BuildClient => Current'
    <3> SUFFICES ASSUME AtRest, BuildClient PROVE Current'
      OBVIOUS
    <3>1. tracked = settings
      BY <1>1 DEF QuietInv, AtRest, BuildClient
    <3>2. client' = <<tracked, secret>> /\ settings' = settings /\ secret' = secret
      BY DEF BuildClient
    <3> QED
      BY <3>1, <3>2 DEF Current
  <2>5. ASSUME AtRest, Poll
        PROVE  AtRest' /\ (Current => Current')
    <3>1. tracked' \in {None, settings}
      BY <2>5 DEF AtRest, Poll, StartCycle, NewContext, ReadSettings, BuildClient, NoClient,
                  NextCall, EndCycle
    <3>2. BuildClient \/ client' = client
      BY <2>5 DEF Poll, StartCycle, ReadSettings, NoClient, NextCall, EndCycle
    <3> QED
      BY <2>1, <2>4, <2>5, <3>1, <3>2 DEF AtRest, Current
  <2>6. ASSUME AtRest, Crash
        PROVE  AtRest' /\ (Current => Current')
    BY <2>6 DEF AtRest, Crash, Open, Current
  <2>7. ASSUME AtRest, NEW q \in Requests, Handle(q) \/ RequestFails(q)
        PROVE  FALSE
    BY <2>7 DEF AtRest, Handle, FindSecret, SaveSecret, FindSettings, SaveSettings,
                InsertRefused, RequestFails, Open
  <2> QED
    BY <1>1, <2>2, <2>3, <2>4, <2>5, <2>6, <2>7 DEF Next, PostSome
<1> QED
  BY <1>1, TypeCorrect, QuietInvariant, PTL DEF Spec, ClientFollowsRows
=============================================================================
