---------------------------- MODULE SenderScoring ----------------------------
(***************************************************************************)
(* The SenderReputation rows of one monitored domain: how the records of   *)
(* its reports are scored, and what each sender is rated.                  *)
(*                                                                         *)
(* All reports of a poll cycle share one Entity Framework context.  The    *)
(* rows it tracks, and what the history knows of them, are tracked and     *)
(* noted; a SaveChanges commits them to stored and heard.  Scoring one     *)
(* record is one action: every check of it is caught on its own, and no    *)
(* other part of the program writes these rows.                            *)
(*                                                                         *)
(* Ratios are compared as fractions of natural numbers; the quotients of   *)
(* doubles agree with them for volumes below 2^50.                         *)
(***************************************************************************)
EXTENDS Integers, Sequences, FiniteSets

CONSTANTS
  Sources,     \* <source_ip> texts
  Parses,      \* those that are IP addresses
  Keys,        \* source IPs as the database's unique index tells them apart
  Key,         \* the key of a text: the index ignores the case of IPv6 digits
  Orgs,        \* <org_name> texts
  Entries,     \* VerifiedSenderOverride rows of the domain that may exist
  Network,     \* the addresses in an entry's SourceIpCidr
  Pattern,     \* the organisations that contain an entry's OrgNamePattern
  Records,     \* records of reports, together with what DNS answers for them
  MaxRecords,  \* bound: records scored
  MaxFaults,   \* bound: failed queries, failed saves and crashes
  NoRow

SpfResults == {"None", "Neutral", "Pass", "Fail", "SoftFail", "TempError", "PermError"}
Levels == {"Verified", "LikelyLegitimate", "Unverified", "Suspicious"}
Addresses == {"fails",         \* the PTR query fails
              "noHost",        \* no PTR record
              "forwardFails",  \* a host whose address query fails
              "other",         \* a host with other addresses
              "confirmed"}     \* a host that has the source address

\* A DKIM selector's TXT records, in the order DNS returns them.  mentions: the
\* text holds "p=" somewhere; key: the value of its tag p.
TxtRecords == [mentions : BOOLEAN, key : {"absent", "empty", "base64", "other"}]

\* selector: the report names one; found: its TXT records, fails: the query does.
Signatures ==
  [passed : BOOLEAN, selector : BOOLEAN, fails : BOOLEAN, found : Seq(TxtRecords)]

\* The columns that matter; host: there is a ReverseDnsHostname; allowed:
\* IsOverrideMatch.
Rows == [total : Nat, aligned : Nat, spf : SpfResults, stale : BOOLEAN,
         host : BOOLEAN, forward : BOOLEAN, allowed : BOOLEAN, level : Levels]

ASSUME ConstantsAssumption ==
  /\ Parses \subseteq Sources
  /\ Key \in [Sources -> Keys]
  /\ Network \in [Entries -> SUBSET Keys]
  /\ Pattern \in [Entries -> SUBSET Orgs]
  /\ \A r \in Records :
       /\ r.source \in Sources
       /\ r.count \in Nat
       /\ r.dkimPass \in BOOLEAN
       /\ r.spfPass \in BOOLEAN
       /\ r.spf \in SpfResults \cup {"fails"}
       /\ r.ptr \in Addresses
       /\ r.signatures \subseteq Signatures
  /\ MaxRecords \in Nat
  /\ MaxFaults \in Nat
  /\ NoRow \notin Rows

VARIABLES
  overrides,  \* VerifiedSenderOverride rows
  stored,     \* the SenderReputation row per key, or NoRow
  heard,      \* history: what the stored row of a key was scored from, in order
  tracked,    \* the rows of the unit of work, as they would be committed
  noted,      \* history: what the tracked row of a key was scored from, in order
  clash,      \* the unit of work holds two new rows of one key
  failed,     \* history: a SaveChanges failed since the last that succeeded
  pc,         \* where the ingestion stands
  org,        \* OrgName of the report
  loaded,     \* the overrides read at the start of the report
  cached,     \* the texts in reputationCache
  records,    \* how much of MaxRecords is spent
  faults      \* how much of MaxFaults is spent

table == <<stored, heard>>
unit == <<tracked, noted, clash, failed>>
report == <<org, loaded, cached>>
vars == <<overrides, table, unit, pc, report, records, faults>>

Init ==
  /\ overrides \in SUBSET Entries
  /\ stored = [k \in Keys |-> NoRow]
  /\ heard = [k \in Keys |-> <<>>]
  /\ tracked = [k \in Keys |-> NoRow]
  /\ noted = [k \in Keys |-> <<>>]
  /\ clash = FALSE
  /\ failed = FALSE
  /\ pc = "idle"
  /\ org \in Orgs
  /\ loaded = {}
  /\ cached = {}
  /\ records = 0
  /\ faults = 0

-----------------------------------------------------------------------------
(***************************************************************************)
(* The checks of one record                                                *)
(***************************************************************************)

\* DmarcAlignment: either mechanism the report evaluated passes.
IsAlignedPass(r) == r.dkimPass \/ r.spfPass

\* CurrentSpfResult: without an evaluation the row says None.
LiveSpf(r) == IF r.spf = "fails" THEN "None" ELSE r.spf

\* The first record that mentions a key, or else the first of all.
KeyRecord(txts) ==
  IF \E i \in DOMAIN txts : txts[i].mentions
  THEN txts[CHOOSE i \in DOMAIN txts :
              txts[i].mentions /\ \A j \in 1 .. i - 1 : ~txts[j].mentions]
  ELSE txts[1]

SelectorStatus(txts) ==
  IF txts = <<>> THEN "Missing"
  ELSE CASE KeyRecord(txts).key = "empty" -> "Revoked"
         [] KeyRecord(txts).key = "base64" -> "Valid"
         [] OTHER -> "ParseError"

\* StaleFlag of a DKIM result; without a selector or an answer there is none.
StaleFlag(d) ==
  /\ d.selector
  /\ ~d.fails
  /\ d.passed
  /\ SelectorStatus(d.found) \in {"Missing", "Revoked"}

DkimStale(r) == \E d \in r.signatures : StaleFlag(d)

\* The PTR host is set before its addresses are asked for.
HasReverseDns(r) == r.ptr \in {"forwardFails", "other", "confirmed"}
ForwardConfirmed(r) == r.ptr = "confirmed"

\* SenderOverrideMatcher: one entry matches by address or by organisation.
Matches(r, o, entries) ==
  \E e \in entries : Key[r.source] \in Network[e] \/ o \in Pattern[e]

-----------------------------------------------------------------------------
(***************************************************************************)
(* The row and its verdict                                                 *)
(***************************************************************************)
AtLeast(row, percent) == row.total > 0 /\ 100 * row.aligned >= percent * row.total

\* Variant with a mistake: a host name counts against the sender.
Verdict_HostSuspicious(row) ==
  IF row.allowed THEN "Verified"
  ELSE IF AtLeast(row, 95) /\ row.spf = "Pass" /\ ~row.stale THEN "Verified"
  ELSE IF AtLeast(row, 50) \/ row.spf = "Pass" \/ row.forward THEN "LikelyLegitimate"
  ELSE IF row.host THEN "Suspicious"
  ELSE "Unverified"

\* SenderLegitimacyEvaluator.Evaluate, its rules in order.
Verdict(row) ==
  IF row.allowed THEN "Verified"
  ELSE IF AtLeast(row, 95) /\ row.spf = "Pass" /\ ~row.stale THEN "Verified"
  ELSE IF AtLeast(row, 50) \/ row.spf = "Pass" \/ row.forward THEN "LikelyLegitimate"
  ELSE IF ~row.host THEN "Suspicious"
  ELSE "Unverified"

NewRow == [total |-> 0, aligned |-> 0, spf |-> "None", stale |-> FALSE,
           host |-> FALSE, forward |-> FALSE, allowed |-> FALSE,
           level |-> "Verified"]

\* Variant with a mistake: a record is counted for what passes only.
Refreshed_PassesOnly(row, r, allowed) ==
  [row EXCEPT !.aligned = IF IsAlignedPass(r) THEN @ + r.count ELSE @,
              !.spf = LiveSpf(r),
              !.stale = DkimStale(r),
              !.allowed = allowed,
              !.host = HasReverseDns(r),
              !.forward = ForwardConfirmed(r)]

\* The columns after one more record: volumes add up, the rest is replaced.
Refreshed(row, r, allowed) ==
  [row EXCEPT !.total = @ + r.count,
              !.aligned = IF IsAlignedPass(r) THEN @ + r.count ELSE @,
              !.spf = LiveSpf(r),
              !.stale = DkimStale(r),
              !.allowed = allowed,
              !.host = HasReverseDns(r),
              !.forward = ForwardConfirmed(r)]

\* Variant with a mistake: rated on the columns before the record.
Upserted_RatedFirst(row, r, allowed) ==
  [Refreshed(row, r, allowed) EXCEPT !.level = Verdict(row)]

Upserted(row, r, allowed) ==
  LET next == Refreshed(row, r, allowed)
  IN  [next EXCEPT !.level = Verdict(next)]

-----------------------------------------------------------------------------
(***************************************************************************)
(* The unit of work                                                        *)
(***************************************************************************)
Fault ==
  /\ faults < MaxFaults
  /\ faults' = faults + 1

Commit ==
  /\ ~clash
  /\ stored' = tracked
  /\ heard' = noted
  /\ failed' = FALSE
  /\ UNCHANGED <<tracked, noted, clash>>

\* SaveChanges throws: the rows stay tracked with their changes.
SaveThrows ==
  /\ IF clash THEN UNCHANGED faults ELSE Fault
  /\ failed' = TRUE
  /\ UNCHANGED <<table, tracked, noted, clash>>

\* The scope of the cycle is disposed of.
DropUnit ==
  /\ tracked' = stored'
  /\ noted' = heard'
  /\ clash' = FALSE
  /\ failed' = FALSE

-----------------------------------------------------------------------------
(***************************************************************************)
(* Ingestion                                                               *)
(***************************************************************************)
StartCycle ==
  /\ pc = "idle"
  /\ pc' = "open"
  /\ UNCHANGED <<overrides, table, unit, report, records, faults>>

\* The report's own rows are saved, then the overrides are read.
BeginReport(o) ==
  /\ pc = "open"
  /\ Commit
  /\ org' = o
  /\ loaded' = overrides
  /\ cached' = {}
  /\ pc' = "scoring"
  /\ UNCHANGED <<overrides, records, faults>>

BeginReportFails ==
  /\ pc = "open"
  /\ SaveThrows
  /\ UNCHANGED <<overrides, pc, report, records>>

\* Variant with a mistake: no reputationCache.
HasRow_Uncached(s) == stored[Key[s]] # NoRow

\* The lookup finds a row: in the cache, by the exact text, or in the table,
\* where the context answers with the row as it tracks it.  It never finds a
\* row that is tracked and not yet in the table.
HasRow(s) == s \in cached \/ stored[Key[s]] # NoRow

\* EvaluateSpfAsync, CheckDkimSelectorsAsync and UpsertSenderReputationAsync.
\* A second new row of the same key cannot be saved, and nothing with it.
Score(r) ==
  /\ pc = "scoring"
  /\ records < MaxRecords
  /\ r.source \in Parses
  /\ LET k == Key[r.source]
         allowed == Matches(r, org, loaded)
         old == IF tracked[k] = NoRow THEN NewRow ELSE tracked[k]
     IN  IF HasRow(r.source) \/ tracked[k] = NoRow
         THEN /\ tracked' = [tracked EXCEPT ![k] = Upserted(old, r, allowed)]
              /\ noted' = [noted EXCEPT ![k] =
                             Append(@, [record |-> r, allowed |-> allowed])]
              /\ UNCHANGED clash
         ELSE /\ clash' = TRUE
              /\ UNCHANGED <<tracked, noted>>
  /\ cached' = cached \cup {r.source}
  /\ records' = records + 1
  /\ UNCHANGED <<overrides, table, failed, pc, org, loaded, faults>>

\* A source that is no IP address: neither checked nor scored.
PassOver(r) ==
  /\ pc = "scoring"
  /\ records < MaxRecords
  /\ r.source \notin Parses
  /\ records' = records + 1
  /\ UNCHANGED <<overrides, table, unit, pc, report, faults>>

\* The lookup of a row fails: the message fails, its scores stay tracked.
LookupFails ==
  /\ pc = "scoring"
  /\ Fault
  /\ pc' = "open"
  /\ UNCHANGED <<overrides, table, unit, report, records>>

EndReport ==
  /\ pc = "scoring"
  /\ Commit
  /\ pc' = "open"
  /\ UNCHANGED <<overrides, report, records, faults>>

EndReportFails ==
  /\ pc = "scoring"
  /\ SaveThrows
  /\ pc' = "open"
  /\ UNCHANGED <<overrides, report, records>>

\* The save of the last mailbox, which takes along what failed messages left.
EndCycle ==
  /\ pc = "open"
  /\ ~clash
  /\ stored' = tracked
  /\ heard' = noted
  /\ DropUnit
  /\ pc' = "idle"
  /\ UNCHANGED <<overrides, report, records, faults>>

\* The save of a mailbox fails, which ends the cycle, or the process does.
CycleFails ==
  /\ pc # "idle"
  /\ IF clash /\ pc = "open" THEN UNCHANGED faults ELSE Fault
  /\ UNCHANGED table
  /\ DropUnit
  /\ pc' = "idle"
  /\ UNCHANGED <<overrides, report, records>>

\* An administrator inserts or deletes an entry in the database.
EditOverrides(e) ==
  /\ overrides' = IF e \in overrides THEN overrides \ {e} ELSE overrides \cup {e}
  /\ UNCHANGED <<table, unit, pc, report, records, faults>>

Next ==
  \/ StartCycle
  \/ \E o \in Orgs : BeginReport(o)
  \/ BeginReportFails
  \/ \E r \in Records : Score(r) \/ PassOver(r)
  \/ LookupFails
  \/ EndReport
  \/ EndReportFails
  \/ EndCycle
  \/ CycleFails
  \/ \E e \in Entries : EditOverrides(e)

Spec == Init /\ [][Next]_vars

-----------------------------------------------------------------------------
(***************************************************************************)
(* Properties                                                              *)
(***************************************************************************)
Notes == [record : Records, allowed : BOOLEAN]

\* Every variable keeps its type, and no row counts more aligned mail than mail.
TypeOK ==
  /\ overrides \subseteq Entries
  /\ loaded \subseteq Entries
  /\ stored \in [Keys -> Rows \cup {NoRow}]
  /\ tracked \in [Keys -> Rows \cup {NoRow}]
  /\ \A k \in Keys : stored[k] \in Rows => stored[k].aligned <= stored[k].total
  /\ \A k \in Keys : tracked[k] \in Rows => tracked[k].aligned <= tracked[k].total
  /\ heard \in [Keys -> Seq(Notes)]
  /\ noted \in [Keys -> Seq(Notes)]
  /\ clash \in BOOLEAN
  /\ failed \in BOOLEAN
  /\ pc \in {"idle", "open", "scoring"}
  /\ org \in Orgs
  /\ cached \subseteq Sources
  /\ records \in Nat
  /\ faults \in Nat

Aligned(notes) == {i \in DOMAIN notes : IsAlignedPass(notes[i].record)}

\* The messages that part of a history reports, one by one.
Mail(notes, part) == UNION {{i} \X (1 .. notes[i].record.count) : i \in part}

\* The documented rules, on everything a sender was ever scored from: rule 1
\* asks for 95 % of its mail to be aligned, a live SPF pass and no stale
\* selector; rule 2 for half of its mail, or an SPF pass, or confirmed DNS.
Documented(notes) ==
  LET last == notes[Len(notes)]
      all == Cardinality(Mail(notes, DOMAIN notes))
      good == Cardinality(Mail(notes, Aligned(notes)))
      passes == last.record.spf = "Pass"
      earned == passes /\ ~DkimStale(last.record) /\ all > 0 /\ 20 * good >= 19 * all
      likely == passes \/ last.record.ptr = "confirmed" \/ (all > 0 /\ 2 * good >= all)
  IN  CASE last.allowed \/ earned -> "Verified"
        [] ~(last.allowed \/ earned) /\ likely -> "LikelyLegitimate"
        [] ~(last.allowed \/ earned) /\ ~likely ->
             IF HasReverseDns(last.record) THEN "Unverified" ELSE "Suspicious"

\* A stored verdict is the documented one of the sender's whole history, however
\* the records came in: in one report or several, after saves that failed, under
\* a differently spelt address (UpsertSenderReputationAsync; the rules in the
\* comment of SenderLegitimacyEvaluator).
VerdictIsDocumented ==
  \A k \in Keys :
    IF heard[k] = <<>> THEN stored[k] = NoRow
    ELSE stored[k] # NoRow /\ stored[k].level = Documented(heard[k])

\* Two new rows of one sender never meet in a unit of work, unless a save had
\* failed or one report spells the address in two ways: what the comment on
\* reputationCache in ProcessMessageAsync is after.
RowsClashForCause ==
  clash => \/ failed
           \/ \E s, t \in cached : s # t /\ Key[s] = Key[t]

Rank == [l \in Levels |-> CASE l = "Suspicious" -> 0
                            [] l = "Unverified" -> 1
                            [] l = "LikelyLegitimate" -> 2
                            [] l = "Verified" -> 3]

\* An aligned record, with no check of it worse than the row already says.
GoodNews(note, row) ==
  /\ IsAlignedPass(note.record)
  /\ row.spf = "Pass" => note.record.spf = "Pass"
  /\ DkimStale(note.record) => row.stale
  /\ row.host => HasReverseDns(note.record)
  /\ row.forward => note.record.ptr = "confirmed"
  /\ row.allowed => note.allowed

\* Good news never lowers a sender's verdict (the thresholds and the order of
\* the rules in SenderLegitimacyEvaluator.Evaluate).
GoodNewsNeverLowers ==
  [][\A k \in Keys :
       /\ noted'[k] # noted[k]
       /\ records' # records
       /\ tracked[k] # NoRow
       /\ GoodNews(noted'[k][Len(noted'[k])], tracked[k])
       => Rank[tracked'[k].level] >= Rank[tracked[k].level]]_vars
=============================================================================
