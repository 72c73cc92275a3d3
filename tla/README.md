# Verification of the DMARC analyzer

This directory models the DMARC analyzer in TLA+. The models are translated
from the C# sources under `src/src/` and the scripts of the pages; TLC checks them on small instances, and
the theorems in the `*_proofs` modules are checked by TLAPS for every value of
their constants. `PROJECT.json` lists, for each definition, the lines it
stands for; for each property, a mistake in the code that would break it; and
the hazards the properties were written for.

    tlc -config Polling.cfg MCMailboxPolling.tla
    tlapm MailboxPolling_proofs.tla

## 1. The system

One process (ASP.NET Core) with two background services and a set of pages,
over one SQL database, Microsoft Graph and DNS. The documentation expects one
instance (NFR-REL-3, `src/docs/technical-specification.md:480`), and so do the
models: two instances are not considered.

| Component | State it keeps | Operations | Talks to |
|---|---|---|---|
| Mailbox polling (`MailboxPollingService`) | delta link and poll status per mailbox; ledger of processed messages; the unit of work of a cycle | a poll cycle over the active mailboxes | Graph (delta listing, attachments), the pipeline, the database |
| Ingestion pipeline (`DmarcReportIngestionPipeline`) | report, record and sender rows | process one message: extract, parse, save the report, check and score its records, save again | extractor, parser, SPF evaluator, DKIM checker, DNS, the database |
| Sender scoring (`UpsertSenderReputationAsync`, `SenderLegitimacyEvaluator`, ...) | one row per domain and source IP: volumes, latest checks, verdict | score one record | DNS, allowlist rows |
| SPF evaluator (`SpfEvaluator`) | lookup counter, recursion | evaluate a domain's record for an address | DNS |
| Retention purge (`RetentionPurgeService`) | window, last purge | a daily run in batches | the database |
| Graph connection page, secret store, client factory | settings row, secret row, tracked settings of a cycle | post credentials; build a client | Graph, the database or Key Vault |
| Setup gate and wizard pages | a process-wide latch; domains, mailboxes, mappings, window | check; add and remove | the database |
| Attachment extractor, XML parser, enum mapper | none | pure | the pipeline |
| Dashboards, chart data, ingestion status | none | read only | the database |
| Sortable tables (`sortable-table.js`) | order of the rows and mark of each header, in the page | click on a header | the rendered table |
| Client-side form validation (`jquery.validate.unobtrusive.js` over `jquery.validate.js`) | rules, verdicts, pending remote checks of a form | parse, type, leave, submit, reset, answer | the server (remote checks) |
| Startup, sign-in, headers | none | migration with retries | the database |

What the components share is the database, and, within a poll cycle, one Entity
Framework context: rows that were added or changed stay pending in it until
*some* later `SaveChanges` commits all of them, whichever message they came
from. Most of what is hard in this program follows from that:

- A message is saved in three steps that are three transactions: its report
  (`DmarcReportIngestionPipeline.cs:74`), its scores (`:92`), and its ledger row
  with whatever is saved next. The delta link is saved last
  (`MailboxPollingService.cs:98`). A crash, a failed save or one whose
  acknowledgement is lost can fall between any two of them.
- A row the database refuses stays pending and makes each later save fail.
- Exceptions are filtered by type; a timeout is an `OperationCanceledException`.
- Pages and services change the same rows at the same time (settings, domains,
  window) with no transaction around more than one save.
- The SPF records of other people may include each other in circles.
- Each request asks four tables, one after the other, whether the setup is complete,
  and writes the result to one process-wide flag without a lock.
- In a page, answers of the server arrive after the user has typed on, submitted or
  reset the form.

What makes each component correct: no report is lost and no verdict precedes
what it claims (polling); each stored verdict is the documented one of the
sender's whole history (scoring); one result that RFC 7208 and FR-SPF-2 to -6
describe, after a bounded number of lookups (SPF); all that is out of the window
goes, nothing else, and the count says so (purge); what is stored is a pair that
was validated as a pair, and the poller uses it (Graph connection); nobody gets past
the gate, or is turned away from it, without a cause in the database (setup gate);
rows stand as all the clicks so far asked (tables); a form that is sent obeys its
attributes and the messages say what is wrong (forms).

## 2. The modules

| Module | What it is |
|---|---|
| `MessageLedger` | abstract: what ingestion promises about messages |
| `MailboxPolling` | poll cycle and database part of the pipeline; implements `MessageLedger` |
| `SenderScoring` | the rows of the senders of one domain |
| `SpfEvaluation` | recursive SPF evaluation over a changing DNS |
| `SpfCidr` | the bytewise network test of the evaluator, as operators |
| `SpfRules` | abstract: what a record comes to, as inference rules |
| `RetentionPurge` | the purge beside ingestion, domain removal and changes of the window |
| `GraphConnection` | the two saves of the setup page beside the poller's reads |
| `SetupGate` | requests, checks and the latch beside the wizard's pages |
| `SortableTable` | the tables of a page and the clicks on their headers |
| `UnobtrusiveAdapters` | from the attributes of a field to its rules, as operators |
| `FormValidation` | a form, its validator and the remote checks under way |
| `MC...` | the instances for TLC, with reference definitions where a property needs one |
| `..._proofs` | theorems and their proofs |

Definitions named `X_Something` next to `X` ("variant with a mistake") are not
part of any specification. They are the mistakes that `PROJECT.json` substitutes
for `X` to see the property fail.

### MailboxPolling

`feed` is what Graph's delta query knows of, `deltaLink` how much of it a mailbox
has consumed. `reports`, `rolled`, `senderRows` and `ledger` are the committed
rows; the variables `new...` and `poisoned` are the unit of work. `pc` names the
await the service stands at: `list`, `loop`, `fetch`, `save1`, `score`, `save2`,
`finish` follow `PollOnceAsync`, `PollMailboxAsync`, `ProcessSingleMessageAsync`
and `ProcessMessageAsync` from top to bottom. Each await can go on, throw, be
cut off by a stop of the process, or commit without the service knowing
(`SaveUnacknowledged`, `FinishUnacknowledged`). What a message holds (`Content`)
and which of its rows the database refuses for good (`Rejected`) are constants.
A message of `Content` "report" has the source of each of its records in `Records`, as the
report spells it. Two spellings of one IPv6 address are two `Sources` with one `Key`: the
cache of a message (`cached`, the code's `reputationCache`) compares spellings, the table and
its unique index compare keys. A report with both spellings therefore adds two new rows of one
key, which no save can commit: it poisons the unit of work like a row that is refused for good,
and its mailbox makes no progress while the row is new. How records are scored is
`SenderScoring`'s subject.

An approximation: mailboxes and the messages of a batch are taken in any order,
where the code follows the order of the query and the listing; this adds
behaviours and takes none away.

### SenderScoring

Here the columns of a sender row matter. `stored` is the table, `tracked` the
rows as the context would commit them; `heard` and `noted` are history: the
records from which the stored and the tracked row of a sender were made. `Score`
is one record: the live SPF result, the staleness of its DKIM selectors, reverse
DNS, the allowlist as loaded at the start of the report, the volumes and then
the verdict. It is one action because nothing else writes these rows and each
check of a record is caught on its own; what can go wrong between records is
`LookupFails`, the failing saves and `CycleFails`. A key is what the unique
index tells apart: it ignores the case of IPv6 digits and `reputationCache` does
not, hence `Sources`, `Key` and `clash`. A DNS answer belongs to the record in
the model (`Records` is a set of records *with* what DNS says about them).

### SpfEvaluation, SpfCidr and SpfRules

`frames` is the stack of `EvaluateDomainAsync`, innermost call first; `count` is
the `LookupCounter` that all calls share; a step runs from one DNS query to the
next. DNS may answer with an error, which the resolver hands on as "no record",
may throw, and may change between two queries; `Unsteady` bounds the zones in which
it does. Addresses are sequences of bytes of `ByteBits` bits, and a term carries its
network or host with its prefix, so that `IsInCidr` decides as in the code, byte by
byte. The length of an address is its family, `Ip4Bytes` or `Ip6Bytes`. What the code
decides by family and what by name is kept apart: `ip4` and `ip6` take any network, and
without a prefix the default goes by the *name* of the mechanism (`DefaultPrefix`,
`SpfEvaluator.cs:162`), so that `ip4:` with an IPv6 address spans a /32; `a` and `mx` resolve
A or AAAA records by the family of the sender, `exists` always A records (`:217`). A zone has
both. The reference definition of `MCSpfEvaluation` compares addresses as numbers.
`exhausted` is history and not in the code.

`SpfRules` says what a record comes to in a form that can be proved about: `Comes` derives
a verdict on a record from the verdicts known on others, and `Follows` holds of what every set of
verdicts closed under `Comes` contains, which is what finitely many derivations reach; a circle
derives nothing by itself, only through the limit on lookups. The ASSUME of
`MCSpfEvaluation` has TLC confirm that the rules and its reference definition are the same.

### RetentionPurge

One step per statement: read the settings, select a batch, delete it, save the
count. Beside it reports arrive (late ones expired already), domains come and
go with a cascade on their reports, the window changes, and days pass. `atStart`
and `purged` are history. A report stands for its row and the child rows.

### GraphConnection

One step per query or save of a post: validate, store the secret (find, then
insert or update), store the settings (find, then insert or update what
differs). Two posts may overlap and both find no row. The poller builds a client
per Graph call from a settings row its context remembers for the whole cycle and
a secret it reads anew. `alone` and `quiet` are history.

### SetupGate

One step per query of `IsSetupCompleteAsync`, one for the assignment of its result to
`_setupComplete` (`SetupGateMiddleware.cs:25`) and one for reading it again (`:26`), in
any number of requests at once. A page of the wizard saves in one step; of the rows it
matters which are there, so the links between mailboxes and domains are left out except
that a mailbox is saved with at least one domain that exists, and a removal that a
foreign key refuses is a step that does not happen. Two things that one might expect do
not hold and are not claimed: the latch, which the comment at `:13` calls never
re-checked, is turned off again by an older check that returns late; and the four
queries are no snapshot, so the parts need not have been there at one moment. What does
hold is stated with the history variables `seen` (parts that had a row since the process
started) and `doubt` (the setup was incomplete during the checks under way).

### SortableTable

`place` is the position of each row in the body, `mark` the `data-sort-dir` of each
header. `Click` reads the mark, rewrites all of them and sorts the rows as they stand.
`Array.prototype.sort` is taken by its contract: stable for a consistent comparison,
any order for an inconsistent one (`Sortings`). `asked` is history: all clicks so far.
Texts are told apart by what the script makes of them, the number `parseFloat` reads
and the rank of `localeCompare`.

### UnobtrusiveAdapters and FormValidation

`UnobtrusiveAdapters` has one operator per adapter of `jquery.validate.unobtrusive.js`.
`FormValidation` keeps the form in one record: `options` are the rules that were parsed,
`settings` the copy the validator checks by, `previous` and `request` the last remote
check of each field. Every event of the page runs to its end, as events do in a browser;
what interleaves is the user (`Edit`, `Blur`, `Submit`, `OnReset`), scripts (`AddField`)
and the server (`Answer`, `RequestFails`). `Element` and `Form` are the two ways the
validator checks; each of them checks, then shows. A check passes over a field without rules, and over
an empty one whose only rule is met because it may be empty (`MayBeEmpty`, the methods that
answer "dependency-mismatch"): an unticked required checkbox, whose only rule is `__dummy__`,
is not passed over, and a message the server had put there goes. Of the fields that repeat
another one, the first to be checked registers the handler that checks it when that other one
is left (`watched`, `NewlyWatched`). A failed request calls no handler and
stays pending for ever, which is what the code does.

The pages of the application render `data-val` attributes, but none of them includes
`_ValidationScriptsPartial`: the scripts are part of the repository and are modelled for
forms such as ASP.NET renders (`MCFormValidation`), not for a page of this application.
Four more pages in that module show limits of the library, and the run leaves them out.
With any of `late`, `twice` and `lower` the property `OnlyValidFormsAreSent` is refuted:
the rules of a field parsed late never reach the validator, of two attributes that make one
rule the later wins, and a lower bound alone is compared as a string. With `served` it is
`RefusalIsExplained`: the server has put a message at a field without `data-val` attributes,
which no script checks, so that the message stays and the summary of a refusal does not name
it. The predicates `Ordinary` and `RefusedAreParsed` say what these pages lack, and the
ASSUME of `MCFormValidation` has TLC confirm that each of the four lacks it and that the
pages of the run do not.

## 3. The runs

| Run | Shows | Bounds |
|---|---|---|
| `polling` | With any two faults: no message is lost, a Success is backed, volumes are backed by reports, duplicates need faults, `MessageLedger` is implemented (so verdicts are final), every message is settled | 1 mailbox, 2 reports that share a sender (3 and 1 records), 3 changes, 2 faults |
| `polling_two_mailboxes` | Volumes are backed by reports, and two new rows of a sender meet only for two spellings in one report, although one unit of work serves two mailboxes, listings repeat messages and a verdict is refused for good | 2 senders in 3 spellings, one report with two of them; 4 messages of 4 kinds, each listed at most twice, 1 fault, 2 report rows per message |
| `polling_blocked` | *Violation.* A report that is refused for good keeps a healthy message from ever being settled | 2 messages, no fault |
| `polling_duplicates` | *Violation.* One crash is enough for two report rows of a message | 1 message, 1 fault |
| `polling_timeout` | *Violation.* A Graph timeout ends the hosted service | 1 message, 1 fault |
| `sender_scoring` | Each stored verdict is the documented one of the sender's history; two new rows of a sender meet only after a failed save or two spellings in one report; good news never lowers a verdict | 3 records out of 9 in any grouping, 3 senders, 2 allowlist entries, 1 fault |
| `spf` | The evaluator returns result, mechanism and lookup count of a recursive reference definition, which is the one that `SpfRules` gives; recursion stays within the counter, a refused lookup is fatal, evaluations end | records of up to 3 terms out of 12 beside a second domain of at most 1 term; every network of 1 byte (IPv4) and 2 bytes (IPv6) of 3 bits, under `ip6` with every prefix from -1 to 7, absent and unreadable, under `ip4` with none and one inside the second byte, alone; `exists`, `a` and `mx` over a domain with AAAA records only and one with both; circles of includes, redirects and mx over 2 domains with 1 error or change; 2 lookups |
| `purge` | A finished run left nothing due, counted its own rows, kept a changed window; what is expired goes in the end | 4 reports, batches of 2, 4 days, 4 changes, 1 fault |
| `graph_connection` | Settings never stand without a secret, an undisturbed post stores its pair, quiet cycles use matching credentials, a rotation arrives | 3 posts, 2 at a time, 2 calls per cycle, 1 fault |
| `setup_gate` | Nothing passes the gate before every part was there, nothing is redirected without doubt about the setup, and the gate stays open in the end once the setup stays complete | 3 requests, 1 domain, 1 mailbox, added and removed without bound, 1 aborted check or restart |
| `sortable_table` | Arrow and rows are what all clicks so far asked for | 2 tables and one without a body, 4 clicks, ties, missing cells and texts without a number |
| `form_validation` | Only forms that obey their attributes are sent, messages and summary are true, a submit is answered unless a request is lost | 4 pages with 2 to 5 fields (lengths; numbers and a checkbox; a password repeated twice; two remote checks), some with a message of the server at first, 4 changes, 1 lost request |

Why the bounds are enough to be of interest. Polling: a second message lets one
message's leftovers be committed with another's; a sender occurring twice in a
report and in both reports exercises the cache, the pending and the stored row; a
second fault hits the recovery from the first. Scoring: counts of 1 and 19 meet
95 % and 50 % exactly and miss them by one message; three records allow a row that
is new, found and cached. SPF: three terms put a term before and after each
include, and a limit of two is reached inside and outside of it; only one address is
checked, <<5, 2>> of the longer family, against networks of both families with bits set past
each prefix. Setup gate: with
three requests one check can be overtaken by a second that a third has overtaken.
Tables: the second click on a column turns it round, the third and fourth show what
earlier ones left in the ties. Forms: four changes are a wrong value, its correction, and
two more while a check is pending. Purge: four
reports in batches of two need a second full batch and a last one, two of them
share their day. Graph: three posts give two that overlap after one that failed.
`MaxFaults`, `MaxFeed`, `MaxReports`, `MaxRecords`, `MaxChanges`, `MaxPosts`,
`MaxCalls`, `MaxDay`, `MaxClicks`, `MaxEdits`, `MaxFailures` and `Unsteady` exist only to keep TLC's state space finite.
`polling_two_mailboxes` turns the deadlock check off because at `MaxReports` the
poller stops by that bound, `form_validation` because a form that was sent ends its page.

### Findings

Three runs end in a counterexample on purpose; each holds a statement of the
repository against the code.

1. `polling_duplicates`: a report is ingested twice after a crash, against
   "never re-processed" (`ProcessedMessage.cs:3`) and FR-ING-4.
2. `polling_blocked`: one refused row blocks its mailbox for good, against the
   comment at `MailboxPollingService.cs:101` and FR-ING-4.
3. `polling_timeout`: a timeout passes the filters meant for a shutdown, against
   NFR-REL-2.

Further disagreements are noted as hazards: the settings row that a poll cycle remembers
beside a secret it reads anew (`GraphClientFactory.cs:12` says built fresh per call), the
latch of the gate that is turned off again (`SetupGateMiddleware.cs:13`), an SPF result or a DKIM flag that is
reset by a record without one, MX exchanges that are resolved without a limit, a
TempError that is never produced.

### Fairness

Liveness is checked under weak fairness of the program's own steps and of
nothing else: faults, mail, administrators and DNS changes are never forced.

- Polling: `WF(Work)`, the steps of the cycle including the tick of the timer
  and the save that fails because of what is pending, and `WF(Restart)`, the
  host that starts a stopped process again. A failed query is not in `Work`; it
  is bounded by `MaxFaults`, that is, faults cease in the end.
- SPF: `WF(Step)`: an awaited query returns.
- Purge: `WF(PurgeStep)`, `WF(Tick)`, `WF(Restart)`, for the same reasons.
- Graph connection: `WF(Handle(q))` for each open request, `WF(Poll)`.
- Setup gate: `WF(Check(r))`: a request that was let in is worked on. Nobody has to come.
- Form validation: no remote check is under way for ever, it is answered, fails or makes
  way for another one. `Answer` is enabled as long as there is a request, so this is no
  stronger than weak fairness of the server's answer.
- Sender scoring and the sortable tables have no liveness property.

## 4. What is proved

All theorems hold for every value of the constants that satisfies the named
`ConstantsAssumption` of the module; the bounds may be any natural numbers. Seven of them
have a further hypothesis, stated in the theorem and explained below: three of
`MailboxPolling_proofs` (`PlainMail` twice, finite sets of mailboxes and messages once),
three of `FormValidation_proofs` (`Ordinary` twice, `RefusedAreParsed` once) and `NetworksArePrefixes`
(bytes of at most 8 bits).

**MailboxPolling_proofs.** `TypeCorrect`, `MessagesNeverLost`,
`SuccessIsCounted`, `SpellingsClash`, `LedgerImplemented`, `CountsAreBacked`,
`DuplicatesAreFaults`, `FaultFreeIsExact`, `CyclesEnd`. No message is
lost because of `LinkInv`: a message with attachments that the new delta link
would pass is still in the batch, is being processed, has a pending ledger row or
has a saved one, and the link is committed in one transaction with the pending
rows. `NoMessageLost` alone says nothing of the batch and is not inductive. That a
Success is counted rests on `CountInv`, which ties `rec` and `rolled + newRolled`
to the record being scored and also says of a *pending* Success that its report
and its scores are saved. `SpellingsClash` comes from the same invariant: while a report is
scored, each new row of the unit of work was made for an earlier record of that report, whose
spelling is in the cache (`Looked`). So it holds of all mail, and only the two spellings in one
report that the code does not expect are left as a cause.
The refinement maps verdict, copies and passed to ledger, reports and `Passed`;
each commit is a step of the ledger, all else stutters.

That volumes are backed by report rows needs `BackedInv`: a unit of work that can still be
committed keeps the bound, and while a report is being scored the bound leaves room for each
record not counted yet. A poisoned one may hold anything, for it is never committed.
Duplicates are faults because of `RepeatsInv`, where each report row of an undecided
message, and each but the first of a decided one, is billed to a fault of its own; one
undecided message may have one row free, until its verdict is committed. Rows are numbered,
so that this is a statement about cardinalities of sets. `ExactInv` adds that without a fault
nothing is left pending. Both theorems assume `PlainMail` (`MaxListed = 1`,
`Rejected = {}`, and no report that spells a sender in two ways): a message that Graph lists
again while it is in work, a row that is refused for good, and two rows of one sender that
clash, are ways to a report stored without its scores or stored twice, which need no fault at
all.

`CyclesEnd` is the part of `EveryMessageSettled` that needs no fairness: within a cycle each
step of the service, failing ones included, lowers five numbers in lexicographic order
(mailboxes left, stage of the poll, what is left of the listing, stage of the message, records
left to score). Mail that arrives meanwhile raises none of them, because a cycle works on the
listing it fetched; so with finitely many mailboxes and messages no cycle is endless.

**SenderScoring_proofs.** `TypeCorrect`, `ClashHasCause`, `GoodNewsHelps`,
`VerdictFollowsTheRules`. The
second needs `NewRowIsCached`: a row that is tracked and not stored was made
under a text that is still in the cache, unless a save failed. The third needs
that each tracked level is the verdict of its own row (`RatedInv`) and
`VerdictMonotone`: adding n to both volumes keeps a ratio above its threshold,
and no better column moves a row to a lower rule. The fourth holds a row against the
history it was made from (`HistoryInv`): its volumes are those of all its records
and its other columns those of the last, so that its level is what the documented rules
give for that history, whichever of its saves failed.

**SpfEvaluation_proofs.** `TypeCorrect`, `RecursionIsBounded`,
`RefusedLookupIsFatal`, `EvaluationDescends`, `VerdictFromRules`, `NetworksArePrefixes`.
Every frame but the first was pushed by a counted lookup,
so depth is at most count + 1; the invariant counts a call from the moment it is
made. A refused lookup is PermError in the frame at hand, and each way back
through an include or a redirect hands PermError on.

`EvaluationDescends` is the part of `Terminates` that needs no fairness: each step of an
evaluation makes a tuple of numbers smaller (lookups left, frames, whether the record is still
to be fetched, terms left, the phase of the call, exchanges left; compared in this order), however
DNS changes meanwhile, and nothing descends for ever in that order. So no records, of whatever
size and however they refer to each other, keep the evaluator busy for ever.

`VerdictFromRules` says that over a DNS without faults, and for any records, terms, addresses
and limit, the verdict of an evaluation that ends, with its mechanism and its lookup count, is the
one and only verdict that follows from the rules. That it follows rests on `RulesInv`: take
any verdicts closed under the rules; each call on the stack has passed over the terms behind it by rules
that start from them (`Reached`), with one lookup more than its caller had spent, so what it returns
is among them too, and its caller may use it. That nothing else follows is `FollowsOnce`, in
which the evaluator plays no part: two derivations read a record in step (`Lockstep`, an
induction over its terms), and the verdicts without a rival are closed under the rules, so that there
are no others. Inductions over sets of numbers are cited from the library as "every set of
numbers has a least one" (`LeastNatural`), which takes no operator as a parameter.

`NetworksArePrefixes` is about `IsInCidr`, which compares whole bytes and then one masked
byte, after it has clamped the prefix: it holds just when the two addresses are of one
family and agree in as many first bits as the clamped prefix says, for any prefix, negative and
too long ones included. Bits are those of the numbers that the bytes are (`BytesAreNumbers`,
`FirstBits`: high bits agree just if the quotients by a power of two do).

**RetentionPurge_proofs.** `TypeCorrect`, `RunIsComplete`, `CountIsExact`,
`WindowIsTheAdministrators`, `NothingElseGoes`, `OldestGoFirst`, `RunsEnd`. The second rests on `JobInv`: a batch that is not full holds all that is
due, so that deleting it leaves nothing, and rows that vanish meanwhile take
nothing away from that; the third on `CountInv`: purged rows stay gone since
ids are not used again. The next says that the two columns the run writes leave the
window alone that an administrator changed meanwhile.

The last three say what a run may do on its way. A report goes only with its domain or because
it was older than the window that the run had read (`CutoffInv`: the cutoff of a run is no later than
that window allows on any later day). A report that was there at the start and still
is, is never older than one that is gone (`OldestInv`, which says the same of the batch in hand). And
a run ends: four times the reports that may still arrive, twice those stored or in the batch,
and the place in the loop add up to a number that no step of anyone raises and each statement of
the run lowers. These three have no run of their own; the property of the runs nearest to each
is `RunFinishesTheJob`, `CountIsHonest` and `ExpiredIsPurged`.

**GraphConnection_proofs.** `TypeCorrect`, `SettingsHaveSecret`,
`LonePostIsWhole`, `QuietCyclesMatch`, from `SecretInv` (a request past its first
save leaves a secret), `AloneInv` (what the database holds at each step of a post
nothing overlaps) and `QuietInv` (nothing changes during a quiet cycle). `RotationIsRead` is
the part of `RotationArrives` that needs no fairness: with no post open the next cycle
forgets the settings an older one remembered, what is at rest stays so until the next post, and
every client built meanwhile is built from the stored pair.

**SetupGate_proofs.** `TypeCorrect`, `GateIsJustified`, `RedirectIsJustified`,
`GateClosesForCause`, for any number of requests. The second rests on `OpenInv`: each query that has found a row leaves
its part in `seen`, so a check that concludes well, the latch, and a request that passed
each have their cause. The third rests on `DoubtInv`: while a check is under way an
incomplete setup, a bad result and a closed latch that is about to be read all imply
`doubt`. The fourth follows from it too: the latch is turned off, against the comment at
`SetupGateMiddleware.cs:13`, but never without a restart or such a doubt; complete answers
cannot close the gate in whatever order they come. That is the safety half of `GateSettles`.

**SortableTable_proofs.** `TypeCorrect`, `ArrowIsTrue`, `RowsStandByTheClicks`, for any
tables, cells and clicks: a stable sort of rows that stand by the earlier clicks leaves
them standing by the new click first.

**FormValidation_proofs.** `TypeCorrect`, `RefusalsAreExplained`, `OnlyValidFormsGo`,
`MessagesTellTheTruth`, `WaitsForAnAnswer`. A form has eighteen fields and an event of the page may change most
of them, so the proof goes by moves: `StepIsMoves` shows that each event is one or two
moves of a few kinds (a value is edited, some fields are checked, an answer is taken in, the
form is reset or sent, ...), each described by what it may change, and each part of the invariant is
preserved by each kind. `TypeCorrect` includes that `pendingRequest` counts the fields in
`pending` and that a request under way is one of them, on any page whatever.

That only valid forms are sent rests on `SentInv`. A form is sent in one of two moments:
in a check that finds every field right, or in the last answer the form waits for.
Either way every field of the form is checked by every rule it has (`Full`), with the
values that stand in it then, and a verdict that is remembered is the server's on the values
it is remembered with (`Requests`). `AdapterMeans` is the other half, one lemma per adapter: a rule
that is met is an attribute that is obeyed. For the messages, `Truth` says the same of each
field that was checked with the value it has now, in both directions; `__dummy__` is needed
there, as the check passes over an empty field whose only rule is met because it may be
empty. It holds of fields with a message of the server, too, from their first check on.

Two hypotheses limit what is claimed. `Ordinary` describes the attributes ASP.NET renders:
names in them are those of fields, bounds are numbers, a range has both of them, the
non-alphanumeric characters a password has to have are not zero, no two
attributes of a field make one rule, and a field that a script adds has none.
`RefusedAreParsed`, which only `RefusalsAreExplained` needs, says that the server puts its
messages at fields with `data-val` attributes. Without each of them a page in
`MCFormValidation` refutes the property, see section 2. `TypeCorrect` and `WaitsForAnAnswer` need neither.

`WaitsForAnAnswer` is the part of `SubmitIsAnswered` that needs no fairness. A form that
waits has `formSubmitted` set and a pending field, whose answer is to come or was lost
(`WaitInv`, on top of the count that `TypeCorrect` is about); every event but an answer leaves
it so, a reset and a refused second submit among them, and the answer that ends the wait sends or
refuses the form. `formSubmitted` alone does not mean a wait: it stays set when the last
answer finds the form wrong.

## 5. What is only model-checked

Every invariant and action property of the passing runs is the statement of a theorem,
except:

- Liveness (`EveryMessageSettled`, `Terminates`, `ExpiredIsPurged`,
  `RotationArrives`, `GateSettles`, `SubmitIsAnswered`): fairness and ENABLED are beyond the
  prover. Of each, the part that needs neither is proved: `CyclesEnd`, `EvaluationDescends`
  and `RunsEnd` say that work that goes on comes to an end, which for `Terminates` is all but
  that the next step is taken; `RotationIsRead`, `GateClosesForCause` and `WaitsForAnAnswer`
  say what can put the goal off or lose it. That another cycle or run follows, and that
  faults cease, only the runs show.
- `MatchesReference`, which compares the evaluator with a RECURSIVE reference
  definition, which the prover does not take. `VerdictFromRules` proves the same of the
  inference rules, and that the two agree is checked on the records of `RulesAgree`: every
  term alone, includes and redirects beside a second domain, and circles. The rules take the network test from
  `SpfCidr`, of which `NetworksArePrefixes` proves that it compares first bits; that the
  reference, which compares whole addresses as numbers, says the same is checked on all networks
  of the run.

## 6. What is not modelled

- *Attachment extraction and XML parsing*: they enter as `Content`. Planned as
  operators where defaults, refusals and the byte limit matter.
- *Key Vault*: a single external call per operation.
- *Dashboards, chart data, ingestion status*: read only.
- *Startup, sign-in, headers*: wiring; the migration retry is planned.
- *Deployment, infrastructure code, the SQL grant tool*: no part of the running
  program.
- *Rows shown to the user only* (SPF evaluations, selector checks, time stamps):
  left out of `SenderScoring`; so are base64, TXT tags other than p, and the
  rounding of doubles, which agrees with fractions below 2^50.
- *Forms*: the adapters `extension`, `accept`, `fileextensions` and `creditcard` (their
  methods are in a file the repository does not have; checking such a field throws),
  validation attributes of HTML itself, hidden and disabled fields, radio buttons, text
  that is pasted without a key, submit buttons that cancel validation, the text of messages
  and `data-valmsg-replace`, `parseElement` called by itself.
- *Charts* (`chart.umd.js`, vendored and minified) and `site.js` (comments only).
- *Several instances of the process*: see NFR-REL-3.

## 7. Plan

In order of what matters most to a user of the system:

1. Done: polling and ingestion, the abstract ledger, SPF, the purge, the Graph
   connection, sender scoring, the setup gate, sortable tables, form validation; their types
   and all their safety properties proved, that of `MatchesReference` by rules, and of each
   liveness property the part that needs no fairness.
2. Composition of `MailboxPolling` with the administrator (mailbox removed or added,
   domain removed) and the purge, over the foreign keys of the schema: the poller's final
   save updating a mailbox that is gone, a report purged between its two saves, two adders
   of one domain. It takes the place of `polling_two_mailboxes`.
3. `SenderScoring` against the column comments of `SenderReputation.cs:26` and `:29`;
   negative counts together with the parser.
4. Extraction and parsing as operators, with reference definitions.
5. Startup: the migration loop.
