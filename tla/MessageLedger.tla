---------------------------- MODULE MessageLedger ----------------------------
(***************************************************************************)
(* What mailbox ingestion promises about messages, without saying how a    *)
(* poll cycle works.  Every message gets at most one verdict, the verdict  *)
(* is final, a report row is only ever written for a message without a     *)
(* verdict, and the delta token of a mailbox moves past a message that has *)
(* attachments only once that message has a verdict.                       *)
(*                                                                         *)
(* One step commits one database transaction: any number of verdicts and   *)
(* report rows, and possibly a new delta token, become durable together.   *)
(***************************************************************************)
EXTENDS Naturals

CONSTANTS
  Messages,         \* Graph messages
  WithAttachments,  \* the messages whose HasAttachments is true
  Verdicts,         \* MessageProcessingStatus
  None              \* no verdict yet

VARIABLES
  verdict,  \* the status of the ProcessedMessage row of a message, or None
  copies,   \* how many DmarcAggregateReport rows a message has
  passed    \* the messages the persisted delta token has moved past

vars == <<verdict, copies, passed>>

Init ==
  /\ verdict = [m \in Messages |-> None]
  /\ copies = [m \in Messages |-> 0]
  /\ passed = {}

\* A message with a verdict keeps it, and gets no further report row.
VerdictsAreFinal ==
  \A m \in Messages : verdict[m] # None =>
    /\ verdict'[m] = verdict[m]
    /\ copies'[m] = copies[m]

\* Success is recorded no earlier than the report it claims.
SuccessIsBacked ==
  \A m \in Messages :
    verdict[m] = None /\ verdict'[m] = "Success" => copies'[m] > 0

\* The delta token only moves past messages that owe nothing any more.
PassedAreSettled ==
  \A m \in (passed' \ passed) \cap WithAttachments : verdict'[m] # None

Commit ==
  /\ verdict' \in [Messages -> Verdicts \cup {None}]
  /\ copies' \in [Messages -> Nat]
  /\ passed' \in SUBSET Messages
  /\ \A m \in Messages : copies'[m] >= copies[m]
  /\ passed \subseteq passed'
  /\ VerdictsAreFinal
  /\ SuccessIsBacked
  /\ PassedAreSettled

Next == Commit

Spec == Init /\ [][Next]_vars
=============================================================================
