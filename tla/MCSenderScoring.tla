-------------------------- MODULE MCSenderScoring --------------------------
(***************************************************************************)
(* Instances of SenderScoring for TLC.                                     *)
(***************************************************************************)
EXTENDS SenderScoring, TLC

CONSTANTS lower, upper, host, garbage, v6, v4, other, o1, o2, e1, e2

\* lower and upper spell one IPv6 address.
MCKey == lower :> v6 @@ upper :> v6 @@ host :> v4 @@ garbage :> other
MCNetwork == e1 :> {v4} @@ e2 :> {}
MCPattern == e1 :> {} @@ e2 :> {o2}

Txt(m, k) == [mentions |-> m, key |-> k]
Signature(passed, selector, fails, found) ==
  [passed |-> passed, selector |-> selector, fails |-> fails, found |-> found]

Valid == Signature(TRUE, TRUE, FALSE, <<Txt(FALSE, "absent"), Txt(TRUE, "base64")>>)
Revoked == Signature(TRUE, TRUE, FALSE, <<Txt(TRUE, "empty")>>)
Missing == Signature(TRUE, TRUE, FALSE, <<>>)
Misread == Signature(TRUE, TRUE, FALSE, <<Txt(TRUE, "absent"), Txt(TRUE, "empty")>>)
Unanswered == Signature(TRUE, TRUE, TRUE, <<>>)
Unnamed == Signature(TRUE, FALSE, FALSE, <<>>)
Broken == Signature(FALSE, TRUE, FALSE, <<>>)

Rec(source, count, dkim, spf, live, signatures, ptr) ==
  [source |-> source, count |-> count, dkimPass |-> dkim, spfPass |-> spf,
   spf |-> live, signatures |-> signatures, ptr |-> ptr]

\* Volumes of 1 and 19 meet both thresholds exactly and miss them by one.
MCRecords ==
  {Rec(lower, 1, FALSE, FALSE, "Fail", {Broken}, "noHost"),
   Rec(lower, 19, TRUE, FALSE, "Pass", {Valid}, "confirmed"),
   Rec(lower, 1, TRUE, FALSE, "Pass", {Valid, Revoked}, "fails"),
   Rec(lower, 0, FALSE, TRUE, "fails", {Unnamed, Unanswered}, "other"),
   Rec(upper, 1, TRUE, TRUE, "Neutral", {Missing}, "forwardFails"),
   Rec(upper, 19, TRUE, TRUE, "Pass", {Misread}, "confirmed"),
   Rec(host, 19, FALSE, TRUE, "Pass", {}, "noHost"),
   Rec(host, 1, FALSE, FALSE, "SoftFail", {}, "forwardFails"),
   Rec(garbage, 1, TRUE, TRUE, "Pass", {}, "confirmed")}
=============================================================================
