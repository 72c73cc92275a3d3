-------------------------- MODULE MCSortableTable --------------------------
(***************************************************************************)
(* The two tables of a domain's page, in small: senders, with a column     *)
(* that cannot be sorted in the middle, and records, of which there are    *)
(* none, so that one cell spans the columns.                               *)
(***************************************************************************)
EXTENDS SortableTable, TLC

CONSTANTS senders, records, bodiless, r1, r2, r3, r4, r5, r6,
          empty, dash, ten, tenth, two, mail, capital

MCHeader == senders :> <<"text", "none", "numeric">> @@ records :> <<"numeric", "text">>
            @@ bodiless :> <<"text">>
MCRows == senders :> {r1, r2, r3, r4} @@ records :> {r5, r6} @@ bodiless :> {}
MCRendered == senders :> (r1 :> 1 @@ r2 :> 2 @@ r3 :> 3 @@ r4 :> 4)
              @@ records :> (r5 :> 2 @@ r6 :> 1) @@ bodiless :> <<>>

Shown(text) == [value |-> Absent, text |-> text]
Sorted(value, text) == [value |-> value, text |-> text]

\* r6 is the cell that spans the columns.
MCCells ==
  r1 :> <<Shown(mail), Shown(ten), Sorted(two, ten)>> @@
  r2 :> <<Shown(dash), Shown(two), Shown(dash)>> @@
  r3 :> <<Shown(capital), Shown(two), Sorted(ten, two)>> @@
  r4 :> <<Shown(mail), Shown(ten), Shown(empty)>> @@
  r5 :> <<Sorted(tenth, two), Shown(mail)>> @@
  r6 :> <<Shown(dash)>>

\* tenth is a number that parseFloat rounds to ten; capital differs from mail
\* in case only.
MCNumber == [x \in {empty, dash, mail, capital} |-> NaN] @@ ten :> 10 @@ tenth :> 10 @@ two :> 2
MCRank == empty :> 0 @@ dash :> 1 @@ ten :> 2 @@ tenth :> 2 @@ two :> 3 @@ mail :> 4 @@ capital :> 4
=============================================================================
