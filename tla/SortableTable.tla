---------------------------- MODULE SortableTable ----------------------------
(***************************************************************************)
(* The tables of a page that are sorted by clicking their headers.         *)
(*                                                                         *)
(* The server renders the rows in an order of its own.  A click sorts the  *)
(* rows as they stand, so what earlier clicks did shows wherever the new   *)
(* column ties.  A text is told apart by what the script makes of it: the  *)
(* number parseFloat reads, and the rank localeCompare gives it when it    *)
(* looks at base letters only.  Array.prototype.sort is stable, and leaves *)
(* the order open when the comparison is not consistent.                   *)
(***************************************************************************)
EXTENDS Integers, Sequences, FiniteSets

CONSTANTS
  Tables,     \* the tables of the page with the class sortable-table
  HasBody,    \* those with a <tbody>
  Header,     \* the <th> elements of a table: "text", "numeric", or "none"
  Rows,       \* the <tr> elements of a table's body
  Cells,      \* the <td> elements of a row; one that spans columns is one cell
  Texts,      \* values of cells
  Empty,      \* the empty text
  Number,     \* what parseFloat makes of a text: an integer, or NaN
  Rank,       \* where a text stands among the others for localeCompare
  Rendered,   \* the position of each row as the server rendered the table
  MaxClicks,  \* bound: clicks on one page
  Absent,     \* a cell without data-sort-value
  NaN

Places(t) ==
  {p \in [Rows[t] -> 1 .. Cardinality(Rows[t])] :
     \A r, s \in Rows[t] : p[r] = p[s] => r = s}

Columns(t) == {c \in DOMAIN Header[t] : Header[t][c] # "none"}

ASSUME ConstantsAssumption ==
  /\ HasBody \subseteq Tables
  /\ \A t \in Tables :
       /\ Header[t] \in Seq({"text", "numeric", "none"})
       /\ IsFiniteSet(Rows[t])
       /\ Rendered[t] \in Places(t)
       /\ \A r \in Rows[t] : Cells[r] \in Seq([value : Texts \cup {Absent}, text : Texts])
  /\ Empty \in Texts
  /\ Number \in [Texts -> Int \cup {NaN}]
  /\ Rank \in [Texts -> Nat]
  /\ MaxClicks \in Nat
  /\ Absent \notin Texts
  /\ NaN \notin Int

VARIABLES
  loaded,  \* DOMContentLoaded has come: the headers have their listeners
  place,   \* the position of each row in the body of a table
  mark,    \* data-sort-dir of each header, or "none"
  asked    \* history: the clicks on a table's headers, the latest first

vars == <<loaded, place, mark, asked>>

Init ==
  /\ loaded = FALSE
  /\ place = [t \in Tables |-> Rendered[t]]
  /\ mark = [t \in Tables |-> [c \in Columns(t) |-> "none"]]
  /\ asked = [t \in Tables |-> <<>>]

-----------------------------------------------------------------------------
\* The value a row is sorted by.
GetCellValue(t, r, c) ==
  IF c \notin DOMAIN Cells[r] THEN Empty
  ELSE IF Cells[r][c].value = Absent THEN Cells[r][c].text ELSE Cells[r][c].value

\* compareValues(a, b, numeric) < 0.  What is no number counts as -Infinity;
\* two of these differ by NaN, which sort reads as 0.
Below(a, b, numeric) ==
  IF numeric
  THEN Number[b] # NaN /\ (Number[a] = NaN \/ Number[a] < Number[b])
  ELSE Rank[a] < Rank[b]

\* The comparison that a click gives to sort puts r before s.
Precedes(t, c, dir, r, s) ==
  LET numeric == Header[t][c] = "numeric"
      a == GetCellValue(t, r, c)
      b == GetCellValue(t, s, c)
  IN  IF dir = "asc" THEN Below(a, b, numeric) ELSE Below(b, a, numeric)

Ties(t, c, r, s) == ~Precedes(t, c, "asc", r, s) /\ ~Precedes(t, c, "asc", s, r)

IsConsistent(t, c) ==
  \A r, s, u \in Rows[t] : Ties(t, c, r, s) /\ Ties(t, c, s, u) => Ties(t, c, r, u)

\* Variant with a mistake: descending is ascending read backwards, ties included.
Sortings_Reversed(t, c, dir) ==
  IF ~IsConsistent(t, c)
  THEN Places(t)
  ELSE {p \in Places(t) : \A r, s \in Rows[t] :
          /\ Precedes(t, c, dir, r, s) => p[r] < p[s]
          /\ Ties(t, c, r, s) => (p[r] < p[s] <=> IF dir = "asc"
                                                  THEN place[t][r] < place[t][s]
                                                  ELSE place[t][s] < place[t][r])}

\* The orders in which sort may leave the rows of t: one, when the comparison
\* is consistent.
Sortings(t, c, dir) ==
  IF ~IsConsistent(t, c)
  THEN Places(t)
  ELSE {p \in Places(t) : \A r, s \in Rows[t] :
          /\ Precedes(t, c, dir, r, s) => p[r] < p[s]
          /\ Ties(t, c, r, s) => (p[r] < p[s] <=> place[t][r] < place[t][s])}

NewDirection(t, c) == IF mark[t][c] = "asc" THEN "desc" ELSE "asc"

\* Variant with a mistake: the headers of every table lose their marks.
Marked_Everywhere(t, c, dir) ==
  [u \in Tables |->
     [d \in Columns(u) |-> IF u = t /\ d = c THEN dir ELSE "none"]]

\* The headers of the table lose their marks, and the one clicked gets its own.
Marked(t, c, dir) ==
  [mark EXCEPT ![t] = [d \in Columns(t) |-> IF d = c THEN dir ELSE "none"]]

-----------------------------------------------------------------------------
\* Variant with a mistake: clicks are heard before the page is complete.
Listening_AtOnce(t) == t \in HasBody

\* initSortableTable has run over the table.
Listening(t) == loaded /\ t \in HasBody

DOMContentLoaded ==
  /\ ~loaded
  /\ loaded' = TRUE
  /\ UNCHANGED <<place, mark, asked>>

\* What the user asks for: the first click on a header sorts upwards, and one
\* that repeats the click before it turns the order round.
Asked(t, c) ==
  LET again == asked[t] # <<>> /\ asked[t][1].column = c
  IN  [column |-> c, up |-> ~(again /\ asked[t][1].up)]

Click(t, c) ==
  LET dir == NewDirection(t, c)
  IN  /\ Listening(t)
      /\ Len(asked[t]) < MaxClicks
      /\ \E p \in Sortings(t, c, dir) : place' = [place EXCEPT ![t] = p]
      /\ mark' = Marked(t, c, dir)
      /\ asked' = [asked EXCEPT ![t] = <<Asked(t, c)>> \o @]
      /\ UNCHANGED loaded

\* The page is loaded again, as it is for another filter.
Reload ==
  /\ loaded
  /\ loaded' = FALSE
  /\ place' = [t \in Tables |-> Rendered[t]]
  /\ mark' = [t \in Tables |-> [c \in Columns(t) |-> "none"]]
  /\ asked' = [t \in Tables |-> <<>>]

Next ==
  \/ DOMContentLoaded
  \/ \E t \in Tables : \E c \in Columns(t) : Click(t, c)
  \/ Reload

Spec == Init /\ [][Next]_vars

-----------------------------------------------------------------------------
\* The types; the rows stay a permutation of those rendered, and a page that is
\* not complete shows them as they were rendered.
TypeOK ==
  /\ loaded \in BOOLEAN
  /\ DOMAIN place = Tables /\ DOMAIN mark = Tables /\ DOMAIN asked = Tables
  /\ \A t \in Tables : place[t] \in Places(t)
  /\ \A t \in Tables : mark[t] \in [Columns(t) -> {"asc", "desc", "none"}]
  /\ \A t \in Tables : asked[t] \in Seq([column : Columns(t), up : BOOLEAN])
  /\ ~loaded => \A t \in Tables : place[t] = Rendered[t] /\ asked[t] = <<>>

\* The arrow in a table's header is true: a table that was clicked shows exactly
\* one arrow, whatever was clicked in the other tables, and its rows ascend or
\* descend in that column as the arrow says; a table without an arrow is as the
\* server rendered it.  (initSortableTable: marks are kept per table, in the
\* attribute that also decides the next direction.)
ArrowTellsTheOrder ==
  \A t \in Tables :
    LET arrows == {c \in Columns(t) : mark[t][c] # "none"}
    IN  IF asked[t] = <<>>
        THEN arrows = {} /\ place[t] = Rendered[t]
        ELSE \E c \in Columns(t) :
               /\ arrows = {c}
               /\ \A r, s \in Rows[t] :
                    Precedes(t, c, mark[t][c], r, s) => place[t][r] < place[t][s]

\* r stands before s in the column clicked, by what the header promises: the
\* cell below it, by its sort value where it has one; no number sorts below all
\* numbers.
Ahead(t, click, r, s) ==
  LET Shown(x) == IF click.column \in DOMAIN Cells[x]
                  THEN LET cell == Cells[x][click.column]
                       IN  IF cell.value # Absent THEN cell.value ELSE cell.text
                  ELSE Empty
      Smaller(x, y) ==
        IF Header[t][click.column] = "text"
        THEN Rank[Shown(x)] < Rank[Shown(y)]
        ELSE /\ Number[Shown(y)] # NaN
             /\ Number[Shown(x)] # NaN => Number[Shown(x)] < Number[Shown(y)]
  IN  IF click.up THEN Smaller(r, s) ELSE Smaller(s, r)

Level(t, click, r, s) == ~Ahead(t, click, r, s) /\ ~Ahead(t, click, s, r)

\* However many clicks it took: the rows stand by the column clicked last, rows
\* that tie there by the one clicked before it, and so on back to the order of
\* the server; every repeated click turns its own column round and leaves the
\* ties alone.  (The sort starts from the rows as they stand and is stable, for
\* values that are no numbers too.)
SortedAsAsked ==
  \A t \in Tables : \A r, s \in Rows[t] :
    place[t][r] < place[t][s] <=>
      \/ \E i \in DOMAIN asked[t] :
           /\ Ahead(t, asked[t][i], r, s)
           /\ \A j \in 1 .. i - 1 : Level(t, asked[t][j], r, s)
      \/ /\ \A i \in DOMAIN asked[t] : Level(t, asked[t][i], r, s)
         /\ Rendered[t][r] < Rendered[t][s]
=============================================================================
