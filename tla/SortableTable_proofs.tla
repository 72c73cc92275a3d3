------------------------ MODULE SortableTable_proofs ------------------------
(***************************************************************************)
(* Theorems about SortableTable.  That the comparison of two values is     *)
(* consistent fixes the order a sort may leave; the marks on the headers   *)
(* repeat what was asked last; and a stable sort of rows that stand by     *)
(* earlier clicks makes them stand by the new click before these.          *)
(***************************************************************************)
EXTENDS SortableTable, TLAPS

\* A sequence with one more element in front.
LEMMA PushFacts ==
  ASSUME NEW S, NEW e \in S, NEW q \in Seq(S)
  PROVE  /\ <<e>> \o q \in Seq(S)
         /\ <<e>> \o q # <<>>
         /\ (<<e>> \o q)[1] = e
         /\ \A i \in DOMAIN q : (<<e>> \o q)[i + 1] = q[i]
         /\ DOMAIN (<<e>> \o q) = 1 .. Len(q) + 1
         /\ DOMAIN q = 1 .. Len(q)
         /\ Len(q) \in Nat
  OBVIOUS

\* The elements of a sequence.
LEMMA ElementFacts ==
  ASSUME NEW S, NEW q \in Seq(S), NEW i \in DOMAIN q
  PROVE  q[i] \in S
  OBVIOUS

-----------------------------------------------------------------------------
(***************************************************************************)
(* The comparison                                                          *)
(***************************************************************************)

\* A row is sorted by a text, a missing cell by the empty one.
LEMMA CellTypes ==
  ASSUME NEW t \in Tables, NEW r \in Rows[t], NEW c \in Columns(t)
  PROVE  GetCellValue(t, r, c) \in Texts
<1>1. Cells[r] \in Seq([value : Texts \cup {Absent}, text : Texts])
  BY ConstantsAssumption
<1>2. ASSUME c \in DOMAIN Cells[r]
      PROVE  Cells[r][c] \in [value : Texts \cup {Absent}, text : Texts]
  BY <1>1, <1>2, ElementFacts
<1>3. QED
  BY <1>2, ConstantsAssumption DEF GetCellValue

\* What is no number lies below every number, so to tie is transitive.
LEMMA NumbersTie ==
  ASSUME NEW x \in Int \cup {NaN}, NEW y \in Int \cup {NaN}, NEW z \in Int \cup {NaN},
         ~(y # NaN /\ (x = NaN \/ x < y)), ~(x # NaN /\ (y = NaN \/ y < x)),
         ~(z # NaN /\ (y = NaN \/ y < z)), ~(y # NaN /\ (z = NaN \/ z < y))
  PROVE  ~(z # NaN /\ (x = NaN \/ x < z)) /\ ~(x # NaN /\ (z = NaN \/ z < x))
<1>1. NaN \notin Int
  BY ConstantsAssumption
<1>2. CASE x = NaN
  BY <1>1, <1>2
<1>3. CASE x \in Int
  BY <1>1, <1>3
<1>4. QED
  BY <1>2, <1>3

\* The comparison of any column is consistent: a sort has one outcome.
LEMMA Consistent ==
  ASSUME NEW t \in Tables, NEW c \in Columns(t)
  PROVE  IsConsistent(t, c)
<1>. SUFFICES ASSUME NEW r \in Rows[t], NEW s \in Rows[t], NEW u \in Rows[t],
                     Ties(t, c, r, s), Ties(t, c, s, u)
              PROVE  Ties(t, c, r, u)
  BY DEF IsConsistent
<1>. DEFINE V(x) == GetCellValue(t, x, c)
<1>1. V(r) \in Texts /\ V(s) \in Texts /\ V(u) \in Texts
  BY CellTypes
<1>2. CASE Header[t][c] = "numeric"
  <2>1. \A a \in Texts : Number[a] \in Int \cup {NaN}
    BY ConstantsAssumption
  <2>2. QED
    BY <1>1, <1>2, <2>1, NumbersTie DEF Ties, Precedes, Below
<1>3. CASE Header[t][c] # "numeric"
  <2>1. \A a \in Texts : Rank[a] \in Nat
    BY ConstantsAssumption
  <2>2. QED
    BY <1>1, <1>3, <2>1 DEF Ties, Precedes, Below
<1>4. QED
  BY <1>2, <1>3

Directions == {"asc", "desc"}

\* A sort puts two rows by the comparison, or leaves them as they stood.
LEMMA SortingFacts ==
  ASSUME NEW t \in Tables, NEW c \in Columns(t), NEW dir \in Directions,
         place[t] \in Places(t), NEW p \in Sortings(t, c, dir)
  PROVE  /\ p \in Places(t)
         /\ \A r, s \in Rows[t] : Precedes(t, c, dir, r, s) => p[r] < p[s]
         /\ \A r, s \in Rows[t] :
              p[r] < p[s] <=> \/ Precedes(t, c, dir, r, s)
                              \/ Ties(t, c, r, s) /\ place[t][r] < place[t][s]
<1>1. IsConsistent(t, c)
  BY Consistent
<1>2. /\ p \in Places(t)
      /\ \A r, s \in Rows[t] : Precedes(t, c, dir, r, s) => p[r] < p[s]
      /\ \A r, s \in Rows[t] :
           Ties(t, c, r, s) => (p[r] < p[s] <=> place[t][r] < place[t][s])
  BY <1>1 DEF Sortings
<1>3. \A r \in Rows[t] : p[r] \in Int
  BY <1>2 DEF Places
<1>4. \A r, s \in Rows[t] :
        Ties(t, c, r, s) <=> ~Precedes(t, c, dir, r, s) /\ ~Precedes(t, c, dir, s, r)
  BY DEF Ties, Precedes, Directions
<1>5. ASSUME NEW r \in Rows[t], NEW s \in Rows[t]
      PROVE  p[r] < p[s] <=> \/ Precedes(t, c, dir, r, s)
                             \/ Ties(t, c, r, s) /\ place[t][r] < place[t][s]
  <2>1. CASE Precedes(t, c, dir, r, s)
    BY <1>2, <2>1
  <2>2. CASE Precedes(t, c, dir, s, r)
    BY <1>2, <1>3, <1>4, <2>2
  <2>3. CASE Ties(t, c, r, s)
    BY <1>2, <1>4, <2>3
  <2>4. QED
    BY <1>4, <2>1, <2>2, <2>3
<1>6. QED
  BY <1>2, <1>5

-----------------------------------------------------------------------------
(***************************************************************************)
(* The types                                                               *)
(***************************************************************************)

AskedTypes(t) == Seq([column : Columns(t), up : BOOLEAN])

\* The server renders every row once.
LEMMA RenderedTypes ==
  ASSUME NEW t \in Tables
  PROVE  Rendered[t] \in Places(t)
  BY ConstantsAssumption

\* A click sorts in one of two directions.
LEMMA DirectionTypes ==
  ASSUME NEW t, NEW c
  PROVE  NewDirection(t, c) \in Directions
  BY DEF NewDirection, Directions

\* The types of the history of clicks.
LEMMA AskedIsTyped ==
  ASSUME NEW t \in Tables, NEW c \in Columns(t), asked[t] \in AskedTypes(t)
  PROVE  Asked(t, c) \in [column : Columns(t), up : BOOLEAN]
  BY DEF Asked, AskedTypes

\* The types of the page, and that its rows stay those that were rendered.
THEOREM TypeCorrect == Spec => []TypeOK
<1>1. Init => TypeOK
  <2>. SUFFICES ASSUME Init PROVE TypeOK
    OBVIOUS
  <2>1. \A t \in Tables : place[t] \in Places(t)
    BY RenderedTypes DEF Init
  <2>2. \A t \in Tables : asked[t] \in Seq([column : Columns(t), up : BOOLEAN])
    BY DEF Init
  <2>3. QED
    BY <2>1, <2>2 DEF Init, TypeOK
<1>2. TypeOK /\ [Next]_vars => TypeOK'
  <2>. SUFFICES ASSUME TypeOK, [Next]_vars PROVE TypeOK'
    OBVIOUS
  <2>1. CASE DOMContentLoaded
    BY <2>1 DEF DOMContentLoaded, TypeOK
  <2>2. ASSUME NEW t \in Tables, NEW c \in Columns(t), Click(t, c)
        PROVE  TypeOK'
    <3>1. PICK p \in Sortings(t, c, NewDirection(t, c)) :
            place' = [place EXCEPT ![t] = p]
      BY <2>2 DEF Click
    <3>2. p \in Places(t)
      BY SortingFacts, DirectionTypes DEF TypeOK
    <3>3. \A u \in Tables : place'[u] \in Places(u)
      BY <3>1, <3>2 DEF TypeOK
    <3>4. \A u \in Tables : mark'[u] \in [Columns(u) -> {"asc", "desc", "none"}]
      BY <2>2, DirectionTypes DEF Click, Marked, TypeOK, Directions
    <3>5. <<Asked(t, c)>> \o asked[t] \in AskedTypes(t)
      BY AskedIsTyped, PushFacts DEF TypeOK, AskedTypes
    <3>6. \A u \in Tables : asked'[u] \in AskedTypes(u)
      <4>1. asked' = [asked EXCEPT ![t] = <<Asked(t, c)>> \o asked[t]]
        BY <2>2 DEF Click
      <4>2. \A u \in Tables : asked[u] \in AskedTypes(u)
        BY DEF TypeOK, AskedTypes
      <4>3. QED
        BY <3>5, <4>1, <4>2
    <3>7. loaded /\ loaded'
      BY <2>2 DEF Click, Listening, TypeOK
    <3>8. DOMAIN place' = Tables /\ DOMAIN mark' = Tables /\ DOMAIN asked' = Tables
      BY <2>2 DEF Click, Marked, TypeOK
    <3>9. QED
      BY <3>3, <3>4, <3>6, <3>7, <3>8 DEF TypeOK, AskedTypes, Places, Columns
  <2>3. CASE Reload
    <3>1. \A t \in Tables : asked'[t] \in Seq([column : Columns(t), up : BOOLEAN])
      BY <2>3 DEF Reload
    <3>2. \A t \in Tables : place'[t] \in Places(t)
      BY <2>3, RenderedTypes DEF Reload
    <3>3. QED
      BY <2>3, <3>1, <3>2 DEF Reload, TypeOK, Places, Columns
  <2>4. CASE UNCHANGED vars
    BY <2>4 DEF vars, TypeOK, Places, Columns
  <2>5. QED
    BY <2>1, <2>2, <2>3, <2>4 DEF Next
<1>3. QED
  BY <1>1, <1>2, PTL DEF Spec
-----------------------------------------------------------------------------
(***************************************************************************)
(* The arrow                                                               *)
(***************************************************************************)

\* The arrows show the latest click, as its history has it.
MarksRepeatTheClick ==
  \A t \in Tables : \A c \in Columns(t) :
    mark[t][c] = IF asked[t] # <<>> /\ asked[t][1].column = c
                 THEN IF asked[t][1].up THEN "asc" ELSE "desc"
                 ELSE "none"

\* What a click leaves behind, table by table.
LEMMA ClickFacts ==
  ASSUME TypeOK, NEW t \in Tables, NEW c \in Columns(t), Click(t, c)
  PROVE  LET dir == NewDirection(t, c)
         IN  /\ \A u \in Tables \ {t} : /\ place'[u] = place[u]
                                       /\ mark'[u] = mark[u]
                                       /\ asked'[u] = asked[u]
             /\ mark'[t] = [d \in Columns(t) |-> IF d = c THEN dir ELSE "none"]
             /\ asked'[t] = <<Asked(t, c)>> \o asked[t]
             /\ asked'[t] # <<>> /\ asked'[t][1] = Asked(t, c)
             /\ \A r, s \in Rows[t] :
                  Precedes(t, c, dir, r, s) => place'[t][r] < place'[t][s]
             /\ \A r, s \in Rows[t] :
                  place'[t][r] < place'[t][s]
                    <=> \/ Precedes(t, c, dir, r, s)
                        \/ Ties(t, c, r, s) /\ place[t][r] < place[t][s]
<1>. DEFINE dir == NewDirection(t, c)
<1>1. PICK p \in Sortings(t, c, dir) : place' = [place EXCEPT ![t] = p]
  BY DEF Click
<1>2. /\ \A r, s \in Rows[t] : Precedes(t, c, dir, r, s) => p[r] < p[s]
      /\ \A r, s \in Rows[t] :
           p[r] < p[s] <=> \/ Precedes(t, c, dir, r, s)
                           \/ Ties(t, c, r, s) /\ place[t][r] < place[t][s]
  BY SortingFacts, DirectionTypes DEF TypeOK
<1>3. asked' = [asked EXCEPT ![t] = <<Asked(t, c)>> \o asked[t]]
  BY DEF Click
<1>4. asked'[t] = <<Asked(t, c)>> \o asked[t]
  BY <1>3 DEF TypeOK
<1>5. <<Asked(t, c)>> \o asked[t] # <<>> /\ (<<Asked(t, c)>> \o asked[t])[1] = Asked(t, c)
  BY AskedIsTyped, PushFacts DEF TypeOK, AskedTypes
<1>6. mark' = Marked(t, c, dir)
  BY DEF Click
<1>7. mark'[t] = [d \in Columns(t) |-> IF d = c THEN dir ELSE "none"]
  BY <1>6 DEF Marked, TypeOK
<1>8. place'[t] = p
  BY <1>1 DEF TypeOK
<1>9. \A u \in Tables \ {t} : /\ place'[u] = place[u]
                            /\ mark'[u] = mark[u]
                            /\ asked'[u] = asked[u]
  BY <1>1, <1>3, <1>6 DEF Marked, TypeOK
<1>. HIDE DEF dir
<1>10. QED
  BY <1>2, <1>4, <1>5, <1>7, <1>8, <1>9 DEF dir

\* The attribute that decides the next direction repeats the latest click.
LEMMA MarksFollow == Spec => []MarksRepeatTheClick
<1>1. Init => MarksRepeatTheClick
  BY DEF Init, MarksRepeatTheClick
<1>2. TypeOK /\ MarksRepeatTheClick /\ [Next]_vars => MarksRepeatTheClick'
  <2>. SUFFICES ASSUME TypeOK, MarksRepeatTheClick, [Next]_vars
                PROVE  MarksRepeatTheClick'
    OBVIOUS
  <2>1. ASSUME NEW t \in Tables, NEW c \in Columns(t), Click(t, c)
        PROVE  MarksRepeatTheClick'
    <3>1. ASSUME NEW u \in Tables, NEW d \in Columns(u)
          PROVE  mark'[u][d] = IF asked'[u] # <<>> /\ asked'[u][1].column = d
                               THEN IF asked'[u][1].up THEN "asc" ELSE "desc"
                               ELSE "none"
      <4>1. CASE u # t
        <5>1. mark'[u] = mark[u] /\ asked'[u] = asked[u]
          BY <2>1, <4>1, ClickFacts
        <5>2. QED
          BY <5>1 DEF MarksRepeatTheClick
      <4>2. CASE u = t
        <5>1. /\ mark'[t][d] = IF d = c THEN NewDirection(t, c) ELSE "none"
              /\ asked'[t] # <<>>
              /\ asked'[t][1] = Asked(t, c)
          <6>1. mark'[t] = [e \in Columns(t) |-> IF e = c THEN NewDirection(t, c) ELSE "none"]
            BY <2>1, ClickFacts
          <6>2. asked'[t] # <<>> /\ asked'[t][1] = Asked(t, c)
            BY <2>1, ClickFacts
          <6>3. QED
            BY <3>1, <4>2, <6>1, <6>2
        <5>2. Asked(t, c).column = c
          BY DEF Asked
        <5>3. Asked(t, c).up <=> NewDirection(t, c) = "asc"
          BY DEF Asked, NewDirection, MarksRepeatTheClick
        <5>4. NewDirection(t, c) \in {"asc", "desc"}
          BY DEF NewDirection
        <5>5. QED
          BY <4>2, <5>1, <5>2, <5>3, <5>4
      <4>3. QED
        BY <4>1, <4>2
    <3>2. QED
      BY <3>1 DEF MarksRepeatTheClick, Columns
  <2>2. CASE DOMContentLoaded
    BY <2>2 DEF DOMContentLoaded, MarksRepeatTheClick
  <2>3. CASE Reload
    BY <2>3 DEF Reload, MarksRepeatTheClick, Columns
  <2>4. CASE UNCHANGED vars
    BY <2>4 DEF vars, MarksRepeatTheClick, Columns
  <2>5. QED
    BY <2>1, <2>2, <2>3, <2>4 DEF Next
<1>3. QED
  BY <1>1, <1>2, TypeCorrect, PTL DEF Spec

\* The rows of a table follow its arrow, if it has one.
RowsFollowTheArrow ==
  \A t \in Tables :
    /\ asked[t] = <<>> => place[t] = Rendered[t]
    /\ \A c \in Columns(t) : mark[t][c] # "none" =>
         \A r, s \in Rows[t] :
           Precedes(t, c, mark[t][c], r, s) => place[t][r] < place[t][s]

\* Rows follow the arrow of their table.
LEMMA RowsFollow == Spec => []RowsFollowTheArrow
<1>1. Init => RowsFollowTheArrow
  BY DEF Init, RowsFollowTheArrow
<1>2. TypeOK /\ RowsFollowTheArrow /\ [Next]_vars => RowsFollowTheArrow'
  <2>. SUFFICES ASSUME TypeOK, RowsFollowTheArrow, [Next]_vars
                PROVE  RowsFollowTheArrow'
    OBVIOUS
  <2>1. ASSUME NEW t \in Tables, NEW c \in Columns(t), Click(t, c)
        PROVE  RowsFollowTheArrow'
    <3>. DEFINE dir == NewDirection(t, c)
    <3>1. \A u \in Tables \ {t} : /\ place'[u] = place[u]
                                /\ mark'[u] = mark[u]
                                /\ asked'[u] = asked[u]
      BY <2>1, ClickFacts
    <3>2. /\ mark'[t] = [d \in Columns(t) |-> IF d = c THEN dir ELSE "none"]
          /\ asked'[t] # <<>>
          /\ \A r, s \in Rows[t] :
               Precedes(t, c, dir, r, s) => place'[t][r] < place'[t][s]
      BY <2>1, ClickFacts
    <3>3. ASSUME NEW u \in Tables
          PROVE  /\ asked'[u] = <<>> => place'[u] = Rendered[u]
                 /\ \A d \in Columns(u) : mark'[u][d] # "none" =>
                      \A r, s \in Rows[u] :
                        Precedes(u, d, mark'[u][d], r, s) => place'[u][r] < place'[u][s]
      <4>1. CASE u # t
        BY <3>1, <4>1 DEF RowsFollowTheArrow
      <4>2. CASE u = t
        <5>1. \A d \in Columns(t) : mark'[t][d] # "none" => d = c /\ mark'[t][d] = dir
          BY <3>2
        <5>. HIDE DEF dir
        <5>2. QED
          BY <3>2, <4>2, <5>1
      <4>3. QED
        BY <4>1, <4>2
    <3>4. QED
      BY <3>3 DEF RowsFollowTheArrow, Columns, Precedes, GetCellValue
  <2>2. CASE DOMContentLoaded
    BY <2>2 DEF DOMContentLoaded, RowsFollowTheArrow
  <2>3. CASE Reload
    BY <2>3 DEF Reload, RowsFollowTheArrow, Columns, Precedes, GetCellValue
  <2>4. CASE UNCHANGED vars
    BY <2>4 DEF vars, RowsFollowTheArrow, Columns, Precedes, GetCellValue
  <2>5. QED
    BY <2>1, <2>2, <2>3, <2>4 DEF Next
<1>3. QED
  BY <1>1, <1>2, TypeCorrect, PTL DEF Spec

\* Whatever is clicked, in whichever table: the one arrow of a table says how
\* its rows stand.
THEOREM ArrowIsTrue == Spec => []ArrowTellsTheOrder
<1>1. TypeOK /\ MarksRepeatTheClick /\ RowsFollowTheArrow => ArrowTellsTheOrder
  <2>. SUFFICES ASSUME TypeOK, MarksRepeatTheClick, RowsFollowTheArrow, NEW t \in Tables
                PROVE  LET arrows == {c \in Columns(t) : mark[t][c] # "none"}
                       IN  IF asked[t] = <<>>
                           THEN arrows = {} /\ place[t] = Rendered[t]
                           ELSE \E c \in Columns(t) :
                                  /\ arrows = {c}
                                  /\ \A r, s \in Rows[t] :
                                       Precedes(t, c, mark[t][c], r, s)
                                         => place[t][r] < place[t][s]
    BY DEF ArrowTellsTheOrder
  <2>1. CASE asked[t] = <<>>
    BY <2>1 DEF MarksRepeatTheClick, RowsFollowTheArrow
  <2>2. CASE asked[t] # <<>>
    <3>. DEFINE c == asked[t][1].column
    <3>1. asked[t][1] \in [column : Columns(t), up : BOOLEAN]
      <4>1. asked[t] \in Seq([column : Columns(t), up : BOOLEAN])
        BY DEF TypeOK
      <4>2. 1 \in DOMAIN asked[t]
        BY <2>2, <4>1
      <4>3. QED
        BY <4>1, <4>2, ElementFacts
    <3>2. c \in Columns(t)
      BY <3>1
    <3>3. \A d \in Columns(t) : mark[t][d] # "none" <=> d = c
      BY <2>2 DEF MarksRepeatTheClick
    <3>4. QED
      BY <2>2, <3>2, <3>3 DEF RowsFollowTheArrow
  <2>3. QED
    BY <2>1, <2>2
<1>2. QED
  BY <1>1, TypeCorrect, MarksFollow, RowsFollow, PTL
-----------------------------------------------------------------------------
(***************************************************************************)
(* All the clicks                                                          *)
(***************************************************************************)

\* What a header promises of two rows is what the comparison of its click says.
LEMMA AheadIsPrecedes ==
  ASSUME NEW t \in Tables, NEW k \in [column : Columns(t), up : BOOLEAN],
         NEW r \in Rows[t], NEW s \in Rows[t]
  PROVE  /\ Ahead(t, k, r, s)
              <=> Precedes(t, k.column, IF k.up THEN "asc" ELSE "desc", r, s)
         /\ Level(t, k, r, s) <=> Ties(t, k.column, r, s)
<1>. DEFINE c == k.column
<1>1. c \in Columns(t) /\ c \in DOMAIN Header[t] /\ Header[t][c] # "none"
  BY DEF Columns
<1>2. Header[t] \in Seq({"text", "numeric", "none"})
  BY ConstantsAssumption
<1>3. Header[t][c] \in {"text", "numeric"}
  BY <1>1, <1>2, ElementFacts
<1>4. /\ GetCellValue(t, r, c) \in Texts
      /\ GetCellValue(t, s, c) \in Texts
  BY <1>1, CellTypes
<1>. DEFINE Value(x) == IF c \in DOMAIN Cells[x]
                        THEN IF Cells[x][c].value # Absent THEN Cells[x][c].value
                             ELSE Cells[x][c].text
                        ELSE Empty
            Smaller(x, y) ==
              IF Header[t][c] = "text"
              THEN Rank[Value(x)] < Rank[Value(y)]
              ELSE /\ Number[Value(y)] # NaN
                   /\ Number[Value(x)] # NaN => Number[Value(x)] < Number[Value(y)]
<1>5. \A x \in Rows[t] : Value(x) = GetCellValue(t, x, c)
  BY DEF GetCellValue
<1>6. \A x, y \in {r, s} : Ahead(t, k, x, y) <=> IF k.up THEN Smaller(x, y) ELSE Smaller(y, x)
  BY DEF Ahead
<1>. HIDE DEF Value
<1>7. ASSUME NEW x \in {r, s}, NEW y \in {r, s}
      PROVE  Smaller(x, y)
               <=> Below(GetCellValue(t, x, c), GetCellValue(t, y, c), Header[t][c] = "numeric")
  <2>1. Value(x) = GetCellValue(t, x, c) /\ Value(y) = GetCellValue(t, y, c)
    BY <1>5
  <2>2. CASE Header[t][c] = "text"
    BY <2>1, <2>2 DEF Below
  <2>3. CASE Header[t][c] = "numeric"
    BY <2>1, <2>3 DEF Below
  <2>4. QED
    BY <1>3, <2>2, <2>3
<1>. HIDE DEF Smaller
<1>8. \A x, y \in {r, s} :
        Ahead(t, k, x, y) <=> Precedes(t, c, IF k.up THEN "asc" ELSE "desc", x, y)
  BY <1>6, <1>7 DEF Precedes
<1>9. QED
  BY <1>8 DEF Level, Ties, Precedes

\* The rows r and s stand by the clicks ks, the latest first.
StandBy(t, ks, r, s) ==
  \/ \E i \in DOMAIN ks : Ahead(t, ks[i], r, s)
                         /\ \A j \in 1 .. i - 1 : Level(t, ks[j], r, s)
  \/ (\A i \in DOMAIN ks : Level(t, ks[i], r, s)) /\ Rendered[t][r] < Rendered[t][s]

\* One click more decides first, and leaves its ties to the others.
LEMMA StandByOneMore ==
  ASSUME NEW t, NEW S, NEW k \in S, NEW ks \in Seq(S), NEW r, NEW s
  PROVE  StandBy(t, <<k>> \o ks, r, s)
           <=> Ahead(t, k, r, s) \/ (Level(t, k, r, s) /\ StandBy(t, ks, r, s))
<1>. DEFINE ms == <<k>> \o ks
            A(i) == Ahead(t, ms[i], r, s)
            E(i) == Level(t, ms[i], r, s)
            n == Len(ks)
<1>1. /\ ms[1] = k
      /\ DOMAIN ms = 1 .. n + 1 /\ DOMAIN ks = 1 .. n /\ n \in Nat
      /\ \A i \in 1 .. n : ms[i + 1] = ks[i]
  BY PushFacts
<1>2. /\ A(1) <=> Ahead(t, k, r, s)
      /\ E(1) <=> Level(t, k, r, s)
      /\ \A i \in 1 .. n : /\ A(i + 1) <=> Ahead(t, ks[i], r, s)
                           /\ E(i + 1) <=> Level(t, ks[i], r, s)
  BY <1>1
<1>3. StandBy(t, ms, r, s)
        <=> \/ \E i \in 1 .. n + 1 : A(i) /\ \A j \in 1 .. i - 1 : E(j)
            \/ (\A i \in 1 .. n + 1 : E(i)) /\ Rendered[t][r] < Rendered[t][s]
  BY <1>1 DEF StandBy
<1>4. StandBy(t, ks, r, s)
        <=> \/ \E i \in 1 .. n : A(i + 1) /\ \A j \in 1 .. i - 1 : E(j + 1)
            \/ (\A i \in 1 .. n : E(i + 1)) /\ Rendered[t][r] < Rendered[t][s]
  <2>1. \A i \in 1 .. n : \A j \in 1 .. i - 1 : j \in 1 .. n
    BY <1>1
  <2>2. QED
    BY <1>1, <1>2, <2>1 DEF StandBy
<1>. HIDE DEF ms, A, E, n
<1>5. (\A i \in 1 .. n + 1 : E(i)) <=> E(1) /\ \A i \in 1 .. n : E(i + 1)
  BY <1>1
<1>6. (\E i \in 1 .. n + 1 : A(i) /\ \A j \in 1 .. i - 1 : E(j))
        <=> A(1) \/ (E(1) /\ \E i \in 1 .. n : A(i + 1) /\ \A j \in 1 .. i - 1 : E(j + 1))
  <2>1. ASSUME NEW i \in 1 .. n + 1, A(i), \A j \in 1 .. i - 1 : E(j), i # 1
        PROVE  E(1) /\ \E m \in 1 .. n : A(m + 1) /\ \A j \in 1 .. m - 1 : E(j + 1)
    <3>1. i - 1 \in 1 .. n /\ A((i - 1) + 1) /\ E(1)
      BY <1>1, <2>1
    <3>2. \A j \in 1 .. (i - 1) - 1 : E(j + 1)
      BY <1>1, <2>1
    <3>3. QED
      BY <3>1, <3>2
  <2>2. ASSUME NEW i \in 1 .. n, A(i + 1), \A j \in 1 .. i - 1 : E(j + 1), E(1)
        PROVE  \E m \in 1 .. n + 1 : A(m) /\ \A j \in 1 .. m - 1 : E(j)
    <3>1. i + 1 \in 1 .. n + 1
      BY <1>1
    <3>2. ASSUME NEW j \in 1 .. (i + 1) - 1
          PROVE  E(j)
      <4>1. j = 1 \/ (j - 1 \in 1 .. i - 1 /\ (j - 1) + 1 = j)
        BY <1>1
      <4>2. j - 1 \in 1 .. i - 1 => E((j - 1) + 1)
        BY <2>2
      <4>3. QED
        BY <2>2, <4>1, <4>2
    <3>3. QED
      BY <2>2, <3>1, <3>2
  <2>3. A(1) => 1 \in 1 .. n + 1 /\ A(1) /\ \A j \in 1 .. 1 - 1 : E(j)
    BY <1>1
  <2>4. QED
    BY <2>1, <2>2, <2>3
<1>7. QED
  BY <1>2, <1>3, <1>4, <1>5, <1>6 DEF ms

\* Without a click the rows stand as they were rendered.
LEMMA ByNoClick ==
  ASSUME NEW t, NEW r, NEW s
  PROVE  StandBy(t, <<>>, r, s) <=> Rendered[t][r] < Rendered[t][s]
  BY DEF StandBy

\* The property in the words of this section.
LEMMA SortedMeansStandBy ==
  SortedAsAsked <=> \A t \in Tables : \A r, s \in Rows[t] :
                      place[t][r] < place[t][s] <=> StandBy(t, asked[t], r, s)
  BY DEF SortedAsAsked, StandBy

\* However many clicks it took, on whichever headers: the rows stand by the latest
\* click, the rows that tie there by the one before it, and so on.
THEOREM RowsStandByTheClicks == Spec => []SortedAsAsked
<1>. DEFINE Stand(p, q) == \A t \in Tables : \A r, s \in Rows[t] :
                             p[t][r] < p[t][s] <=> StandBy(t, q[t], r, s)
<1>1. Init => SortedAsAsked
  <2>. SUFFICES ASSUME Init PROVE Stand(place, asked)
    BY SortedMeansStandBy
  <2>1. QED
    BY ByNoClick DEF Init
<1>2. TypeOK /\ MarksRepeatTheClick /\ SortedAsAsked /\ [Next]_vars => SortedAsAsked'
  <2>. SUFFICES ASSUME TypeOK, MarksRepeatTheClick, Stand(place, asked), [Next]_vars
                PROVE  Stand(place', asked')
    BY SortedMeansStandBy DEF SortedAsAsked, StandBy, Ahead, Level
  <2>1. ASSUME NEW t \in Tables, NEW c \in Columns(t), Click(t, c)
        PROVE  Stand(place', asked')
    <3>. DEFINE dir == NewDirection(t, c)
                k == Asked(t, c)
    <3>1. /\ \A u \in Tables \ {t} : place'[u] = place[u] /\ asked'[u] = asked[u]
          /\ asked'[t] = <<k>> \o asked[t]
          /\ \A r, s \in Rows[t] :
               place'[t][r] < place'[t][s]
                 <=> \/ Precedes(t, c, dir, r, s)
                     \/ Ties(t, c, r, s) /\ place[t][r] < place[t][s]
      BY <2>1, ClickFacts
    <3>2. asked[t] \in Seq([column : Columns(t), up : BOOLEAN])
      BY DEF TypeOK
    <3>3. k \in [column : Columns(t), up : BOOLEAN] /\ k.column = c
      BY <3>2, AskedIsTyped DEF AskedTypes, Asked
    <3>4. dir = IF k.up THEN "asc" ELSE "desc"
      BY DEF Asked, NewDirection, MarksRepeatTheClick
    <3>. HIDE DEF dir, k
    <3>5. ASSUME NEW r \in Rows[t], NEW s \in Rows[t]
          PROVE  place'[t][r] < place'[t][s] <=> StandBy(t, asked'[t], r, s)
      <4>1. /\ Ahead(t, k, r, s) <=> Precedes(t, c, dir, r, s)
            /\ Level(t, k, r, s) <=> Ties(t, c, r, s)
        BY <3>3, <3>4, AheadIsPrecedes
      <4>2. StandBy(t, asked'[t], r, s)
              <=> Ahead(t, k, r, s) \/ (Level(t, k, r, s) /\ StandBy(t, asked[t], r, s))
        <5>. DEFINE S == [column : Columns(t), up : BOOLEAN]
        <5>1. k \in S /\ asked[t] \in Seq(S)
          BY <3>2, <3>3
        <5>. HIDE DEF S
        <5>2. StandBy(t, <<k>> \o asked[t], r, s)
                <=> Ahead(t, k, r, s) \/ (Level(t, k, r, s) /\ StandBy(t, asked[t], r, s))
          BY <5>1, StandByOneMore
        <5>3. QED
          BY <3>1, <5>2
      <4>3. place[t][r] < place[t][s] <=> StandBy(t, asked[t], r, s)
        OBVIOUS
      <4>4. QED
        BY <3>1, <4>1, <4>2, <4>3
    <3>6. QED
      BY <3>1, <3>5
  <2>2. CASE DOMContentLoaded
    BY <2>2 DEF DOMContentLoaded
  <2>3. CASE Reload
    BY <2>3, ByNoClick DEF Reload
  <2>4. CASE UNCHANGED vars
    BY <2>4 DEF vars
  <2>5. QED
    BY SMTT(30), <2>1, <2>2, <2>3, <2>4 DEF Next
<1>3. QED
  BY <1>1, <1>2, TypeCorrect, MarksFollow, PTL DEF Spec
=============================================================================
