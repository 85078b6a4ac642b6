----------------------------- MODULE Terminal -----------------------------
(***************************************************************************)
(* What the console promises to BASIC and to its user: a page of rows with *)
(* a cursor.  Text goes to the cursor; past the last row the page moves up *)
(* by one row; return hands over the row the cursor is on.                 *)
(***************************************************************************)
EXTENDS Integers

CONSTANTS Width, Height, Tab, Chars, Space

VARIABLES rows, row, col, line

Columns == 0..(Width - 1)
Rows == 0..(Height - 1)
BlankRow == [c \in Columns |-> Space]

Init ==
  /\ rows = [r \in Rows |-> BlankRow] /\ row = 0 /\ col = 0
  /\ line = BlankRow

\* The cursor goes to the start of the row below, on a page that shows "page".
NextRow(page) ==
  /\ col' = 0
  /\ \/ row + 1 < Height /\ row' = row + 1 /\ rows' = page
     \/ /\ row + 1 = Height /\ UNCHANGED row
        /\ rows' = [r \in Rows |-> IF r + 1 < Height THEN page[r + 1] ELSE BlankRow]

Type(c) ==
  LET page == [rows EXCEPT ![row][col] = c]
  IN  /\ \/ col + 1 < Width /\ col' = col + 1 /\ UNCHANGED row /\ rows' = page
         \/ col + 1 = Width /\ NextRow(page)
      /\ UNCHANGED line

\* On to the next column that is a multiple of "stop".
ToStop(stop) ==
  LET next == (col \div stop + 1) * stop
  IN  \/ next < Width /\ col' = next /\ UNCHANGED <<row, rows>>
      \/ next >= Width /\ NextRow(rows)

NewLine == ToStop(Width) /\ UNCHANGED line
NextTab == ToStop(Tab) /\ UNCHANGED line

Return == line' = rows[row] /\ ToStop(Width)

Clear ==
  /\ rows' = [r \in Rows |-> BlankRow] /\ row' = 0 /\ col' = 0
  /\ UNCHANGED line

\* Left and right run on into the row above or below, up and down stay in
\* their column; the page has no edges.
Left ==
  /\ col' = (col + Width - 1) % Width
  /\ row' = IF col = 0 THEN (row + Height - 1) % Height ELSE row
Right ==
  /\ col' = (col + 1) % Width
  /\ row' = IF col + 1 = Width THEN (row + 1) % Height ELSE row
Up == row' = (row + Height - 1) % Height /\ UNCHANGED col
Down == row' = (row + 1) % Height /\ UNCHANGED col

Move == (Left \/ Right \/ Up \/ Down) /\ UNCHANGED <<rows, line>>

Erase ==
  /\ <<row, col>> # <<0, 0>> /\ Left
  /\ rows' = [rows EXCEPT ![row'][col'] = Space]
  /\ UNCHANGED line

Next ==
  \/ \E c \in Chars : Type(c)
  \/ NewLine \/ NextTab \/ Return \/ Clear \/ Move \/ Erase

Spec == Init /\ [][Next]_<<rows, row, col, line>>
=============================================================================
