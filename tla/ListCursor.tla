----------------------------- MODULE ListCursor -----------------------------
(***************************************************************************)
(* The cursors of the terminal's lists (internal/util/cursor.go, and the   *)
(* clamping every page does when it removes an item).  A cursor counts     *)
(* from 0, as in the code; a list of n items accepts 0 .. n-1, and 0 when  *)
(* it is empty.                                                            *)
(***************************************************************************)
EXTENDS Integers

CursorMovePage(cursor, total, perPage, forward) ==
    LET step == IF perPage < 1 THEN 1 ELSE perPage
        moved == IF forward THEN cursor + step ELSE cursor - step
    IN  IF moved < 0 \/ total <= 0 THEN 0
        ELSE IF moved >= total THEN total - 1 ELSE moved

\* Mistake: the bottom of an empty list is before its first item.
CursorLast(total) == total - 1

CursorGotoBottom(total) == IF total <= 0 THEN 0 ELSE total - 1

\* Mistake: the cursor steps back below the first item.
CursorAfterLastRemoval(cursor, total) ==
    IF cursor >= total THEN cursor - 1 ELSE cursor

\* The cursor after an item was removed and "total" are left.
CursorAfterRemoval(cursor, total) ==
    IF cursor >= total /\ cursor > 0 THEN cursor - 1 ELSE cursor

ValidCursor(cursor, total) ==
    cursor \in Nat /\ (cursor < total \/ cursor = 0)

=============================================================================
