------------------------------ MODULE RoomView ------------------------------
(***************************************************************************)
(* Which participants the room screen shows (client/src/components):       *)
(*                                                                         *)
(*   room.rs          the page of tiles, or of the presentation rail       *)
(*   room/layout.rs   the number of pages of the grid                      *)
(*                                                                         *)
(* Pure operators: the tiles shown are participants[FirstTile .. EndTile), *)
(* a Rust slice, so a first index beyond the end is a panic of the client. *)
(* Tile sizes are floating point geometry and are left out: no page number *)
(* depends on them.                                                        *)
(***************************************************************************)
EXTENDS Naturals

CONSTANTS
    TilesPerPage,       \* GRID_COLS * GRID_ROWS
    RailTilesPerPage    \* RAIL_TILES_PER_PAGE

ASSUME PageSizeAssumption ==
    TilesPerPage \in Nat \ {0} /\ RailTilesPerPage \in Nat \ {0}

Least(a, b) == IF a <= b THEN a ELSE b
SaturatingSub(a, b) == IF a >= b THEN a - b ELSE 0

PerPage(presentation) == IF presentation THEN RailTilesPerPage ELSE TilesPerPage

\* A quotient rounded down: the last tiles have no page.
GridPageCount_Mutant(n) ==
    IF n <= TilesPerPage THEN 1 ELSE n \div TilesPerPage

\* One page while everybody fits (also for nobody), else the rounded up quotient.
GridPageCount(n) ==
    IF n <= TilesPerPage THEN 1 ELSE (n + TilesPerPage - 1) \div TilesPerPage

RailPageCount(n) == (SaturatingSub(n, 1) \div RailTilesPerPage) + 1

PageCount(presentation, n) ==
    IF presentation THEN RailPageCount(n) ELSE GridPageCount(n)

\* A dropped clamp: the page the user was on, whatever the list is now.
ClampPage_Mutant(index, pages) == index

\* The page index is state of the component and may be older than the list.
ClampPage(index, pages) == Least(index, SaturatingSub(pages, 1))

FirstTile(presentation, n, index) ==
    ClampPage(index, PageCount(presentation, n)) * PerPage(presentation)

EndTile(presentation, n, index) ==
    Least(FirstTile(presentation, n, index) + PerPage(presentation), n)
=============================================================================
