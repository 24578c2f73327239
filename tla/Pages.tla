--------------------------------- MODULE Pages ---------------------------------
(***************************************************************************)
(* How every list is cut into pages (common/query-builder): which rows a   *)
(* request gets, and which pages its answer points to.  The two are worked *)
(* out apart, from a count that is read before the rows are.               *)
(*                                                                         *)
(* A page or limit that is not given is 0 here, which is treated like any  *)
(* other that is no good.  What is claimed is assumed below, for TLC to    *)
(* evaluate.                                                               *)
(***************************************************************************)
EXTENDS Integers

DEFAULT_PAGE_SIZE     == 12
DEFAULT_MAX_PAGE_SIZE == 120
DEFAULT_PAGE          == 1

ParseLimit(limit) == IF limit \in 1..DEFAULT_MAX_PAGE_SIZE THEN limit ELSE DEFAULT_PAGE_SIZE
ParsePage(page)   == IF page > 0 THEN page ELSE DEFAULT_PAGE

GetOffset(limit, page) == (page - 1) * limit

\* Rounded up; no rows make no page.
TotalPages(total, limit) == (total + limit - 1) \div limit

\* The rows asked of the database: those after the first "skip", "take" at most.
BuildSafePaginationQuery(total, limit, page) ==
  LET size  == ParseLimit(limit)
      pages == IF total = 0 THEN 1 ELSE TotalPages(total, size)
      asked == ParsePage(page)
  IN [skip |-> GetOffset(size, IF asked <= pages THEN asked ELSE pages), take |-> size]

EnsurePageWithinBounds(page, pages) == IF pages > 0 /\ page > pages THEN pages ELSE page

\* The pages linked to, 0 for none.
NextPage(current, pages) == IF current < pages THEN current + 1 ELSE 0
PrevPage(current)        == IF current > 1 THEN current - 1 ELSE 0

BuildPaginationControls(total, limit, page) ==
  LET size    == ParseLimit(limit)
      pages   == TotalPages(total, size)
      current == EnsurePageWithinBounds(ParsePage(page), pages)
  IN [currentPage |-> current, pageSize |-> size, totalPages |-> pages,
      next |-> NextPage(current, pages), prev |-> PrevPage(current)]

-----------------------------------------------------------------------------
(* What is claimed *)

SomeTotal == 0..13 \cup {24, 25, 120, 121}
SomeLimit == {0, 1, 2, 5, 12, 13, 120, 121}
SomePage  == 0..4 \cup {13, 122}

RowsOf(total, limit, page) ==
  LET q == BuildSafePaginationQuery(total, limit, page)
  IN {i \in 1..total : i > q.skip /\ i <= q.skip + q.take}

\* Whoever follows the links from the first page is shown every row once and comes to an
\* end, and the links lead back the same way.
Tile(total, limit) ==
  LET pages == TotalPages(total, ParseLimit(limit)) IN
  /\ UNION {RowsOf(total, limit, p) : p \in 1..pages} = 1..total
  /\ \A p \in 1..pages :
       LET links == BuildPaginationControls(total, limit, p) IN
       /\ RowsOf(total, limit, p) # {}
       /\ links.next = (IF p = pages THEN 0 ELSE p + 1)
       /\ links.next # 0 =>
            /\ RowsOf(total, limit, p) \cap RowsOf(total, limit, links.next) = {}
            /\ BuildPaginationControls(total, limit, links.next).prev = p

\* The page an answer says it is is the one its rows are of, however far off the page
\* that was asked for; without any row the page is not brought back, and an answer may
\* point back to pages that are not there either.
Agree(total, limit, page) ==
  LET links == BuildPaginationControls(total, limit, page)
      query == BuildSafePaginationQuery(total, limit, page)
  IN /\ query.take = links.pageSize
     /\ total > 0 => query.skip = GetOffset(links.pageSize, links.currentPage)
     /\ total = 0 => query.skip = 0 /\ links.currentPage = ParsePage(page)

\* For these TLC has evaluated both; ContentAndAccessProofs has all others.
ASSUME PagesTile == \A total \in SomeTotal, limit \in SomeLimit : Tile(total, limit)

ASSUME PagesAgree ==
  \A total \in SomeTotal, limit \in SomeLimit, page \in SomePage : Agree(total, limit, page)
=============================================================================
