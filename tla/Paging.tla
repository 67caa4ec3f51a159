------------------------------- MODULE Paging -------------------------------
(***************************************************************************)
(* How the events of a check are cut into messages: chunk_events           *)
(* (summary.py) for texts, balanced_page_sizes and                         *)
(* partition_events_balanced (card_renderer.py) for cards.  n events in    *)
(* order, at most max on a page; a position and a page count from 1.       *)
(***************************************************************************)
EXTENDS Integers

\* Both ways to cut use the same number of pages: n over max, rounded up.
PageCount(n, max) == (n + max - 1) \div max

\* chunk_events: full pages, and the rest.
ChunkOf(pos, n, max) == ((pos - 1) \div max) + 1

\* balanced_page_sizes: its base size, and how many pages hold one more.
BaseSize(n, max)    == n \div PageCount(n, max)
LargerPages(n, max) == n % PageCount(n, max)

\* Its list: the larger pages come first.
PageSize(page, n, max) ==
  BaseSize(n, max) + (IF page <= LargerPages(n, max) THEN 1 ELSE 0)

\* The events before a page: the sum of the sizes of the pages before it.
PageStart(page, n, max) ==
  (page - 1) * BaseSize(n, max)
    + (IF page - 1 <= LargerPages(n, max) THEN page - 1 ELSE LargerPages(n, max))

\* partition_events_balanced: the page whose slice holds the position.
PageOf(pos, n, max) ==
  CHOOSE page \in 1..PageCount(n, max) :
    /\ PageStart(page, n, max) < pos
    /\ pos <= PageStart(page, n, max) + PageSize(page, n, max)

\* layout_spec: a card of at most MAX_ITEMS_PER_PAGE events, in columns.
MaxItemsPerPage == 15

Columns(count) == IF count <= 5 THEN 1 ELSE IF count <= 10 THEN 2 ELSE 3

Rows(count) == (count + Columns(count) - 1) \div Columns(count)
=============================================================================
