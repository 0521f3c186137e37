----------------------------- MODULE PagedIndex -----------------------------
(***************************************************************************)
(* The paginated membership index of src/src/contract/atp60.js, as pure    *)
(* operators over one index value.  An index is the page-count record      *)
(* {pages, value} stored under the "..._pages_" key together with the page *)
(* records stored under "..._page_<i>".  A page record that was never      *)
(* written behaves exactly like an empty list (it is never full, holds     *)
(* nothing), so every page is a sequence and an unwritten one is << >>.    *)
(*                                                                         *)
(* Data abstraction: a page is "full" in the code when the length of its   *)
(* JSON text plus the length of the new id exceeds 256000 bytes.  For ids  *)
(* of one length L this holds exactly when the page already has            *)
(* floor((256000-1-L)/(L+3))+1 items; PageCap stands for that number.      *)
(* MaxPages stands for the 2000-page ceiling.  Page keys are not bounded   *)
(* by the store, so one page slot beyond the ceiling is kept to make an    *)
(* overrun observable.                                                     *)
(***************************************************************************)
EXTENDS Naturals, Sequences, SequencesExt, FiniteSetsExt

CONSTANTS PageCap, MaxPages

ASSUME PageCap \in Nat \ {0} /\ MaxPages \in Nat \ {0}

PageIdx == 0..MaxPages

\* The index when its page-count record is absent: pgs = {pages: 0, value: 0}.
EmptyIndex == [pages |-> 0, value |-> 0, pg |-> [i \in PageIdx |-> << >>]]

\* Mutant: the size test lets a page take one item beyond its capacity.
FullOffByOne(p) == Len(p) > PageCap

\* _checkAddArrayItem's size test: the page has no room for one more id.
Full(p) == Len(p) >= PageCap

\* _checkAddArrayItem's result on one page: -3 full (tested before the
\* duplicate test), -2 already there, -1 absent and would fit.
ArrayItemCode(p, id) ==
    IF Full(p) THEN -3 ELSE IF Contains(p, id) THEN -2 ELSE -1

\* The pages at which _checkAddPageItem's loop breaks.
StopPages(ix, id, isAdd) ==
    {i \in 0..(ix.pages - 1) :
        \/ ArrayItemCode(ix.pg[i], id) = -2
        \/ isAdd /\ ArrayItemCode(ix.pg[i], id) = -1}

\* _checkAddPageItem(false, ...): the loop's last result, used by callers
\* as a membership test (-1 means "not a member").
CheckPageItemCode(ix, id) ==
    LET stop == StopPages(ix, id, FALSE) IN
    IF stop # {} THEN ArrayItemCode(ix.pg[Min(stop)], id)
    ELSE IF ix.pages = 0 THEN -1
    ELSE ArrayItemCode(ix.pg[ix.pages - 1], id)

\* Mutant: the ceiling test admits one page more than 2000.
PageCountAllowedPlusOne(n) == n <= MaxPages + 1

\* _checkAddPageItem's ceiling test on the new page count (<= 2000).
PageCountAllowed(n) == n <= MaxPages

\* _checkAddPageItem(true, ...): append to the first page with room that is
\* scanned before any page holding id; otherwise open page number "pages"
\* if the new page count stays within MaxPages.
AddPageItem(ix, id) ==
    LET stop == StopPages(ix, id, TRUE) IN
    IF stop # {}
    THEN LET i == Min(stop) IN
         IF ArrayItemCode(ix.pg[i], id) = -1
         THEN [ret |-> -1, pg |-> [ix.pg EXCEPT ![i] = Append(@, id)]]
         ELSE [ret |-> -2, pg |-> ix.pg]
    ELSE IF PageCountAllowed(ix.pages + 1)
         THEN [ret |-> ix.pages + 1,
               pg  |-> [ix.pg EXCEPT ![ix.pages] = Append(@, id)]]
         \* every scanned page returned -3 and no page may be added
         ELSE [ret |-> -3, pg |-> ix.pg]

\* Mutant: the count also grows when the id was found (-2).
AddPagesItemCountsFound(ix, id) ==
    LET r == AddPageItem(ix, id) IN
    [ret |-> r.ret,
     ix  |-> IF r.ret >= -2
             THEN [pages |-> IF r.ret > 0 THEN r.ret ELSE ix.pages,
                   value |-> ix.value + 1, pg |-> r.pg]
             ELSE ix]

\* _checkAddPagesItem(true, id, ...): the result code and the new index.
\* The count grows on -1 and on a new page; pages is set to a new count.
AddPagesItem(ix, id) ==
    LET r == AddPageItem(ix, id) IN
    [ret |-> r.ret,
     ix  |-> IF r.ret >= -1
             THEN [pages |-> IF r.ret > 0 THEN r.ret ELSE ix.pages,
                   value |-> ix.value + 1,
                   pg    |-> r.pg]
             ELSE ix]

\* Mutant: the page count drops when the page emptied, not the index.
SubPagesItemDropsEmptyPage(ix, id) ==
    LET hit == {i \in 0..(ix.pages - 1) : Contains(ix.pg[i], id)} IN
    IF hit = {}
    THEN [ret |-> -1, ix |-> ix]
    ELSE LET i == Min(hit)
             p == RemoveFirst(ix.pg[i], id)
         IN  [ret |-> ix.value - 1,
              ix  |-> [pages |-> IF p = << >> THEN ix.pages - 1 ELSE ix.pages,
                       value |-> ix.value - 1,
                       pg    |-> [ix.pg EXCEPT ![i] = p]]]

\* _checkSubPagesItem(true, id, ...): drop the first occurrence in the first
\* page holding id; when the count reaches 0 the page count drops by one.
SubPagesItem(ix, id) ==
    LET hit == {i \in 0..(ix.pages - 1) : Contains(ix.pg[i], id)} IN
    IF hit = {}
    THEN [ret |-> -1, ix |-> ix]
    ELSE LET i == Min(hit)
             v == ix.value - 1
         IN  [ret |-> v,
              ix  |-> [pages |-> IF v = 0 THEN ix.pages - 1 ELSE ix.pages,
                       value |-> v,
                       pg    |-> [ix.pg EXCEPT ![i] = RemoveFirst(@, id)]]]

\* _getPagesItemsF: pages 0 .. pages-1 concatenated in order.
ListAll(ix) == FlattenSeq([k \in 1..ix.pages |-> ix.pg[k - 1]])

=============================================================================
