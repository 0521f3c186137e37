------------------------------ MODULE PagedSet ------------------------------
(***************************************************************************)
(* The two handlers of atp60.js whose whole effect is on one paged index:  *)
(* addAcceptanceToSku / delAcceptanceFromSku, which add and remove an      *)
(* acceptance id in the acceptances-of-sku index of one SKU, and           *)
(* setDocument, which adds a document id to the global documents index.    *)
(* The checks those handlers make on the seller, the SKU and the           *)
(* acceptance record always pass here (one SKU, registered acceptances,   *)
(* the seller calling); the document record itself is opaque data.        *)
(***************************************************************************)
EXTENDS PagedIndex, Functions

CONSTANTS Ids,      \* acceptance ids
          DocIds    \* document ids

VARIABLES acps,     \* sku_acceptances_pages_ / sku_acceptances_page_ of one SKU
          docs      \* documents_pages / documents_page_

vars == <<acps, docs>>

Init ==
    /\ acps = EmptyIndex
    /\ docs = EmptyIndex

\* addAcceptanceToSku: the add must neither find the id (-2) nor hit the
\* page ceiling (-3); a failed assert leaves the store unchanged.
AddAcceptanceToSku(id) ==
    LET r == AddPagesItem(acps, id) IN
    /\ r.ret # -2
    /\ r.ret # -3
    /\ acps' = r.ix
    /\ UNCHANGED docs

\* delAcceptanceFromSku: the id must be found (ret # -1).
DelAcceptanceFromSku(id) ==
    LET r == SubPagesItem(acps, id) IN
    /\ r.ret # -1
    /\ acps' = r.ix
    /\ UNCHANGED docs

\* setDocument: only the page ceiling is an error; a known id is stored again.
SetDocument(id) ==
    LET r == AddPagesItem(docs, id) IN
    /\ r.ret # -3
    /\ docs' = r.ix
    /\ UNCHANGED acps

Next ==
    \/ \E id \in Ids : AddAcceptanceToSku(id) \/ DelAcceptanceFromSku(id)
    \/ \E id \in DocIds : SetDocument(id)

Spec == Init /\ [][Next]_vars

-----------------------------------------------------------------------------
Indexes == {acps, docs}

TypeOK ==
    \A ix \in Indexes :
        /\ ix.pages \in 0..MaxPages
        /\ ix.value \in Nat
        /\ ix.pg \in [PageIdx -> Seq(Ids \cup DocIds)]

\* The item count kept in the page-count record (pgs.value) equals the
\* number of entries listAll returns, across adds that open pages and the
\* page-count decrement _checkSubPagesItem makes when the count reaches 0.
CountMatchesListing ==
    \A ix \in Indexes : ix.value = Len(ListAll(ix))

\* No page at or beyond the declared page count holds an entry: after
\* _checkSubPagesItem lowers "pages", nothing is left where listAll and
\* the add/remove scans no longer look.
NothingHiddenPastPageCount ==
    \A ix \in Indexes : \A i \in PageIdx : i >= ix.pages => ix.pg[i] = << >>

\* The 2000-page ceiling of _checkAddPageItem holds: no page beyond it is
\* ever written and no page holds more than a page's capacity.
WithinCeiling ==
    \A ix \in Indexes :
        /\ ix.pg[MaxPages] = << >>
        /\ \A i \in PageIdx : Len(ix.pg[i]) <= PageCap

\* spec 4.2 and 8: the paged index is the set PagedSet describes.  listAll
\* holds an added id exactly once (the round-trip of spec 8), and the
\* membership test _checkAddPageItem(false, ...) that authorizeSku uses
\* ("not found" is -1) agrees with listAll (contains has addUnique's scan).
\* _checkAddArrayItem answers "full" (-3) before it looks for the id: a
\* second add of an id that sits in a full page appends it again to a
\* later page, and the test reports an absent id as present whenever the
\* last page scanned is full.
IndexIsASet ==
    /\ \A ix \in Indexes : IsInjective(ListAll(ix))
    /\ \A id \in Ids :
          (CheckPageItemCode(acps, id) # -1) <=> Contains(ListAll(acps), id)

=============================================================================
