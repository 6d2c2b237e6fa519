------------------------------ MODULE BrowsePage ------------------------------
(***************************************************************************)
(* The schemas and tables of a user, a page at a time                      *)
(* (src/dashboard/src/components/BrowseData.tsx).  Schemas are numbered in *)
(* the order in which the API lists them, and so are the tables of each.   *)
(***************************************************************************)
EXTENDS Tab

CONSTANTS
    Schemas,      \* how many schemas there are
    Tables,       \* how many tables each has
    PageSizes,    \* of the list of schemas, the first one chosen is the least
    TablePage     \* page size of the lists of tables

ASSUME BrowseAssumption ==
    /\ Schemas \in Nat /\ Tables \in Nat /\ TablePage \in Nat \ {0}
    /\ PageSizes \subseteq Nat \ {0} /\ IsFiniteSet(PageSizes) /\ PageSizes # {}

Pages(total, size) == IF total = 0 THEN 1 ELSE (total + size - 1) \div size

OnPage(n, page, size) == page * size <= n /\ n < (page + 1) * size

Browse == [page |-> "browse", dbPage |-> 0, size |-> Min(PageSizes), schemas |-> "loading",
           expanded |-> {}, table |-> None, columns |-> "none", rows |-> "none",
           tablePage |-> [s \in 0 .. Schemas - 1 |-> 0], resized |-> FALSE]

Fetching == {"loading", "list", "error"}

BrowseViews ==
    [page : {"browse"}, dbPage : 0 .. Schemas, size : PageSizes, schemas : Fetching,
     expanded : SUBSET (0 .. Schemas - 1),
     table : ((0 .. Schemas - 1) \X (0 .. Tables - 1)) \cup {None},
     columns : Fetching \cup {"none"}, rows : Fetching \cup {"none"},
     tablePage : [0 .. Schemas - 1 -> 0 .. Tables], resized : BOOLEAN]

OnBrowse == view.page = "browse"

\* What the page lists once it is loaded.
Listed == {s \in 0 .. Schemas - 1 : view.schemas = "list" /\ OnPage(s, view.dbPage, view.size)}

TablesListed(s) ==
    {t \in 0 .. Tables - 1 : /\ s \in Listed \cap view.expanded
                             /\ OnPage(t, view.tablePage[s], TablePage)}

\* field is "schemas", or "columns" or "rows" of the selected table.
FetchPart(field) ==
    /\ OnBrowse /\ view[field] = "loading"
    /\ \/ view' = [view EXCEPT ![field] = "list"] /\ UNCHANGED faults
       \/ /\ faults > 0
          /\ faults' = faults - 1
          /\ view' = [view EXCEPT ![field] = "error"]
    /\ UNCHANGED <<calls, server, cache, told>>

refetchDbs ==
    /\ OnBrowse /\ view.schemas = "error"
    /\ view' = [view EXCEPT !.schemas = "loading"]
    /\ UNCHANGED <<calls, server, cache, told, faults>>

\* `resized` is history: the size has been chosen on another page than the first.
setDbPageSize(size) ==
    /\ OnBrowse /\ size # view.size
    /\ view' = [view EXCEPT !.size = size, !.schemas = "loading",
                            !.resized = @ \/ view.dbPage > 0]
    /\ UNCHANGED <<calls, server, cache, told, faults>>

\* A collapsed schema gives up its selected table, but not its page.
toggleDb(s) ==
    LET v == [view EXCEPT !.expanded = IF s \in @ THEN @ \ {s} ELSE @ \cup {s}] IN
    /\ OnBrowse /\ s \in Listed
    /\ view' = IF s \in view.expanded /\ view.table # None /\ view.table[1] = s
               THEN [v EXCEPT !.table = None, !.columns = "none", !.rows = "none"]
               ELSE v
    /\ UNCHANGED <<calls, server, cache, told, faults>>

handleSelectTable(s, t) ==
    /\ OnBrowse /\ t \in TablesListed(s)
    /\ view' = IF view.table = <<s, t>>
               THEN [view EXCEPT !.table = None, !.columns = "none", !.rows = "none"]
               ELSE [view EXCEPT !.table = <<s, t>>, !.columns = "loading",
                                 !.rows = "loading"]
    /\ UNCHANGED <<calls, server, cache, told, faults>>

\* Mutant: the button to the next page is enabled on the last one.
TurnsPast(page, pages) == {p \in {page - 1, page + 1} : pages > 1 /\ p \in 0 .. pages}

\* The buttons of a PaginationBar, which is there when there are several pages.
Turns(page, pages) == {p \in {page - 1, page + 1} : pages > 1 /\ p \in 0 .. pages - 1}

setTablePage(s, p) ==
    /\ OnBrowse /\ TablesListed(s) # {}
    /\ p \in Turns(view.tablePage[s], Pages(Tables, TablePage))
    /\ view' = [view EXCEPT !.tablePage[s] = p]
    /\ UNCHANGED <<calls, server, cache, told, faults>>

\* The bar is not there when the page is empty.
handleDbPageChange(p) ==
    /\ OnBrowse /\ Listed # {}
    /\ p \in Turns(view.dbPage, Pages(Schemas, view.size))
    /\ view' = [Browse EXCEPT !.size = view.size, !.dbPage = p]
    /\ UNCHANGED <<calls, server, cache, told, faults>>

\* "No databases are accessible through vtgate for this user."
SaysEmpty == OnBrowse /\ view.schemas = "list" /\ Listed = {}

BrowseSteps ==
    \/ refetchDbs
    \/ \E field \in {"schemas", "columns", "rows"} : FetchPart(field)
    \/ \E size \in PageSizes : setDbPageSize(size)
    \/ \E s \in 0 .. Schemas - 1 : toggleDb(s)
    \/ \E s \in 0 .. Schemas - 1, t \in 0 .. Tables - 1 : handleSelectTable(s, t)
    \/ \E s \in 0 .. Schemas - 1, p \in 0 .. Tables : setTablePage(s, p)
    \/ \E p \in 0 .. Schemas : handleDbPageChange(p)
=============================================================================
