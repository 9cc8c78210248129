---------------------------- MODULE UserListing ----------------------------
(***************************************************************************)
(* GET /users (src/modules/users/router.py, repository.py list_users,      *)
(* shared/pagination.py) while accounts come and go: one client walks      *)
(* through the pages.  Each page is two statements, the count and the      *)
(* page, in a READ COMMITTED transaction, so each sees what is committed   *)
(* when it runs.  The client asks for the next page as long as the total   *)
(* says there is one.                                                      *)
(***************************************************************************)
EXTENDS UserAccounts

CONSTANT PageSize           \* items per page

ASSUME PageAssumption == PageSize \in Nat \ {0}

VARIABLE walk               \* the walk through the pages

Walk == [pc    : {"idle", "count", "page"},
         page  : Nat,
         total : Nat,           \* as answered with the last page
         rows  : SUBSET Uids,   \* rows at the time of the last count
         seen  : SUBSET Uids,   \* accounts the client has been shown
         start : SUBSET Uids,   \* live accounts when the walk began,
         dead  : SUBSET Uids]   \* and the deleted ones

StoredUids == {u \in Uids : Stored(u)}
LiveUids == {u \in Uids : Live(u)}

NoWalk == [pc |-> "idle", page |-> 0, total |-> 0, rows |-> {}, seen |-> {},
           start |-> {}, dead |-> {}]

\* Page p: the live accounts with exactly offset .. offset+limit-1 newer ones.
Newer(u) == {v \in LiveUids : v > u}
\* Faulty variant: pages counted from 0.
OffsetFromZero(page) == page * PageSize

Offset(page) == (page - 1) * PageSize
Items(page) ==
    {u \in LiveUids : /\ Cardinality(Newer(u)) >= Offset(page)
                      /\ Cardinality(Newer(u)) < Offset(page) + PageSize}

BeginWalk ==
    /\ walk.pc = "idle"
    /\ walk' = [NoWalk EXCEPT !.pc = "count", !.page = 1, !.start = LiveUids,
                              !.dead = StoredUids \ LiveUids]

Count ==
    /\ walk.pc = "count"
    /\ walk' = [walk EXCEPT !.pc = "page", !.total = Cardinality(LiveUids), !.rows = StoredUids]

Shown == walk.seen \cup Items(walk.page)
More == walk.page * PageSize < walk.total

Page ==
    /\ walk.pc = "page"
    /\ walk' = IF More THEN [walk EXCEPT !.seen = Shown, !.page = @ + 1, !.pc = "count"]
               ELSE NoWalk

WalkStep == (Count \/ Page) /\ UNCHANGED accountVars
WalkArrival == BeginWalk /\ UNCHANGED accountVars
=============================================================================
