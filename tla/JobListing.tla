----------------------------- MODULE JobListing -----------------------------
(***************************************************************************)
(* Listing import jobs page by page: Service.List and SQLRepository.List,  *)
(* whose COUNT and SELECT are two statements outside a transaction, while  *)
(* jobs are created, change status and are purged.                         *)
(***************************************************************************)
EXTENDS Paging, FiniteSets

CONSTANTS
    Jobs,        \* job ids; their order is the order of the ids
    Times,       \* created_at values: replicas' clocks need not agree
    MaxChanges,  \* bound on changes of the table
    MaxFaults    \* bound on statements that fail

ASSUME ListingAssumption ==
    Jobs \cup Times \subseteq Nat /\ IsFiniteSet(Jobs) /\ MaxChanges \in Nat /\ MaxFaults \in Nat

VARIABLES
    table,    \* the jobs of one tenant and application
    query,    \* the request in progress, or the last one answered
    walk,     \* history: pages 1, 2, ... read one after the other
    changes, faults

listingVars == <<table, query, walk, changes, faults>>

(* match: the row satisfies the filter of the request.                     *)
NoRow == [at |-> 0, match |-> FALSE]
Row == [at: Times, match: BOOLEAN]
Listed(t) == {j \in Jobs : t[j].match}

(* total is what COUNT returned, moved tells whether the listing changed   *)
(* since then (history); page and size are what the response says.         *)
NoQuery == [stage |-> "idle", transport |-> "http", rawPage |-> 1, rawSize |-> 1,
            total |-> 0, moved |-> FALSE, items |-> <<>>, page |-> 0, size |-> 0]
NoWalk == [next |-> 0, size |-> 0, kept |-> {}, seen |-> <<>>, entered |-> FALSE,
           left |-> FALSE, over |-> "no"]

ListingTypeOK ==
    /\ table \in [Jobs -> Row \cup {NoRow}]
    /\ query.stage \in {"idle", "count", "select", "answered", "failed"}
    /\ query.transport \in Transports
    /\ {query.rawPage, query.rawSize, query.page} \subseteq Signed
    /\ {query.size, walk.size} \subseteq 0..MaxSize
    /\ query.total \in 0..Cardinality(Jobs) /\ query.moved \in BOOLEAN
    /\ Range(query.items) \subseteq Jobs /\ Len(query.items) <= MaxSize
    /\ walk.kept \subseteq Jobs /\ walk.over \in {"no", "short", "total"}
    /\ changes \in 0..MaxChanges /\ faults \in 0..MaxFaults

ListingInit ==
    /\ table \in [Jobs -> Row \cup {NoRow}]
    /\ query = NoQuery /\ walk = NoWalk
    /\ changes = 0 /\ faults = 0
-----------------------------------------------------------------------------
(* ORDER BY created_at DESC, id DESC.                                      *)
JobBefore(a, b) ==
    \/ table[a].at > table[b].at
    \/ table[a].at = table[b].at /\ a > b

(* Service.List normalises for the query.                                  *)
QueryPage == PageOf(query.rawPage)
QuerySize == SizeOf(query.rawSize)

(* Each transport normalises once more, for the response: normalizePage,   *)
(* and max(page, 1) with normalizedPageSize.                               *)
ShownPage(transport, page) ==
    IF transport = "http" THEN PageOf(page) ELSE IF page > 1 THEN page ELSE 1

(* Faulty variant: gRPC echoes the size that was asked for.                *)
ShownSizeRaw(transport, size) == IF transport = "http" THEN SizeOf(size) ELSE size

ShownSize(transport, size) ==
    IF transport = "http" THEN SizeOf(size)
    ELSE IF size < 1 THEN DefaultSize ELSE IF size > MaxSize THEN MaxSize ELSE size

(* A request for the next page with the same size goes on with the walk.   *)
Walk(page, size) ==
    IF page = 1
        THEN [NoWalk EXCEPT !.next = 1, !.size = size, !.kept = Listed(table)]
        ELSE IF page = walk.next /\ size = walk.size THEN walk ELSE NoWalk

ListJobs(transport, page, size) ==
    LET p == Received(transport, page)
        s == Received(transport, size) IN
    /\ query.stage \in {"idle", "answered", "failed"}
    /\ query' = [NoQuery EXCEPT !.stage = "count", !.transport = transport,
                                !.rawPage = p, !.rawSize = s]
    /\ walk' = Walk(PageOf(p), SizeOf(s))
    /\ UNCHANGED <<table, changes, faults>>

Count ==
    /\ query.stage = "count"
    /\ query' = [query EXCEPT !.stage = "select", !.total = Cardinality(Listed(table))]
    /\ UNCHANGED <<table, walk, changes, faults>>

Continued(items) ==
    IF walk.next = 0 THEN walk
    ELSE [walk EXCEPT !.seen = @ \o items,
                      !.next = IF Len(items) < walk.size
                                   \/ QueryPage * QuerySize >= query.total THEN 0 ELSE @ + 1,
                      !.over = IF Len(items) < walk.size THEN "short"
                               ELSE IF QueryPage * QuerySize >= query.total THEN "total"
                               ELSE @]

(* The databases refuse a negative OFFSET.                                 *)
Select ==
    LET offset == Offset(QueryPage, QuerySize)
        items == Slice(Sorted(Listed(table), JobBefore), offset, QuerySize) IN
    /\ query.stage = "select"
    /\ IF offset < 0
       THEN /\ query' = [query EXCEPT !.stage = "failed"]
            /\ walk' = NoWalk
       ELSE /\ query' = [query EXCEPT !.stage = "answered", !.items = items,
                            !.page = ShownPage(query.transport, query.rawPage),
                            !.size = ShownSize(query.transport, query.rawSize)]
            /\ walk' = Continued(items)
    /\ UNCHANGED <<table, changes, faults>>

StatementFails ==
    /\ query.stage \in {"count", "select"} /\ faults < MaxFaults
    /\ query' = [query EXCEPT !.stage = "failed"]
    /\ walk' = NoWalk
    /\ faults' = faults + 1
    /\ UNCHANGED <<table, changes>>

(* Another request or a worker changes the row of j: a create, a change of *)
(* a column the filter names, a purge.                                     *)
Write(j, row) ==
    LET t == [table EXCEPT ![j] = row]
        in == Listed(t) \ Listed(table)
        out == Listed(table) \ Listed(t) IN
    /\ changes < MaxChanges /\ row # table[j]
    /\ table[j] # NoRow => row = NoRow \/ row.at = table[j].at
    /\ table' = t
    /\ query' = [query EXCEPT !.moved = @ \/ (query.stage = "select" /\ in \cup out # {})]
    /\ walk' = [walk EXCEPT !.kept = @ \ out, !.entered = @ \/ in # {}, !.left = @ \/ out # {}]
    /\ changes' = changes + 1
    /\ UNCHANGED faults

ListingNext ==
    \/ \E transport \in Transports :
           \E page \in AskedPages \cap Sent(transport) :
               \E size \in AskedSizes \cap Sent(transport) : ListJobs(transport, page, size)
    \/ Count
    \/ Select
    \/ StatementFails
    \/ \E j \in Jobs : \E row \in Row \cup {NoRow} : Write(j, row)
-----------------------------------------------------------------------------
(* Jobs of the listing that come before j.                                 *)
Rank(j) == Cardinality({k \in Listed(table) : JobBefore(k, j)})

(* Whatever page and size a client sends over either transport, a page     *)
(* whose offset fits an int32 is answered, with exactly the jobs that the  *)
(* page number and the size in the response stand for, newest first, and   *)
(* with the right total if the listing did not change since COUNT: the     *)
(* three places that normalise them agree (service.go List, handler.go     *)
(* normalizePage, import_server.go normalizedPageSize).                    *)
PageIsExact ==
    [][query.stage = "select" /\ faults' = faults /\ query'.stage # "select"
            /\ ~Overflows(QueryPage, QuerySize) =>
        /\ query'.stage = "answered"
        /\ ~query.moved => query'.total = Cardinality(Listed(table))
        /\ Range(query'.items) = {j \in Listed(table) :
               Rank(j) \in ((query'.page - 1) * query'.size)..(query'.page * query'.size - 1)}
        /\ \A m, n \in DOMAIN query'.items :
               m < n => JobBefore(query'.items[m], query'.items[n])]_listingVars

(* A client that reads page after page until one is short has met every    *)
(* job that was in the listing all the time, however many jobs were        *)
(* created meanwhile, unless one left it; a client that stops at the total *)
(* needs a listing no job entered either, because the total is counted     *)
(* before the page is read.  It meets no job twice unless one entered the  *)
(* listing, however many left it: ids break the ties of created_at.        *)
WalkIsExact ==
    /\ walk.over # "no" /\ ~walk.left /\ (walk.over = "total" => ~walk.entered)
        => walk.kept \subseteq Range(walk.seen)
    /\ ~walk.entered => IsInjective(walk.seen)
=============================================================================
