--------------------------- MODULE DatasetCatalog ---------------------------
(***************************************************************************)
(* The catalog of importable datasets: Catalog.List summarises what the    *)
(* registered provider instances advertise, Catalog.Describe asks one of   *)
(* them, while instances come, go and change what they advertise.          *)
(***************************************************************************)
EXTENDS Paging, FiniteSets

CONSTANTS
    Instances,   \* provider instances the registry may list
    ServiceOf,   \* service name of an instance, a number: names are sorted
    Codes,       \* dataset codes, numbers as well
    Titles,      \* titles, which may differ between instances of a dataset
    Allowed,     \* instances whose endpoint is a DNS name with an allowed suffix
    Static,      \* services with a configured upstream
    NoTitle

ASSUME CatalogAssumption ==
    /\ IsFiniteSet(Instances) /\ IsFiniteSet(Codes)
    /\ ServiceOf \in [Instances -> Nat] /\ Codes \subseteq Nat
    /\ Allowed \subseteq Instances /\ NoTitle \notin Titles

VARIABLES
    discovery,  \* whether discovery is configured
    registry,   \* the metadata of each instance discovery lists
    listing,    \* the answer of Catalog.List, if that was the last step
    describe    \* the Describe call in progress, or the last one

catalogVars == <<discovery, registry, listing, describe>>

Services == {ServiceOf[i] : i \in Instances}
Datasets == Services \X Codes

(* External.  An instance is not listed, or its metadata advertises codes  *)
(* with titles, or does not parse.                                         *)
Down == [up |-> FALSE, parses |-> FALSE, title |-> [c \in Codes |-> NoTitle]]
Metadata ==
    {Down, [Down EXCEPT !.up = TRUE]}
        \cup {[up |-> TRUE, parses |-> TRUE, title |-> t] : t \in [Codes -> Titles \cup {NoTitle}]}

Searches == Titles \cup {"any"}
NoListing == [stage |-> "none", search |-> "any", items |-> <<>>, total |-> 0,
              page |-> 0, size |-> 0]
NoDescribe == [stage |-> "idle", dataset |-> <<0, 0>>, instance |-> "none"]

CatalogTypeOK ==
    /\ discovery \in BOOLEAN
    /\ registry \in [Instances -> Metadata]
    /\ listing.stage \in {"none", "answered", "unavailable", "panic"}
    /\ listing.page \in Signed /\ listing.size \in 0..MaxSize
    /\ \A n \in DOMAIN listing.items : listing.items[n].healthy \in 1..Cardinality(Instances)
    /\ describe.stage \in {"idle", "asked", "answered", "unavailable"}
    /\ describe.instance \in Instances \cup {"none"}

CatalogInit ==
    /\ discovery \in BOOLEAN
    /\ registry \in [Instances -> Metadata]
    /\ listing = NoListing /\ describe = NoDescribe
-----------------------------------------------------------------------------
(* ParseMetadata fails for the metadata as a whole.                        *)
Advertises(i, code) == registry[i].parses /\ registry[i].title[code] # NoTitle

supportsImportDataset(i, code) == Advertises(i, code)

(* A search term is compared with code, title and service; only the title  *)
(* can tell the instances of one dataset apart.                            *)
Found(search, i, code) ==
    Advertises(i, code) /\ search \in {"any", registry[i].title[code]}

(* One instance of summarizeDatasets' loop.                                *)
NoSummary == [title |-> NoTitle, healthy |-> 0]

(* Faulty variant: an instance that is met again starts the count anew.    *)
MergeRestarts(search, result, i) ==
    [d \in Datasets |->
        IF d[1] = ServiceOf[i] /\ Found(search, i, d[2])
        THEN [title |-> registry[i].title[d[2]], healthy |-> 1]
        ELSE result[d]]

Merge(search, result, i) ==
    [d \in Datasets |->
        IF d[1] = ServiceOf[i] /\ Found(search, i, d[2])
        THEN [title |-> IF result[d].healthy = 0 THEN registry[i].title[d[2]]
                                                 ELSE result[d].title,
              healthy |-> result[d].healthy + 1]
        ELSE result[d]]

(* By service, then by code.                                               *)
DatasetBefore(a, b) == a[1] < b[1] \/ (a[1] = b[1] /\ a[2] < b[2])

(* The loop over the instances, in the order discovery returned them.      *)
Summaries(instances, search) ==
    LET result[n \in 0..Len(instances)] ==
            IF n = 0 THEN [d \in Datasets |-> NoSummary]
                     ELSE Merge(search, result[n - 1], instances[n])
    IN result

summarizeDatasets(instances, search) ==
    LET result == Summaries(instances, search)[Len(instances)]
        found == {d \in Datasets : result[d].healthy > 0} IN
    [n \in 1..Cardinality(found) |->
        LET d == Sorted(found, DatasetBefore)[n] IN
        [dataset |-> d, title |-> result[d].title, healthy |-> result[d].healthy]]

Up == {i \in Instances : registry[i].up}
Orders(S) == {s \in [1..Cardinality(S) -> S] : IsInjective(s)}

(* A start beyond the end is an empty page, a negative one is an index     *)
(* out of range: the handler panics.                                       *)
Page(values, search, page, size) ==
    LET start == Offset(page, size) IN
    [stage |-> IF start < 0 THEN "panic" ELSE "answered", search |-> search,
     items |-> IF start \in 0..(Len(values) - 1) THEN Slice(values, start, size) ELSE <<>>,
     total |-> Len(values), page |-> page, size |-> size]

(* Without discovery the page is empty whatever its offset.  A call only   *)
(* reads: one at a time, between calls of Describe, is enough.             *)
ListDatasets(transport, search, page, size) ==
    LET p == PageOf(Received(transport, page))
        s == SizeOf(Received(transport, size)) IN
    /\ listing = NoListing /\ describe = NoDescribe
    /\ \E instances \in IF discovery THEN Orders(Up) ELSE {<<>>} :
           listing' = [Page(summarizeDatasets(instances, search), search, p, s)
                          EXCEPT !.stage = IF discovery THEN @ ELSE "answered"]
    /\ UNCHANGED <<discovery, registry, describe>>

ListFails ==
    /\ discovery /\ listing = NoListing
    /\ listing' = [NoListing EXCEPT !.stage = "unavailable"]
    /\ UNCHANGED <<discovery, registry, describe>>
-----------------------------------------------------------------------------
(* The instances client chooses from.                                      *)
Candidates(d) ==
    {i \in Up : ServiceOf[i] = d[1] /\ supportsImportDataset(i, d[2])}

Asking(d, i) == [stage |-> "asked", dataset |-> d, instance |-> i]
NoProvider == [NoDescribe EXCEPT !.stage = "unavailable"]

Describe(d) ==
    /\ describe.stage # "asked"
    /\ describe' \in
         IF ~discovery
         THEN {IF d[1] \in Static THEN Asking(d, "none") ELSE NoProvider}
         ELSE IF Candidates(d) = {} THEN {NoProvider}
         ELSE {IF i \in Allowed THEN Asking(d, i) ELSE NoProvider : i \in Candidates(d)}
    /\ listing' = NoListing
    /\ UNCHANGED <<discovery, registry>>

(* The instance answers with the descriptor of the dataset, or with an     *)
(* error or another dataset, and then is not listed for a while.           *)
Described(good) ==
    /\ describe.stage = "asked"
    /\ describe' = [NoDescribe EXCEPT !.stage = IF good THEN "answered" ELSE "unavailable"]
    /\ registry' = IF good \/ describe.instance = "none" THEN registry
                   ELSE [registry EXCEPT ![describe.instance] = Down]
    /\ listing' = NoListing
    /\ UNCHANGED discovery

(* External: an instance registers, leaves or advertises something else.   *)
Register(i, metadata) ==
    /\ metadata # registry[i]
    /\ registry' = [registry EXCEPT ![i] = metadata]
    /\ listing' = NoListing
    /\ UNCHANGED <<discovery, describe>>

CatalogNext ==
    \/ \E transport \in Transports, search \in Searches :
           \E page \in AskedPages \cap Sent(transport) :
               \E size \in AskedSizes \cap Sent(transport) :
                   ListDatasets(transport, search, page, size)
    \/ ListFails
    \/ \E d \in Datasets : Describe(d)
    \/ \E good \in BOOLEAN : Described(good)
    \/ \E i \in Instances : \E metadata \in Metadata : Register(i, metadata)
-----------------------------------------------------------------------------
(* The instances that offer a dataset under a search, and the datasets     *)
(* offered: the reference the listing is compared with.                    *)
Offering(search, d) ==
    {i \in Up : discovery /\ ServiceOf[i] = d[1] /\ Found(search, i, d[2])}
Offered(search) == {d \in Datasets : Offering(search, d) # {}}

(* A page of the catalog whose offset fits an int32 holds exactly the      *)
(* datasets that its number and size stand for in the order of service and *)
(* code, each with the number of instances that offer it and a title one   *)
(* of them gives it, whatever the order in which discovery returns the     *)
(* instances; an offset that does not fit is the only way to a panic.      *)
(* What such an offset does is left to Page, and Describe to Described.    *)
CatalogIsExact ==
    [][\A search \in Searches :
        listing'.stage \in {"answered", "panic"} /\ listing'.search = search
            /\ ~Overflows(listing'.page, listing'.size) =>
        LET items == listing'.items
            rank(d) == Cardinality({e \in Offered(search) : DatasetBefore(e, d)}) IN
        /\ listing'.stage = "answered"
        /\ listing'.total = Cardinality(Offered(search))
        /\ {items[n].dataset : n \in DOMAIN items} =
               {d \in Offered(search) : rank(d) \in
                   ((listing'.page - 1) * listing'.size)..(listing'.page * listing'.size - 1)}
        /\ \A n \in DOMAIN items :
               LET d == items[n].dataset IN
               /\ items[n].healthy = Cardinality(Offering(search, d))
               /\ \E i \in Offering(search, d) : registry[i].title[d[2]] = items[n].title
               /\ n > 1 => DatasetBefore(items[n - 1].dataset, d)]_catalogVars
=============================================================================
