------------------------------ MODULE Readers ------------------------------
(***************************************************************************)
(* The three parts of the service that read a stream or a list in pieces:  *)
(* StreamRows, the listing of jobs and the catalog of datasets.  They      *)
(* share the page arithmetic and no state, so that the steps of one never  *)
(* disturb another: a behaviour is about one of them.                      *)
(***************************************************************************)
EXTENDS RowStream, JobListing, DatasetCatalog

VARIABLE reader   \* the part this behaviour is about

vars == <<streamVars, listingVars, catalogVars, reader>>

TypeOK ==
    /\ reader \in {"stream", "listing", "catalog"}
    /\ StreamTypeOK /\ ListingTypeOK /\ CatalogTypeOK

(* The parts a behaviour is not about are at one of their initial states.  *)
NoStream == p = Opened(CHOOSE s \in Sources : TRUE)
NoTable == table = [j \in Jobs |-> NoRow]
NoRegistry == discovery = FALSE /\ registry = [i \in Instances |-> Down]

Init ==
    /\ reader \in {"stream", "listing", "catalog"}
    /\ reader = "stream" \/ NoStream
    /\ reader = "listing" \/ NoTable
    /\ reader = "catalog" \/ NoRegistry
    /\ StreamInit /\ ListingInit /\ CatalogInit

Next ==
    /\ \/ reader = "stream" /\ StreamNext /\ UNCHANGED <<listingVars, catalogVars>>
       \/ reader = "listing" /\ ListingNext /\ UNCHANGED <<streamVars, catalogVars>>
       \/ reader = "catalog" /\ CatalogNext /\ UNCHANGED <<streamVars, listingVars>>
    /\ UNCHANGED reader

Spec == Init /\ [][Next]_vars
=============================================================================
