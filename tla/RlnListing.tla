----------------------------- MODULE RlnListing -----------------------------
(***************************************************************************)
(* Paginated listings (rln.rs): /listtransfers and /listpayments are asked *)
(* page by page, newest entry first, from the offset the last page named,  *)
(* while the node goes on creating entries and moving them out of the      *)
(* filter.  The other modules take a listing as one answer; this one shows *)
(* what such an answer is worth.  The node is external: an entry is named  *)
(* by its index, and an old node may ignore index_offset.                  *)
(***************************************************************************)
EXTENDS Naturals, Sequences, FiniteSets, Functions, RlnAnswers

CONSTANTS
    PageSizes,        \* values of sync.page_size: nothing validates it
    FullMinPageSize,  \* FULL_MIN_PAGE_SIZE
    MaxEntries,       \* bound on the entries the node creates
    MaxLeaves,        \* bound on the entries that leave the filter
    NULL

ASSUME ListingAssumption ==
    /\ PageSizes \subseteq Nat
    /\ FullMinPageSize \in Nat
    /\ MaxEntries \in Nat /\ MaxLeaves \in Nat
    /\ NULL \notin Nat

VARIABLES
    entries,   \* indexes of the entries the filter matches
    created,   \* index of the newest entry
    left,      \* entries that have left the filter
    honours,   \* the node honours index_offset
    pageSize,  \* sync.page_size
    pc,        \* "idle", "transfers" or "payments", "done", "failed"
    max,       \* entries asked for per page
    offset,    \* index_offset
    out,       \* what was listed so far
    repeated,  \* what was listed more than once
    stable     \* entries the filter has matched since the listing began

vars == <<entries, created, left, honours, pageSize, pc, max, offset, out, repeated, stable>>

nodeVars == <<entries, created, left, honours>>

Greatest(a, b) == IF a >= b THEN a ELSE b

Least(a, b) == IF a <= b THEN a ELSE b

Listing == pc \in {"transfers", "payments"}

-----------------------------------------------------------------------------
(* The node *)

\* How many of some entries are newer than an entry.
Newer(some, i) == Cardinality({j \in some : j > i})

\* What is listed from an offset on.
Below == {i \in entries : honours /\ offset # NULL => i < offset}

\* The page that follows an offset: the newest entries below it, newest first.
Page ==
    [k \in 1..Least(max, Cardinality(Below)) |->
        CHOOSE i \in Below : Newer(Below, i) = k - 1]

\* last_index_offset; 0 if the page is empty.
LastIndexOffset(page) == IF page = <<>> THEN 0 ELSE page[Len(page)]

FirstIndexOffset(page) == IF page = <<>> THEN 0 ELSE page[1]

Create ==
    /\ created < MaxEntries
    /\ created' = created + 1
    /\ entries' = entries \cup {created + 1}
    /\ UNCHANGED <<left, honours, pageSize, pc, max, offset, out, repeated, stable>>

\* An agnostic receive gets its asset: it leaves the assetless listing.
Leave(i) ==
    /\ pc # "payments"
    /\ Cardinality(left) < MaxLeaves
    /\ i \in entries
    /\ entries' = entries \ {i}
    /\ left' = left \cup {i}
    /\ stable' = stable \ {i}
    /\ UNCHANGED <<created, honours, pageSize, pc, max, offset, out, repeated>>

-----------------------------------------------------------------------------
Init ==
    /\ created \in 0..MaxEntries
    /\ entries = 1..created
    /\ left = {}
    /\ honours \in BOOLEAN
    /\ pageSize \in PageSizes
    /\ pc = "idle"
    /\ max = 0
    /\ offset = NULL
    /\ out = {}
    /\ repeated = {}
    /\ stable = {}

\* Mutant of AtLeastOne: page_size is taken as configured.
AsConfigured(n) == n

\* page_size.max(1), in list and in list_payments.
AtLeastOne(n) == Greatest(n, 1)

\* sync's page size: a full sync asks for large pages.
PageSizeOf(scope) ==
    IF scope = "Full" THEN Greatest(pageSize, FullMinPageSize) ELSE pageSize

Begin(kind, n) ==
    /\ ~Listing
    /\ pc' = kind
    /\ max' = AtLeastOne(n)
    /\ offset' = NULL
    /\ out' = {}
    /\ repeated' = {}
    /\ stable' = entries
    /\ UNCHANGED <<nodeVars, pageSize>>

\* list_transfers and list_assetless_transfers, from sync.
ListTransfers(scope) == Begin("transfers", PageSizeOf(scope))

\* list_payments, from sync_payments.
ListPayments == Begin("payments", pageSize)

\* Mutants of Ends: a full page is taken for the last; the offset that does not
\* move is not noticed.
EndsFull(page) ==
    Len(page) <= max \/ offset = LastIndexOffset(page)

EndsShort(page) ==
    Len(page) < max

\* A short page is the last, and so is one that leads nowhere.
Ends(page) ==
    Len(page) < max \/ offset = LastIndexOffset(page)

\* Mutant of NextOffset: the page's first entry.
NextOffsetFirst(page) == FirstIndexOffset(page)

NextOffset(page) == LastIndexOffset(page)

Take(page) ==
    /\ out' = out \cup Range(page)
    /\ repeated' = repeated \cup (out \cap Range(page))
    /\ IF Ends(page)
       THEN pc' = "done" /\ UNCHANGED offset
       ELSE offset' = NextOffset(page) /\ UNCHANGED pc
    /\ UNCHANGED <<nodeVars, pageSize, max, stable>>

\* A turn of the loop of list.
TransfersPage == pc = "transfers" /\ Take(Page)

\* A turn of the loop of list_payments.
PaymentsPage == pc = "payments" /\ Take(Page)

\* A page that is not answered well ends the listing: `?` drops what was listed.
PageFails ==
    /\ Listing
    /\ \E r \in {NoReply, Refusal(403, "LockedNode"), Refusal(500, "Unexpected")} :
        Send(r).kind # "Ok"
    /\ pc' = "failed"
    /\ out' = {}
    /\ repeated' = {}
    /\ UNCHANGED <<nodeVars, pageSize, max, offset, stable>>

Next ==
    \/ Create
    \/ \E i \in entries : Leave(i)
    \/ \E scope \in {"Full", "Pending"} : ListTransfers(scope)
    \/ ListPayments
    \/ TransfersPage \/ PaymentsPage
    \/ PageFails

Spec == Init /\ [][Next]_vars

\* Requests are answered or time out, so that the loops turn.
FairSpec == Spec /\ WF_vars(TransfersPage \/ PaymentsPage)

-----------------------------------------------------------------------------
(* Properties *)

\* Every variable has its type, and what is listed exists.
TypeOK ==
    /\ created \in 0..MaxEntries
    /\ entries \subseteq 1..created
    /\ left = (1..created) \ entries
    /\ honours \in BOOLEAN
    /\ pageSize \in PageSizes
    /\ pc \in {"idle", "transfers", "payments", "done", "failed"}
    /\ max \in Nat
    /\ Listing => max > 0
    /\ offset \in 0..created \cup {NULL}
    /\ repeated \subseteq out /\ out \subseteq 1..created
    /\ stable \subseteq entries

\* A listing that ends has every entry the filter matched throughout, though no
\* page saw them all, for every page size a configuration may hold (0 too).
Complete == pc = "done" /\ honours => stable \subseteq out

\* No entry comes twice: what is created meanwhile does not shift the pages that
\* are still to come.
NoneTwice == honours => repeated = {}

\* Every listing ends, although the node creates entries meanwhile, and also when
\* the node ignores index_offset and answers the first page again and again.
Terminates == Listing ~> ~Listing
=============================================================================
