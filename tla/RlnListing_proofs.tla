------------------------- MODULE RlnListing_proofs --------------------------
(***************************************************************************)
(* Proofs about RlnListing: for every page size, any number of entries and *)
(* whatever the node creates or moves between two pages, a listing that    *)
(* ends is complete and has nothing twice.                                 *)
(***************************************************************************)
EXTENDS RlnListing, FiniteSetTheorems, TLAPS

-----------------------------------------------------------------------------
(* Pages *)

\* The older an entry, the more entries are newer; each number of newer entries
\* is that of one entry.
LEMMA Ranks ==
  ASSUME NEW some \in SUBSET Nat, IsFiniteSet(some)
  PROVE  /\ Cardinality(some) \in Nat
         /\ \A i \in some : Newer(some, i) \in 0..(Cardinality(some) - 1)
         /\ \A i, j \in some : i < j => Newer(some, j) < Newer(some, i)
         /\ \A k \in 0..(Cardinality(some) - 1) : \E i \in some : Newer(some, i) = k
  <1> DEFINE n == Cardinality(some)
             above(i) == {j \in some : j > i}
  <1>0. n \in Nat
    BY FS_CardinalityType
  <1>1. ASSUME NEW i \in some
        PROVE  IsFiniteSet(above(i)) /\ Newer(some, i) \in 0..(n - 1)
    <2>1. above(i) \in SUBSET (some \ {i})
      OBVIOUS
    <2>2. IsFiniteSet(some \ {i}) /\ Cardinality(some \ {i}) = n - 1
      BY FS_RemoveElement
    <2>3. /\ IsFiniteSet(above(i)) /\ Cardinality(above(i)) <= n - 1
          /\ Cardinality(above(i)) \in Nat
      BY <2>1, <2>2, FS_Subset, FS_CardinalityType
    <2> QED BY <1>0, <2>3 DEF Newer
  <1>2. ASSUME NEW i \in some, NEW j \in some, i < j
        PROVE  Newer(some, j) < Newer(some, i)
    <2>0. some \subseteq Nat /\ i \in Nat /\ j \in Nat
      OBVIOUS
    <2>1. above(j) \in SUBSET above(i) /\ above(j) # above(i)
      <3>1. j \in above(i) /\ j \notin above(j)
        BY <1>2, <2>0
      <3>2. \A k \in above(j) : k \in above(i)
        BY <1>2, <2>0
      <3> QED BY <3>1, <3>2
    <2>2. Cardinality(above(j)) <= Cardinality(above(i))
      BY <1>1, <2>1, FS_Subset
    <2>3. Cardinality(above(j)) # Cardinality(above(i))
      BY <1>1, <2>1, FS_Subset
    <2>4. Cardinality(above(j)) \in Nat /\ Cardinality(above(i)) \in Nat
      BY <1>1, FS_CardinalityType
    <2> QED BY <2>2, <2>3, <2>4 DEF Newer
  <1>3. ASSUME NEW k \in 0..(n - 1) PROVE \E i \in some : Newer(some, i) = k
    <2> DEFINE rank == [i \in some |-> Newer(some, i)]
    <2>1. IsFiniteSet(0..(n - 1)) /\ Cardinality(0..(n - 1)) = n
      BY <1>0, FS_Interval
    <2>2. rank \in [some -> 0..(n - 1)]
      BY <1>1
    <2>3. \A i, j \in some : rank[i] = rank[j] => i = j
      <3> SUFFICES ASSUME NEW i \in some, NEW j \in some, i # j PROVE rank[i] # rank[j]
        OBVIOUS
      <3>1. i < j \/ j < i
        OBVIOUS
      <3>2. rank[i] \in Nat /\ rank[j] \in Nat
        BY <1>0, <2>2
      <3> QED BY <1>2, <3>1, <3>2
    <2>4. rank \in Injection(some, 0..(n - 1))
      BY <2>2, <2>3 DEF Injection, IsInjective
    <2>5. rank \in Surjection(some, 0..(n - 1))
      BY <2>1, <2>4, FS_Injection
    <2> QED BY <2>5 DEF Surjection
  <1> QED BY <1>0, <1>1, <1>2, <1>3

\* What is listed from an offset on is finite and exists.
LEMMA BelowExists ==
  ASSUME TypeOK
  PROVE  /\ Below \subseteq entries /\ Below \subseteq 1..created /\ Below \in SUBSET Nat
         /\ IsFiniteSet(Below) /\ Cardinality(Below) \in Nat
  <1>1. created \in Nat /\ entries \subseteq 1..created
    BY ListingAssumption DEF TypeOK
  <1>2. Below \subseteq entries
    BY DEF Below
  <1>3. IsFiniteSet(1..created) /\ Below \in SUBSET (1..created)
    BY <1>1, <1>2, FS_Interval
  <1>4. IsFiniteSet(Below)
    BY <1>3, FS_Subset
  <1>5. Cardinality(Below) \in Nat
    BY <1>4, FS_CardinalityType
  <1>6. Below \in SUBSET Nat
    BY <1>1, <1>3
  <1> QED BY <1>2, <1>3, <1>4, <1>5, <1>6

\* A page holds the newest entries there are, newest first: its last entry is the
\* oldest of it, and what it leaves out is older still.
LEMMA PageHolds ==
  ASSUME TypeOK, Listing
  PROVE  /\ Len(Page) = Least(max, Cardinality(Below)) /\ Len(Page) \in Nat
         /\ Range(Page) \subseteq Below
         /\ Len(Page) < max => Range(Page) = Below
         /\ Page = <<>> <=> Len(Page) = 0
         /\ Len(Page) > 0 =>
              /\ LastIndexOffset(Page) \in Range(Page)
              /\ \A i \in Range(Page) : i >= LastIndexOffset(Page)
              /\ \A i \in Below : i >= LastIndexOffset(Page) => i \in Range(Page)
  <1> DEFINE size == Cardinality(Below)
             n == Least(max, size)
             kth(k) == CHOOSE i \in Below : Newer(Below, i) = k - 1
  <1>0. Below \in SUBSET Nat /\ IsFiniteSet(Below) /\ size \in Nat /\ max \in Nat /\ max > 0
    BY BelowExists DEF TypeOK
  <1>1. n \in Nat /\ n <= size /\ n <= max /\ (n < max => n = size)
    BY <1>0 DEF Least
  <1>2. /\ \A i \in Below : Newer(Below, i) \in 0..(size - 1)
        /\ \A i, j \in Below : i < j => Newer(Below, j) < Newer(Below, i)
        /\ \A k \in 0..(size - 1) : \E i \in Below : Newer(Below, i) = k
    BY <1>0, Ranks
  <1>3. Page = [k \in 1..n |-> kth(k)]
    BY DEF Page
  <1> HIDE DEF size
  <1>4. ASSUME NEW k \in 1..n PROVE kth(k) \in Below /\ Newer(Below, kth(k)) = k - 1
    <2>1. k - 1 \in 0..(size - 1)
      BY <1>0, <1>1
    <2>2. \E i \in Below : Newer(Below, i) = k - 1
      BY <1>2, <2>1
    <2> QED BY <2>2
  <1> HIDE DEF n, kth
  <1>5. Page \in Seq(Below) /\ Len(Page) = n /\ DOMAIN Page = 1..n
        /\ \A k \in 1..n : Page[k] = kth(k)
    BY <1>1, <1>3, <1>4
  <1>6. Range(Page) \subseteq Below
    BY <1>4, <1>5 DEF Range
  <1>7. ASSUME NEW i \in Below, Newer(Below, i) < n PROVE i \in Range(Page)
    <2> DEFINE k == Newer(Below, i) + 1
    <2>1. k \in 1..n /\ Newer(Below, i) = k - 1
      BY <1>0, <1>1, <1>2, <1>7
    <2>2. kth(k) \in Below /\ Newer(Below, kth(k)) = k - 1
      BY <1>4, <2>1
    <2> HIDE DEF k
    <2>3. /\ kth(k) \in Nat /\ i \in Nat
          /\ Newer(Below, i) \in Nat /\ Newer(Below, kth(k)) = Newer(Below, i)
      <3>1. kth(k) \in Nat /\ i \in Nat
        BY <1>0, <2>2
      <3>2. Newer(Below, i) \in 0..(size - 1)
        BY <1>2
      <3>3. Newer(Below, kth(k)) = Newer(Below, i)
        BY <2>1, <2>2
      <3> QED BY <1>0, <3>1, <3>2, <3>3
    <2>4. ~(kth(k) < i) /\ ~(i < kth(k))
      BY <1>2, <2>2, <2>3
    <2>5. kth(k) = i
      BY <2>3, <2>4
    <2> QED BY <1>5, <2>1, <2>5 DEF Range
  <1>8. n < max => Range(Page) = Below
    <2> SUFFICES ASSUME n < max, NEW i \in Below PROVE i \in Range(Page)
      BY <1>6
    <2>1. Newer(Below, i) < n
      BY <1>0, <1>1, <1>2
    <2> QED BY <1>7, <2>1
  <1>9. ASSUME n > 0
        PROVE  /\ LastIndexOffset(Page) = kth(n) /\ LastIndexOffset(Page) \in Range(Page)
               /\ \A i \in Range(Page) : i >= LastIndexOffset(Page)
               /\ \A i \in Below : i >= LastIndexOffset(Page) => i \in Range(Page)
    <2>1. n \in 1..n
      BY <1>1, <1>9
    <2>2. Page # <<>>
      BY <1>5, <1>9
    <2>3. LastIndexOffset(Page) = kth(n)
      BY <1>5, <2>1, <2>2 DEF LastIndexOffset
    <2>4. kth(n) \in Range(Page) /\ kth(n) \in Below /\ Newer(Below, kth(n)) = n - 1
      BY <1>4, <1>5, <2>1 DEF Range
    <2>5. ASSUME NEW i \in Range(Page) PROVE i >= kth(n)
      <3>1. PICK k \in 1..n : i = kth(k)
        BY <1>5, <2>5 DEF Range
      <3>2. i \in Below /\ Newer(Below, i) = k - 1
        BY <1>4, <3>1
      <3>3. i \in Nat /\ kth(n) \in Nat /\ k \in Nat /\ k <= n
        <4>1. i \in Nat /\ kth(n) \in Nat
          BY <1>0, <2>4, <3>2
        <4>2. k \in Nat /\ k <= n
          BY <1>1
        <4> QED BY <4>1, <4>2
      <3>4. ~(i < kth(n))
        <4>1. i < kth(n) => n - 1 < k - 1
          BY <1>2, <2>4, <3>2
        <4> QED BY <1>1, <3>3, <4>1
      <3> QED BY <3>3, <3>4
    <2>6. ASSUME NEW i \in Below, i >= kth(n) PROVE i \in Range(Page)
      <3>0. i \in Nat /\ kth(n) \in Nat
        BY <1>0, <2>4
      <3>1. i = kth(n) \/ kth(n) < i
        BY <2>6, <3>0
      <3>2. Newer(Below, i) \in 0..(size - 1) /\ Newer(Below, i) <= n - 1
        BY <1>1, <1>2, <2>4, <3>1
      <3> QED BY <1>0, <1>1, <1>7, <3>2
    <2> QED BY <2>3, <2>4, <2>5, <2>6
  <1>10. Page = <<>> <=> n = 0
    BY <1>1, <1>5
  <1> QED BY <1>1, <1>5, <1>6, <1>8, <1>9, <1>10 DEF n, size

-----------------------------------------------------------------------------
(* Type correctness *)

LEMMA TakeTyped ==
  ASSUME TypeOK, Listing, Take(Page)
  PROVE  TypeOK'
  <1>0. created \in Nat /\ entries \subseteq 1..created
    BY ListingAssumption DEF TypeOK
  <1>1. Range(Page) \subseteq 1..created /\ LastIndexOffset(Page) \in 0..created
    <2>1. Range(Page) \subseteq 1..created
      BY PageHolds, BelowExists
    <2>2. Len(Page) > 0 => LastIndexOffset(Page) \in Range(Page)
      BY PageHolds
    <2>3. Len(Page) = 0 => LastIndexOffset(Page) = 0
      BY PageHolds DEF LastIndexOffset
    <2>4. Len(Page) \in Nat
      BY PageHolds
    <2> QED BY <1>0, <2>1, <2>2, <2>3, <2>4
  <1> DEFINE page == Page
  <1>2. /\ UNCHANGED <<nodeVars, pageSize, max, stable>>
        /\ out' = out \cup Range(page) /\ repeated' = repeated \cup (out \cap Range(page))
        /\ pc' \in {pc, "done"} /\ offset' \in {offset, LastIndexOffset(page)}
    BY DEF Take, NextOffset
  <1> HIDE DEF page
  <1>3. Listing' => Listing
    BY <1>2 DEF Listing
  <1> QED BY <1>0, <1>1, <1>2, <1>3 DEF TypeOK, nodeVars, page

LEMMA TypeNext == TypeOK /\ [Next]_vars => TypeOK'
  <1> SUFFICES ASSUME TypeOK, [Next]_vars PROVE TypeOK'
    OBVIOUS
  <1>0. created \in Nat /\ entries \subseteq 1..created
    BY ListingAssumption DEF TypeOK
  <1>1. CASE Create
    <2>1. created' = created + 1 /\ created' \in 0..MaxEntries
      BY <1>0, <1>1, ListingAssumption DEF Create, TypeOK
    <2>2. entries' = entries \cup {created + 1} /\ left' = left /\ left = (1..created) \ entries
      BY <1>1 DEF Create, TypeOK
    <2>3. 1..created' = 1..created \cup {created + 1} /\ created + 1 \notin 1..created
      BY <1>0, <2>1
    <2>4. entries' \subseteq 1..created' /\ left' = (1..created') \ entries'
      BY <1>0, <2>2, <2>3
    <2>5. 0..created \subseteq 0..created'
      BY <1>0, <2>1
    <2> QED BY <1>0, <1>1, <2>1, <2>2, <2>3, <2>4, <2>5 DEF Create, TypeOK, Listing
  <1>2. ASSUME NEW i \in entries, Leave(i) PROVE TypeOK'
    BY <1>0, <1>2 DEF Leave, TypeOK, Listing
  <1>3. ASSUME NEW kind \in {"transfers", "payments"}, NEW n \in Nat, Begin(kind, n)
        PROVE  TypeOK'
    <2>1. AtLeastOne(n) \in Nat /\ AtLeastOne(n) > 0
      BY DEF AtLeastOne, Greatest
    <2> QED BY <1>0, <1>3, <2>1 DEF Begin, TypeOK, Listing, nodeVars
  <1>4. pageSize \in Nat /\ \A scope \in {"Full", "Pending"} : PageSizeOf(scope) \in Nat
    BY ListingAssumption DEF TypeOK, PageSizeOf, Greatest
  <1>5. CASE (\E scope \in {"Full", "Pending"} : ListTransfers(scope)) \/ ListPayments
    BY <1>3, <1>4, <1>5 DEF ListTransfers, ListPayments
  <1>6. CASE TransfersPage \/ PaymentsPage
    BY <1>6, TakeTyped DEF TransfersPage, PaymentsPage, Listing
  <1>7. CASE PageFails
    BY <1>0, <1>7 DEF PageFails, TypeOK, Listing, nodeVars
  <1>8. CASE UNCHANGED vars
    BY <1>8 DEF vars, TypeOK, Listing
  <1> QED BY <1>1, <1>2, <1>5, <1>6, <1>7, <1>8 DEF Next

\* Every variable has its type, and only what exists is listed.
THEOREM TypeCorrect == Spec => []TypeOK
  <1>1. Init => TypeOK
    BY ListingAssumption DEF Init, TypeOK, Listing
  <1> QED BY <1>1, TypeNext, PTL DEF Spec

-----------------------------------------------------------------------------
(* Completeness *)

\* What a listing has seen while it goes on: nothing before its first page, then
\* everything the filter still matches from the offset up, and nothing below it.
Seen ==
    /\ offset = NULL => out = {}
    /\ offset # NULL =>
          /\ \A i \in out : i >= offset
          /\ \A i \in stable : i >= offset => i \in out

\* The strengthening of Complete and NoneTwice, for a node that honours the offset.
Sweeps == honours => NoneTwice /\ Complete /\ (Listing => Seen)

\* A page of a node that honours the offset: it has what lies below the offset,
\* so that nothing comes again, and the last one has all of it.
LEMMA PageFollows ==
  ASSUME TypeOK, Listing, honours, Seen
  PROVE  /\ out \cap Range(Page) = {}
         /\ Ends(Page) => \A i \in Below : i \in Range(Page)
         /\ \A i \in stable : i \in Below \/ i \in out
  <1>0. created \in Nat /\ entries \subseteq 1..created /\ stable \subseteq entries
        /\ offset \in 0..created \cup {NULL} /\ max > 0 /\ out \subseteq 1..created
    BY ListingAssumption DEF TypeOK
  <1>1. Below = {i \in entries : offset # NULL => i < offset}
    BY DEF Below
  <1>2. Range(Page) \subseteq Below
    BY PageHolds
  <1>3. out \cap Range(Page) = {}
    <2>1. ASSUME offset # NULL, NEW i \in out, i \in Below PROVE FALSE
      <3>1. i \in Nat /\ offset \in Nat /\ i >= offset /\ i < offset
        BY <1>0, <1>1, <2>1 DEF Seen
      <3> QED BY <3>1
    <2> QED BY <1>2, <2>1 DEF Seen
  <1>4. ASSUME Ends(Page) PROVE \A i \in Below : i \in Range(Page)
    <2>1. CASE Len(Page) < max
      BY <2>1, PageHolds
    <2>2. CASE Len(Page) > 0 /\ offset = LastIndexOffset(Page)
      <3>1. LastIndexOffset(Page) \in Below
        BY <1>2, <2>2, PageHolds
      <3>2. offset \in Nat /\ offset < offset
        BY <1>0, <1>1, <2>2, <3>1, ListingAssumption
      <3> QED BY <3>2
    <2>3. Len(Page) \in Nat /\ max \in Nat
      BY PageHolds DEF TypeOK
    <2>4. Len(Page) < max \/ offset = LastIndexOffset(Page)
      BY <1>4 DEF Ends
    <2> QED BY <1>0, <2>1, <2>2, <2>3, <2>4
  <1>5. ASSUME NEW i \in stable PROVE i \in Below \/ i \in out
    <2>1. i \in entries /\ i \in Nat
      BY <1>0
    <2>2. CASE offset = NULL
      BY <1>1, <2>1, <2>2
    <2>3. CASE offset # NULL
      <3>1. offset \in Nat
        BY <1>0, <2>3
      <3>2. i < offset \/ i >= offset
        BY <2>1, <3>1
      <3> QED BY <1>1, <2>1, <2>3, <3>2 DEF Seen
    <2> QED BY <2>2, <2>3
  <1> QED BY <1>3, <1>4, <1>5

\* A page that does not end the listing is full, and its last entry is the oldest
\* of what has been seen.
LEMMA PageAdvances ==
  ASSUME TypeOK, Listing, honours, Seen, ~Ends(Page)
  PROVE  /\ LastIndexOffset(Page) # NULL
         /\ \A i \in out \cup Range(Page) : i >= LastIndexOffset(Page)
         /\ \A i \in stable : i >= LastIndexOffset(Page) => i \in out \cup Range(Page)
  <1> DEFINE last == LastIndexOffset(Page)
  <1>0. created \in Nat /\ entries \subseteq 1..created /\ stable \subseteq entries
        /\ offset \in 0..created \cup {NULL} /\ max > 0 /\ max \in Nat /\ out \subseteq 1..created
    BY ListingAssumption DEF TypeOK
  <1>1. Len(Page) > 0
    <2>1. Len(Page) \in Nat /\ ~(Len(Page) < max)
      BY PageHolds DEF Ends
    <2> QED BY <1>0, <2>1
  <1>2. /\ last \in Range(Page) /\ last \in Below
        /\ \A i \in Range(Page) : i >= last
        /\ \A i \in Below : i >= last => i \in Range(Page)
    BY <1>1, PageHolds
  <1>3. last \in entries /\ last \in Nat
    <2>1. Below \subseteq entries
      BY BelowExists
    <2> HIDE DEF last
    <2> QED BY <1>0, <1>2, <2>1
  <1>4. ASSUME NEW i \in out PROVE i >= last
    <2>1. offset # NULL /\ i >= offset /\ last < offset
      BY <1>2 DEF Seen, Below
    <2>2. i \in Nat /\ offset \in Nat
      BY <1>0, <2>1
    <2> QED BY <1>3, <2>1, <2>2
  <1>5. \A i \in stable : i >= last => i \in out \cup Range(Page)
    BY <1>2, PageFollows
  <1> QED BY <1>2, <1>3, <1>4, <1>5, ListingAssumption

LEMMA TakeSweeps ==
  ASSUME TypeOK, Listing, Sweeps, Take(Page)
  PROVE  Sweeps'
  <1> SUFFICES ASSUME honours' PROVE (NoneTwice /\ Complete /\ (Listing => Seen))'
    BY DEF Sweeps
  <1> DEFINE page == Page
  <1>1. /\ honours /\ repeated = {} /\ Seen
        /\ out' = out \cup Range(page) /\ repeated' = repeated \cup (out \cap Range(page))
        /\ stable' = stable
    BY DEF Take, nodeVars, Sweeps, NoneTwice
  <1>2. NoneTwice'
    BY <1>1, PageFollows DEF NoneTwice
  <1>3. CASE Ends(page)
    <2>1. pc' = "done" /\ offset' = offset
      BY <1>3 DEF Take
    <2>2. stable' \subseteq out'
      BY <1>1, <1>3, PageFollows
    <2> QED BY <1>2, <2>1, <2>2 DEF Complete, Listing
  <1>4. CASE ~Ends(page)
    <2>1. pc' = pc /\ offset' = LastIndexOffset(page)
      BY <1>4 DEF Take, NextOffset
    <2>2. /\ offset' # NULL
          /\ \A i \in out' : i >= offset'
          /\ \A i \in stable' : i >= offset' => i \in out'
      <3> HIDE DEF page
      <3>1. /\ LastIndexOffset(page) # NULL
            /\ \A i \in out \cup Range(page) : i >= LastIndexOffset(page)
            /\ \A i \in stable : i >= LastIndexOffset(page) => i \in out \cup Range(page)
        BY <1>1, <1>4, PageAdvances DEF page
      <3> QED BY <1>1, <2>1, <3>1
    <2>3. Complete'
      BY <2>1 DEF Complete, Listing
    <2> QED BY <1>2, <2>2, <2>3 DEF Seen
  <1> QED BY <1>3, <1>4

LEMMA SweepsNext == TypeOK /\ Sweeps /\ [Next]_vars => Sweeps'
  <1> SUFFICES ASSUME TypeOK, Sweeps, [Next]_vars PROVE Sweeps'
    OBVIOUS
  <1>0. created \in Nat /\ entries \subseteq 1..created /\ stable \subseteq entries
        /\ offset \in 0..created \cup {NULL}
    BY ListingAssumption DEF TypeOK
  <1>1. CASE Create
    BY <1>0, <1>1 DEF Create, Sweeps, NoneTwice, Complete, Listing, Seen
  <1>2. ASSUME NEW i \in entries, Leave(i) PROVE Sweeps'
    BY <1>0, <1>2 DEF Leave, Sweeps, NoneTwice, Complete, Listing, Seen
  <1>3. ASSUME NEW kind \in {"transfers", "payments"}, NEW n, Begin(kind, n) PROVE Sweeps'
    BY <1>0, <1>3 DEF Begin, Sweeps, NoneTwice, Complete, Listing, Seen
  <1>4. CASE (\E scope \in {"Full", "Pending"} : ListTransfers(scope)) \/ ListPayments
    BY <1>3, <1>4 DEF ListTransfers, ListPayments
  <1>5. CASE TransfersPage \/ PaymentsPage
    BY <1>5, TakeSweeps DEF TransfersPage, PaymentsPage, Listing
  <1>6. CASE PageFails
    BY <1>6 DEF PageFails, Sweeps, NoneTwice, Complete, Listing
  <1>7. CASE UNCHANGED vars
    BY <1>7 DEF vars, Sweeps, NoneTwice, Complete, Listing, Seen
  <1> QED BY <1>1, <1>2, <1>4, <1>5, <1>6, <1>7 DEF Next

LEMMA SweepsAlways == Spec => []Sweeps
  <1>1. Init => Sweeps
    BY DEF Init, Sweeps, NoneTwice, Complete, Listing
  <1> QED BY <1>1, SweepsNext, TypeCorrect, PTL DEF Spec

\* A listing that ends has every entry the filter matched throughout, for every
\* page size and whatever the node creates or moves out of the filter meanwhile.
THEOREM ListingComplete == Spec => []Complete
  <1>1. Sweeps => Complete
    BY DEF Sweeps, Complete
  <1> QED BY <1>1, SweepsAlways, PTL

\* No entry comes twice in a listing of a node that honours the offset.
THEOREM NothingTwice == Spec => []NoneTwice
  <1>1. Sweeps => NoneTwice
    BY DEF Sweeps, NoneTwice
  <1> QED BY <1>1, SweepsAlways, PTL
=============================================================================
