----------------------- MODULE TransferMirror_proofs -----------------------
(***************************************************************************)
(* Proofs that the mirror of the transfers is about the right transfers    *)
(* and never ahead of the node: BindingSound and MirrorBehindNode.  They    *)
(* need no lock: both hold whoever writes a row when.                      *)
(***************************************************************************)
EXTENDS TransferSync_proofs

-----------------------------------------------------------------------------
(* The inductive invariants *)

\* What a row can look like: bound to a transfer, inserted by the hook of
\* /rgbinvoice, or inserted by the hook of /sendrgb.
Shaped(row) ==
    \/ /\ row.idx # NULL
       /\ row.recip \in {row.idx, NULL} /\ row.batch \in {row.idx, NULL}
       /\ row.txid = TxidOf(row.idx)
       /\ row.asset \in {AssetOf[row.idx], NULL}
       /\ row.asset = NULL => row.idx \in Agnostic
    \/ /\ row.idx = NULL
       /\ row.recip \in Receives /\ row.batch = row.recip /\ row.txid = NULL
       /\ row.asset \in {AssetOf[row.recip], NULL}
       /\ row.asset = NULL => row.recip \in Agnostic
    \/ /\ row.idx = NULL
       /\ row.recip = NULL /\ row.batch = NULL
       /\ row.txid # NULL /\ row.asset # NULL

BoundOnce ==
    \A i, j \in DOMAIN rows : rows[i].idx = rows[j].idx /\ rows[i].idx # NULL => i = j

\* What a listing says of a transfer's asset.
Listed(o) ==
    /\ o.asset \in {AssetOf[o.idx], NULL}
    /\ o.asset = NULL => o.idx \in Agnostic

BindInv ==
    /\ \A i \in DOMAIN rows : Shaped(rows[i])
    /\ BoundOnce
    /\ \A t \in Tasks : \A o \in seen[t] : Listed(o)

\* The status a transfer is created with.
First(x) == IF x \in Sends THEN SentStatus(TxOf[x]) ELSE "WaitingCounterparty"

\* The node's transfer x is at least at status s, and at s itself if s is final.
Behind(s, x) ==
    /\ node[x] # "Absent"
    /\ Rank(s) <= Rank(node[x])
    /\ s \in TransferTerminal => node[x] = s

\* A row nobody owns yet is as the hook of /sendrgb left it.
Followed(row) ==
    IF Owner(row) = NULL THEN row.status = SentStatus(row.txid)
    ELSE Behind(row.status, Owner(row))

\* A transition in hand is about an owned row, and the node has gone that far.
Planned(g) ==
    /\ g.row \in DOMAIN rows
    /\ Owner(rows[g.row]) # NULL
    /\ Behind(g.to, Owner(rows[g.row]))

NodeFar == \A x \in OnNode : Rank(First(x)) <= Rank(node[x])
HooksReal == \A r \in hooks : node[r] # "Absent"
RowsFollow == \A i \in DOMAIN rows : Followed(rows[i])

\* What a task has in hand: observations the node is past, a transition the node
\* has made, and victims that are rows of the receives to be failed.
SeenInv(t) == \A o \in seen[t] : Behind(o.status, o.idx)
GotInv(t) == pc[t] = "apply" => Planned(got[t])
VictimsInv(t) ==
    \A v \in victims[t] : v.row \in DOMAIN rows /\ Owner(rows[v.row]) = v.batch

BehindInv ==
    /\ NodeFar /\ HooksReal /\ RowsFollow
    /\ \A t \in Tasks : SeenInv(t) /\ GotInv(t) /\ VictimsInv(t)

-----------------------------------------------------------------------------
(* How one step changes the node, and the steps that leave the rows alone *)

\* The node's transfers only move forward, and start at their first status.
NodeForward ==
    \A x \in Transfers :
        /\ node[x] # "Absent" =>
              /\ node'[x] # "Absent"
              /\ Rank(node[x]) <= Rank(node'[x])
              /\ node[x] \in TransferTerminal => node'[x] = node[x]
        /\ node[x] = "Absent" => node'[x] \in {"Absent", First(x)}

\* A task keeps or drops what it has in hand.
HandKept(t) ==
    /\ seen'[t] \subseteq seen[t]
    /\ pc'[t] = "apply" => pc[t] = "apply" /\ got'[t] = got[t]
    /\ victims'[t] \subseteq victims[t]

HooksKept == \A r \in hooks' : r \in hooks \/ node'[r] # "Absent"

Quiet ==
    rows' = rows /\ NodeForward /\ HooksKept /\ \A t \in Tasks : HandKept(t)

\* A row keeps its owner.
RowsOwned ==
    \A i \in DOMAIN rows :
        /\ i \in DOMAIN rows'
        /\ Owner(rows[i]) # NULL => Owner(rows'[i]) = Owner(rows[i])

\* A node that stands still has moved forward.
LEMMA StandStill == ASSUME TypeInv, node' = node PROVE NodeForward
  <1>1. \A x \in Transfers : node[x] \in TransferStatus \/ node[x] = "Absent"
    BY DEF TypeInv, TypeOK
  <1>2. \A x \in Transfers : node[x] # "Absent" => Rank(node[x]) <= Rank(node[x])
    BY <1>1, RankFacts
  <1> QED BY <1>2 DEF NodeForward

\* A transfer that fails or advances moves forward.
LEMMA OneMoves ==
  ASSUME TypeInv, NEW x \in Transfers, NEW to \in TransferStatus,
         node[x] # "Absent", Advances(node[x], to), node' = [node EXCEPT ![x] = to]
  PROVE  NodeForward
  <1>1. node \in [Transfers -> TransferStatus \cup {"Absent"}] /\ "Absent" \notin TransferStatus
    BY DEF TypeInv, TypeOK, TransferStatus
  <1>2. \A y \in Transfers : node[y] # "Absent" => Rank(node[y]) \in Nat
    BY <1>1, RankFacts
  <1>3. Rank(to) \in Nat
    BY RankFacts
  <1> QED BY <1>1, <1>2, <1>3 DEF NodeForward, Advances

\* Every step but eight is quiet.
LEMMA QuietStep ==
  ASSUME TypeInv, [Next]_vars
  PROVE  \/ Quiet
         \/ \E r \in Receives : InvoiceHook(r)
         \/ \E b \in Txids, a \in Assets : SendHook(b, a)
         \/ \E t \in Tasks :
               \/ StartReap(t) \/ Apply(t)
               \/ \E a \in Assets \cup {NULL} : ListTransfers(t, a)
               \/ \E v \in victims[t] : ReapFailed(t, v)
               \/ \E o \in seen[t] : ObserveNew(t, o)
               \/ \E o \in seen[t], i \in DOMAIN rows : ObserveKnown(t, o, i)
  <1> DEFINE Goal ==
         \/ Quiet
         \/ \E r \in Receives : InvoiceHook(r)
         \/ \E b \in Txids, a \in Assets : SendHook(b, a)
         \/ \E t \in Tasks :
               \/ StartReap(t) \/ Apply(t)
               \/ \E a \in Assets \cup {NULL} : ListTransfers(t, a)
               \/ \E v \in victims[t] : ReapFailed(t, v)
               \/ \E o \in seen[t] : ObserveNew(t, o)
               \/ \E o \in seen[t], i \in DOMAIN rows : ObserveKnown(t, o, i)
  <1> SUFFICES Goal
    OBVIOUS
  <1>0. /\ pc \in [Tasks -> {"idle", "waiting", "refresh", "fail", "plan", "fetch",
                            "sync", "apply", "reap"}]
        /\ got \in [Tasks -> Plan \cup {NULL}]
        /\ seen \in [Tasks -> SUBSET Observation]
        /\ victims \in [Tasks -> SUBSET Victim]
        /\ node \in [Transfers -> TransferStatus \cup {"Absent"}]
        /\ "Absent" \notin TransferStatus
    BY DEF TypeInv, TypeOK, TransferStatus
  <1>1. CASE UNCHANGED vars
    BY <1>1, StandStill DEF Quiet, HandKept, HooksKept, vars,
         nodeVars, mirrorVars, hookVars, workVars
  <1>2. ASSUME NEW x \in Transfers, NEW to \in TransferStatus, NodeAdvance(x, to)
        PROVE  Goal
    <2>1. NodeForward
      BY <1>2, OneMoves DEF NodeAdvance, OnNode
    <2> QED
      BY <1>0, <1>2, <2>1 DEF Quiet, HandKept, HooksKept, NodeAdvance, nodeVars, mirrorVars, hookVars, workVars
  <1>3. ASSUME NEW r \in Receives, Expire(r)
        PROVE  Goal
    BY <1>0, <1>3, StandStill DEF Quiet, HandKept, HooksKept, Expire,
         nodeVars, mirrorVars, hookVars, workVars
  <1>4. ASSUME NEW r \in Receives, Invoice(r)
        PROVE  Goal
    <2>1. r \in Transfers /\ First(r) = "WaitingCounterparty"
      BY TransfersAssumption DEF First, Transfers
    <2>2. \A x \in Transfers : x # r => node'[x] = node[x]
      BY <1>4, <1>0 DEF Invoice
    <2>3. node[r] = "Absent" /\ node'[r] = First(r) /\ First(r) # "Absent"
      BY <1>4, <1>0, <2>1 DEF Invoice
    <2>4. \A x \in Transfers : node[x] # "Absent" => Rank(node[x]) \in Nat
      BY <1>0, RankFacts
    <2>5. NodeForward
      BY <2>2, <2>3, <2>4 DEF NodeForward
    <2>6. HooksKept
      BY <1>4, <2>3 DEF Invoice, HooksKept
    <2> QED
      BY <1>4, <2>5, <2>6 DEF Quiet, HandKept, Invoice, nodeVars, mirrorVars, hookVars, workVars
  <1>5. ASSUME NEW b \in Txids, SendRgb(b)
        PROVE  Goal
    <2>1. \A x \in Legs(b) :
             x \in Transfers /\ node[x] = "Absent" /\ node'[x] = First(x)
      BY <1>5 DEF SendRgb, Legs, First, Transfers
    <2>2. \A x \in Transfers \ Legs(b) : node'[x] = node[x]
      BY <1>5 DEF SendRgb
    <2>3. \A x \in Transfers : node[x] # "Absent" => Rank(node[x]) \in Nat
      BY <1>0, RankFacts
    <2>4. NodeForward
      BY <2>1, <2>2, <2>3 DEF NodeForward
    <2> QED
      BY <1>5, <2>4 DEF Quiet, HandKept, HooksKept, SendRgb, nodeVars, mirrorVars, hookVars, workVars
  <1>6. ASSUME OrphanEnds
        PROVE  Goal
    BY <1>0, <1>6, StandStill DEF Quiet, HandKept, HooksKept, OrphanEnds,
         nodeVars, mirrorVars, hookVars, workVars
  <1>7. ASSUME Resume
        PROVE  Goal
    BY <1>0, <1>7, StandStill DEF Quiet, HandKept, HooksKept, Resume,
         nodeVars, mirrorVars, hookVars, workVars
  <1>8. ASSUME Pause
        PROVE  Goal
    BY <1>0, <1>8, StandStill DEF Quiet, HandKept, HooksKept, Pause,
         nodeVars, mirrorVars, hookVars, workVars
  <1>9. ASSUME LoseHook
        PROVE  Goal
    BY <1>0, <1>9, StandStill DEF Quiet, HandKept, HooksKept, LoseHook,
         nodeVars, mirrorVars, hookVars, workVars
  <1>10. ASSUME Crash
        PROVE  Goal
    <2>1. \A t \in Tasks : HandKept(t)
      BY <1>10, <1>0 DEF Crash, HandKept
    <2> QED
      BY <1>10, <2>1, StandStill DEF Quiet, HooksKept, Crash, mirrorVars
  <1>11. ASSUME NEW t \in Refreshers, Tick(t)
        PROVE  Goal
    BY <1>0, <1>11, StandStill DEF Quiet, HandKept, HooksKept, Tick, Queue,
         nodeVars, mirrorVars, hookVars, workVars
  <1>12. ASSUME NEW t \in Reapers \cup Timers, TimerFires(t)
        PROVE  Goal
    BY <1>0, <1>12, StandStill DEF Quiet, HandKept, HooksKept, TimerFires, Queue,
         nodeVars, mirrorVars, hookVars, workVars
  <1>13. ASSUME NEW t \in Reconcilers \cup Operators, Call(t)
        PROVE  Goal
    BY <1>0, <1>13, StandStill DEF Quiet, HandKept, HooksKept, Call, Queue,
         nodeVars, mirrorVars, hookVars, workVars
  <1>14. ASSUME NEW t \in Issues, NEW ids \in SUBSET Assets, SpawnAssetSync(t, ids)
        PROVE  Goal
    BY <1>0, <1>14, StandStill DEF Quiet, HandKept, HooksKept, SpawnAssetSync, Queue,
         nodeVars, mirrorVars, hookVars, workVars
  <1>15. ASSUME NEW t \in Tasks, StartRefresh(t)
        PROVE  Goal
    BY <1>0, <1>15, StandStill DEF Quiet, HandKept, HooksKept, StartRefresh,
         nodeVars, mirrorVars, hookVars, workVars
  <1>16. ASSUME NEW t \in Tasks, StartFail(t)
        PROVE  Goal
    BY <1>0, <1>16, StandStill DEF Quiet, HandKept, HooksKept, StartFail,
         nodeVars, mirrorVars, hookVars, workVars
  <1>17. ASSUME NEW t \in Tasks, StartFullSync(t)
        PROVE  Goal
    BY <1>0, <1>17, StandStill DEF Quiet, HandKept, HooksKept, StartFullSync,
         nodeVars, mirrorVars, hookVars, workVars
  <1>18. ASSUME NEW t \in Tasks, StartAssetSync(t)
        PROVE  Goal
    BY <1>0, <1>18, StandStill DEF Quiet, HandKept, HooksKept, StartAssetSync,
         nodeVars, mirrorVars, hookVars, workVars
  <1>19. ASSUME NEW t \in Tasks, RefreshDone(t)
        PROVE  Goal
    BY <1>0, <1>19, StandStill DEF Quiet, HandKept, HooksKept, RefreshDone,
         nodeVars, mirrorVars, hookVars, workVars
  <1>20. ASSUME NEW t \in Tasks, FailRefused(t)
        PROVE  Goal
    <2>1. \A u \in Tasks : HandKept(u)
      BY <1>20, <1>0 DEF FailRefused, Release, HandKept
    <2>2. node' = node /\ rows' = rows /\ hooks' = hooks
      BY <1>20 DEF FailRefused, nodeVars, mirrorVars, hookVars
    <2> QED
      BY <2>1, <2>2, StandStill DEF Quiet, HooksKept
  <1>21. ASSUME NEW t \in Tasks, ReadPending(t)
        PROVE  Goal
    BY <1>0, <1>21, StandStill DEF Quiet, HandKept, HooksKept, ReadPending,
         nodeVars, mirrorVars, hookVars, workVars
  <1>22. ASSUME NEW t \in Tasks, FetchAssets(t)
        PROVE  Goal
    BY <1>0, <1>22, StandStill DEF Quiet, HandKept, HooksKept, FetchAssets,
         nodeVars, mirrorVars, hookVars, workVars
  <1>23. ASSUME NEW t \in Tasks, NEW x \in Transfers, FailDone(t, x)
        PROVE  Goal
    <2>1. Advances(node[x], "Failed") /\ "Failed" \in TransferStatus
      BY <1>23, FallibleFails DEF FailDone, TransferStatus
    <2>2. NodeForward
      BY <1>23, <2>1, OneMoves DEF FailDone, OnNode
    <2> QED
      BY <1>0, <1>23, <2>2 DEF Quiet, HandKept, HooksKept, FailDone, nodeVars, mirrorVars, hookVars, workVars
  <1>24. ASSUME NEW t \in Tasks, NEW v \in victims[t], ReapCannotFail(t, v)
        PROVE  Goal
    <2>1. \A u \in Tasks : HandKept(u)
      BY <1>24, <1>0 DEF ReapCannotFail, HandKept
    <2> QED
      BY <1>24, <2>1, StandStill DEF Quiet, HooksKept, ReapCannotFail, nodeVars, mirrorVars, hookVars
  <1>25. ASSUME NEW t \in Tasks, NEW v \in victims[t], ReapError(t, v)
        PROVE  Goal
    <2>1. \A u \in Tasks : HandKept(u)
      BY <1>25, <1>0 DEF ReapError, Release, HandKept
    <2>2. node' = node /\ rows' = rows /\ hooks' = hooks
      BY <1>25 DEF ReapError, nodeVars, mirrorVars, hookVars
    <2> QED
      BY <2>1, <2>2, StandStill DEF Quiet, HooksKept
  <1>26. ASSUME NEW t \in Tasks, Finish(t)
        PROVE  Goal
    <2>1. \A u \in Tasks : HandKept(u)
      BY <1>26, <1>0 DEF Finish, Release, HandKept
    <2>2. node' = node /\ rows' = rows /\ hooks' = hooks
      BY <1>26 DEF Finish, nodeVars, mirrorVars, hookVars
    <2> QED
      BY <2>1, <2>2, StandStill DEF Quiet, HooksKept
  <1>27. ASSUME NEW t \in Tasks, Abort(t)
        PROVE  Goal
    <2>1. \A u \in Tasks : HandKept(u)
      BY <1>27, <1>0 DEF Abort, Release, HandKept
    <2>2. node' = node /\ rows' = rows /\ hooks' = hooks
      BY <1>27 DEF Abort, nodeVars, mirrorVars, hookVars
    <2> QED
      BY <2>1, <2>2, StandStill DEF Quiet, HooksKept
  <1> QED
    BY <1>1, <1>2, <1>3, <1>4, <1>5, <1>6, <1>7, <1>8, <1>9, <1>10, <1>11, <1>12, <1>13, <1>14, <1>15, <1>16, <1>17, <1>18, <1>19, <1>20, <1>21, <1>22, <1>23, <1>24, <1>25, <1>26, <1>27
       DEF Next, Environment, Enter, Start, Work, FullSyncs, Tasks

-----------------------------------------------------------------------------
(* BindingSound *)

\* A status says nothing of a row's shape.
LEMMA ShapeOfStatus ==
  ASSUME NEW row \in Row, NEW s \in TransferStatus, Shaped(row)
  PROVE  Shaped([row EXCEPT !.status = s])
  BY DEF Shaped, Row

\* The hook of /rgbinvoice gives a batch index to the receive it is about.
LEMMA ConflictShaped ==
  ASSUME NEW row \in Row, NEW r \in Receives, row.recip = r, Shaped(row)
  PROVE  Shaped(OnConflict(row, r))
  <1>1. r # NULL
    BY NullAssumption DEF Transfers
  <1> QED BY <1>1 DEF Shaped, OnConflict, Row

\* An observation binds the row it matches to its own transfer, whichever rule
\* matched it.
LEMMA BoundShaped ==
  ASSUME NEW row \in Row, NEW o \in Observation, Shaped(row), Listed(o),
         Matches(row, o)
  PROVE  Shaped(Bind(row, o)) /\ Bind(row, o).idx = o.idx
  <1> USE NullAssumption DEF Transfers
  <1>1. /\ o.idx \in Transfers /\ o.idx # NULL
        /\ o.asset \in {AssetOf[o.idx], NULL}
        /\ o.asset = NULL => o.idx \in Agnostic
    BY DEF Observation, Listed
  <1>2. /\ Bind(row, o).idx = o.idx
        /\ Bind(row, o).recip = row.recip /\ Bind(row, o).batch = row.batch
        /\ Bind(row, o).asset = IF o.asset # NULL THEN o.asset ELSE row.asset
        /\ Bind(row, o).txid = IF TxidOf(o.idx) # NULL THEN TxidOf(o.idx) ELSE row.txid
    BY DEF Bind, Row
  <1>3. CASE row.idx = o.idx
    BY <1>1, <1>2, <1>3 DEF Shaped
  <1>4. CASE row.idx = NULL /\ row.recip = o.idx
    <2>1. o.idx \in Receives /\ row.batch = o.idx /\ row.txid = NULL
          /\ row.asset \in {AssetOf[o.idx], NULL}
      BY <1>1, <1>4 DEF Shaped
    <2>2. TxidOf(o.idx) = NULL
      BY <2>1, TransfersAssumption DEF TxidOf
    <2> QED BY <1>1, <1>2, <1>4, <2>1, <2>2 DEF Shaped
  <1>5. CASE /\ row.idx = NULL /\ row.recip # o.idx
             /\ row.txid # NULL /\ row.txid = TxidOf(o.idx)
             /\ o.asset # NULL /\ row.asset = o.asset
    <2>1. row.recip = NULL /\ row.batch = NULL
      BY <1>5 DEF Shaped
    <2> QED BY <1>1, <1>2, <1>5, <2>1 DEF Shaped
  <1> QED BY <1>2, <1>3, <1>4, <1>5 DEF Matches

\* A row of a transfer no row is bound to may be inserted.
LEMMA InsertBinds ==
  ASSUME TypeInv, BindInv, NEW e \in Row, Shaped(e), rows' = Append(rows, e),
         e.idx # NULL => \A i \in DOMAIN rows : rows[i].idx # e.idx
  PROVE  (\A i \in DOMAIN rows' : Shaped(rows'[i])) /\ BoundOnce'
  <1>1. rows \in Seq(Row)
    BY DEF TypeInv, TypeOK
  <1>2. /\ DOMAIN rows' = 1..(Len(rows) + 1) /\ DOMAIN rows = 1..Len(rows)
        /\ Len(rows) \in Nat
        /\ \A i \in 1..Len(rows) : rows'[i] = rows[i]
        /\ rows'[Len(rows) + 1] = e
    BY <1>1, AppendProperties, LenProperties
  <1>3. \A i \in DOMAIN rows' : Shaped(rows'[i])
    BY <1>2 DEF BindInv
  <1>4. BoundOnce'
    BY <1>2 DEF BindInv, BoundOnce
  <1> QED BY <1>3, <1>4

\* A step that keeps the shape and the binding of every row.
LEMMA RewriteBinds ==
  ASSUME BindInv, DOMAIN rows' = DOMAIN rows,
         \A i \in DOMAIN rows : Shaped(rows'[i]) /\ rows'[i].idx = rows[i].idx
  PROVE  (\A i \in DOMAIN rows' : Shaped(rows'[i])) /\ BoundOnce'
  BY DEF BindInv, BoundOnce

\* The hook of /rgbinvoice, whether or not a sync came first.
LEMMA InvoiceBinds ==
  ASSUME TypeInv, BindInv, NEW r \in Receives, InvoiceHook(r)
  PROVE  (\A i \in DOMAIN rows' : Shaped(rows'[i])) /\ BoundOnce'
  <1>1. \A i \in DOMAIN rows : rows[i] \in Row /\ Shaped(rows[i])
    BY DEF TypeInv, TypeOK, BindInv
  <1>2. CASE \E i \in DOMAIN rows : rows[i].recip = r
    <2>1. rows' = [i \in DOMAIN rows |->
                     IF rows[i].recip = r THEN OnConflict(rows[i], r) ELSE rows[i]]
      BY <1>2 DEF InvoiceHook
    <2>2. \A i \in DOMAIN rows : Shaped(rows'[i])
      BY <1>1, <2>1, ConflictShaped
    <2>3. \A i \in DOMAIN rows : rows'[i].idx = rows[i].idx
      BY <1>1, <2>1 DEF OnConflict, Row
    <2> QED BY <2>1, <2>2, <2>3, RewriteBinds
  <1>3. CASE ~ \E i \in DOMAIN rows : rows[i].recip = r
    <2> DEFINE new == [idx |-> NULL, status |-> "WaitingCounterparty", txid |-> NULL,
                       asset |-> IF r \in Agnostic THEN NULL ELSE AssetOf[r],
                       recip |-> r, batch |-> r]
    <2>0. new \in Row /\ new.idx = NULL
      BY TransfersAssumption DEF Row, TransferStatus, Transfers
    <2>1. Shaped(new)
      <3>1. new.asset \in {AssetOf[r], NULL} /\ (new.asset = NULL => r \in Agnostic)
        <4>1. AssetOf[r] \in Assets /\ AssetOf[r] # NULL
          BY TransfersAssumption, NullAssumption DEF Transfers
        <4> QED BY <4>1
      <3> QED BY <3>1 DEF Shaped
    <2>2. rows' = Append(rows, new)
      BY <1>3 DEF InvoiceHook
    <2> HIDE DEF new
    <2> QED BY <2>0, <2>1, <2>2, InsertBinds
  <1> QED BY <1>2, <1>3

\* The initial mirror is empty.
LEMMA BindInit == Init => BindInv
  BY DEF Init, BindInv, BoundOnce

\* Every step keeps the rows in shape.
LEMMA BindNext == TypeInv /\ BindInv /\ [Next]_vars => BindInv'
  <1> SUFFICES ASSUME TypeInv, BindInv, [Next]_vars PROVE BindInv'
    OBVIOUS
  <1>0. /\ \A i \in DOMAIN rows : rows[i] \in Row /\ Shaped(rows[i])
        /\ \A t \in Tasks : \A o \in seen[t] : o \in Observation /\ Listed(o)
    BY DEF TypeInv, TypeOK, BindInv
  \* Enough for steps that list nothing.
  <1>s. ASSUME \A t \in Tasks : seen'[t] \subseteq seen[t],
               (\A i \in DOMAIN rows' : Shaped(rows'[i])) /\ BoundOnce'
        PROVE  BindInv'
    BY <1>0, <1>s DEF BindInv, Listed
  <1>1. CASE Quiet
    <2>1. rows' = rows /\ \A t \in Tasks : seen'[t] \subseteq seen[t]
      BY <1>1 DEF Quiet, HandKept
    <2> QED BY <2>1, <1>s DEF BindInv, BoundOnce
  <1>2. ASSUME NEW r \in Receives, InvoiceHook(r) PROVE BindInv'
    <2>1. seen' = seen
      BY <1>2 DEF InvoiceHook, workVars
    <2> QED BY <1>2, <2>1, <1>s, InvoiceBinds
  <1>3. ASSUME NEW b \in Txids, NEW a \in Assets, SendHook(b, a) PROVE BindInv'
    <2> DEFINE new == [idx |-> NULL, asset |-> a, status |-> SentStatus(b),
                       recip |-> NULL, txid |-> b, batch |-> NULL]
    <2>1. new \in Row /\ Shaped(new) /\ new.idx = NULL
      BY NullAssumption DEF Row, TransferStatus, Shaped, SentStatus
    <2>2. rows' = Append(rows, new) /\ seen' = seen
      BY <1>3 DEF SendHook
    <2> HIDE DEF new
    <2> QED BY <2>1, <2>2, <1>s, InsertBinds
  <1>4. ASSUME NEW t \in Tasks, StartReap(t) PROVE BindInv'
    <2>1. rows' = rows /\ seen' = seen
      BY <1>4 DEF StartReap, mirrorVars
    <2> QED BY <2>1, <1>s DEF BindInv, BoundOnce
  <1>5. ASSUME NEW t \in Tasks, Apply(t) PROVE BindInv'
    <2>1. seen' = seen
      BY <1>5 DEF Apply
    <2>2. got[t] \in Plan /\ got[t].row \in DOMAIN rows
      BY <1>5 DEF TypeInv, PlansTyped, Apply
    <2>3. CASE got[t].from # got[t].to /\ rows[got[t].row].status = got[t].from
      <3> DEFINE new == [rows[got[t].row] EXCEPT !.status = got[t].to]
      <3>1. rows' = [rows EXCEPT ![got[t].row] = new]
        BY <1>5, <2>3 DEF Apply
      <3>2. Shaped(new)
        BY <1>0, <2>2, ShapeOfStatus DEF Plan
      <3>3. new.idx = rows[got[t].row].idx
        BY <1>0, <2>2 DEF Row
      <3> HIDE DEF new
      <3>4. /\ DOMAIN rows' = DOMAIN rows
            /\ \A i \in DOMAIN rows : Shaped(rows'[i]) /\ rows'[i].idx = rows[i].idx
        BY <1>0, <2>2, <3>1, <3>2, <3>3
      <3> QED BY <2>1, <3>4, <1>s, RewriteBinds
    <2>4. CASE ~(got[t].from # got[t].to /\ rows[got[t].row].status = got[t].from)
      <3>1. rows' = rows
        BY <1>5, <2>4 DEF Apply, mirrorVars
      <3> QED BY <2>1, <3>1, <1>s DEF BindInv, BoundOnce
    <2> QED BY <2>3, <2>4
  <1>6. ASSUME NEW t \in Tasks, NEW a \in Assets \cup {NULL}, ListTransfers(t, a)
        PROVE  BindInv'
    <2>1. rows' = rows
      BY <1>6 DEF ListTransfers, mirrorVars
    <2> DEFINE fresh == {[idx |-> x, asset |-> a, status |-> node[x]] :
                            x \in {y \in OnNode : ListedUnder(y) = a}}
    <2>2. seen' = [seen EXCEPT ![t] = fresh] /\ seen \in [Tasks -> SUBSET Observation]
      BY <1>6 DEF TypeInv, TypeOK, ListTransfers
    <2>3. \A o \in fresh : Listed(o)
      <3>1. \A o \in fresh : o.idx \in Transfers /\ o.asset = a /\ ListedUnder(o.idx) = a
        BY DEF OnNode
      <3>2. \A x \in Transfers :
               /\ ListedUnder(x) \in {AssetOf[x], NULL}
               /\ ListedUnder(x) = NULL => x \in Agnostic
        BY TransfersAssumption, NullAssumption DEF ListedUnder, Transfers
      <3> HIDE DEF fresh
      <3> QED BY <3>1, <3>2 DEF Listed
    <2> HIDE DEF fresh
    <2>4. \A u \in Tasks : \A o \in seen'[u] : Listed(o)
      BY <1>0, <2>2, <2>3
    <2> QED BY <2>1, <2>4 DEF BindInv, BoundOnce, Listed
  <1>7. ASSUME NEW t \in Tasks, NEW v \in victims[t], ReapFailed(t, v) PROVE BindInv'
    <2>1. rows' = rows /\ seen' = seen
      BY <1>7 DEF ReapFailed, mirrorVars
    <2> QED BY <2>1, <1>s DEF BindInv, BoundOnce
  <1>8. ASSUME NEW t \in Tasks, NEW o \in seen[t], ObserveNew(t, o) PROVE BindInv'
    <2> DEFINE new == [idx |-> o.idx, asset |-> o.asset, status |-> o.status,
                       recip |-> o.idx, txid |-> TxidOf(o.idx), batch |-> NULL]
    <2>1. o \in Observation /\ Listed(o)
      BY <1>0
    <2>2. new \in Row
      BY <2>1, TransfersAssumption DEF Row, Observation, TxidOf
    <2>3. Shaped(new) /\ new.idx = o.idx
      BY <2>1, NullAssumption DEF Shaped, Listed, Observation
    <2>4. rows' = Append(rows, new)
      BY <1>8 DEF ObserveNew
    <2>5. \A i \in DOMAIN rows : rows[i].idx # o.idx
      BY <1>8 DEF ObserveNew, Matches
    <2>6. \A u \in Tasks : seen'[u] \subseteq seen[u]
      BY <1>8 DEF TypeInv, TypeOK, ObserveNew
    <2> HIDE DEF new
    <2> QED BY <2>2, <2>3, <2>4, <2>5, <2>6, <1>s, InsertBinds
  <1>9. ASSUME NEW t \in Tasks, NEW o \in seen[t], NEW i \in DOMAIN rows,
               ObserveKnown(t, o, i)
        PROVE  BindInv'
    <2> DEFINE new == Bind(rows[i], o)
    <2>1. FirstMatch(i, o) /\ Matches(rows[i], o)
      BY <1>9 DEF ObserveKnown, FirstMatch
    <2>2. Shaped(new) /\ new.idx = o.idx
      BY <1>0, <2>1, BoundShaped
    <2>3. rows' = [rows EXCEPT ![i] = new]
      BY <1>9 DEF ObserveKnown
    <2>4. \A u \in Tasks : seen'[u] \subseteq seen[u]
      BY <1>9 DEF TypeInv, TypeOK, ObserveKnown
    \* If a row is bound to the transfer already, it comes first.
    <2>5. \A j \in DOMAIN rows : rows[j].idx = o.idx => j = i
      <3> SUFFICES ASSUME NEW j \in DOMAIN rows, rows[j].idx = o.idx PROVE rows[i].idx = o.idx
        BY <1>0, NullAssumption DEF BindInv, BoundOnce, Observation, Transfers
      <3>1. Matches(rows[j], o) /\ MatchClass(rows[j], o) = 0
        BY DEF Matches, MatchClass
      <3>2. MatchClass(rows[i], o) <= 0
        BY <2>1, <3>1 DEF FirstMatch, MatchClass
      <3> QED BY <3>2 DEF MatchClass
    <2> HIDE DEF new
    <2>6. \A j \in DOMAIN rows' : Shaped(rows'[j])
      BY <1>0, <2>2, <2>3
    <2>7. BoundOnce'
      BY <2>2, <2>3, <2>5 DEF BindInv, BoundOnce
    <2> QED BY <2>4, <2>6, <2>7, <1>s
  <1> QED
    BY <1>1, <1>2, <1>3, <1>4, <1>5, <1>6, <1>7, <1>8, <1>9, QuietStep

\* Rows keep their shape in every reachable state.
LEMMA BindInvariant == Spec => []BindInv
  <1>1. Spec => []Inv
    BY Invariant
  <1>2. Inv => TypeInv
    BY DEF Inv
  <1> QED BY <1>1, <1>2, BindInit, BindNext, PTL DEF Spec

\* A bound row belongs to one transfer and carries nothing of another's, for any
\* transfers, calls and assets, however hooks, syncs and failures interleave.
THEOREM BoundToOne == Spec => []BindingSound
  <1>1. TypeInv /\ BindInv => BindingSound
    <2> SUFFICES ASSUME TypeInv, BindInv PROVE BindingSound
      OBVIOUS
    <2>1. \A i \in DOMAIN rows : Shaped(rows[i])
      BY DEF BindInv
    <2> QED BY <2>1 DEF BindInv, BoundOnce, Shaped, BindingSound
  <1>2. Inv => TypeInv
    BY DEF Inv
  <1> QED BY <1>1, <1>2, Invariant, BindInvariant, PTL

-----------------------------------------------------------------------------
(* MirrorBehindNode *)

\* Statuses a transfer is created with are no ends, and have a rank.
LEMMA FirstFacts ==
  /\ \A b : SentStatus(b) \in TransferStatus \ TransferTerminal
  /\ \A x : First(x) \in TransferStatus \ TransferTerminal
  /\ \A s \in TransferStatus : Rank(s) \in Nat
  BY RankFacts DEF First, SentStatus, TransferStatus, TransferTerminal

\* What the node has been seen past, it stays past.
LEMMA BehindKept ==
  ASSUME TypeInv, NodeForward, NEW s \in TransferStatus, NEW x \in Transfers,
         Behind(s, x), TypeInv'
  PROVE  /\ node'[x] # "Absent"
         /\ Rank(s) <= Rank(node'[x])
         /\ s \in TransferTerminal => node'[x] = s
  <1>1. /\ node[x] \in TransferStatus \cup {"Absent"} /\ node[x] # "Absent"
        /\ node'[x] \in TransferStatus \cup {"Absent"}
    BY DEF TypeInv, TypeOK, Behind
  <1>2. node'[x] # "Absent" /\ Rank(node[x]) <= Rank(node'[x])
    BY <1>1 DEF NodeForward
  <1>3. Rank(s) \in Nat /\ Rank(node[x]) \in Nat /\ Rank(node'[x]) \in Nat
    BY <1>1, <1>2, FirstFacts
  <1>4. Rank(s) <= Rank(node'[x])
    BY <1>2, <1>3 DEF Behind
  <1> QED BY <1>1, <1>2, <1>4 DEF Behind, NodeForward

\* Every transfer on the node stays at least where it began.
LEMMA FarKept ==
  ASSUME TypeInv, TypeInv', NodeFar, NodeForward PROVE NodeFar'
  <1> SUFFICES ASSUME NEW x \in Transfers, node'[x] # "Absent"
               PROVE  Rank(First(x)) <= Rank(node'[x])
    BY DEF NodeFar, OnNode, First, SentStatus
  <1>1. Rank(First(x)) \in Nat /\ node'[x] \in TransferStatus
    BY FirstFacts DEF TypeInv, TypeOK
  <1>2. CASE node[x] = "Absent"
    BY <1>1, <1>2 DEF NodeForward
  <1>3. CASE node[x] # "Absent"
    <2>1. node[x] \in TransferStatus /\ Rank(First(x)) <= Rank(node[x])
      BY <1>3 DEF TypeInv, TypeOK, NodeFar, OnNode
    <2>2. Rank(node[x]) <= Rank(node'[x])
      BY <1>3 DEF NodeForward
    <2> QED BY <1>1, <2>1, <2>2, FirstFacts
  <1> QED BY <1>2, <1>3

\* The owner of a row is a transfer.
LEMMA OwnerTyped ==
  ASSUME NEW row \in Row, Owner(row) # NULL PROVE Owner(row) \in Transfers
  BY DEF Row, Owner

\* Hooks not yet run stay about transfers of the node.
LEMMA HooksStayReal ==
  ASSUME TypeInv, HooksReal, NodeForward, HooksKept PROVE HooksReal'
  BY DEF TypeInv, TypeOK, HooksReal, HooksKept, NodeForward, Transfers

\* The observations a task keeps in hand stay behind the node.
LEMMA SeenStays ==
  ASSUME TypeInv, TypeInv', BehindInv, NodeForward,
         NEW t \in Tasks, seen'[t] \subseteq seen[t]
  PROVE  SeenInv(t)'
  <1> SUFFICES ASSUME NEW o \in seen'[t]
               PROVE  /\ node'[o.idx] # "Absent"
                      /\ Rank(o.status) <= Rank(node'[o.idx])
                      /\ o.status \in TransferTerminal => node'[o.idx] = o.status
    BY DEF SeenInv, Behind
  <1>1. o \in seen[t] /\ o \in Observation
    BY DEF TypeInv, TypeOK
  <1>2. o.status \in TransferStatus /\ o.idx \in Transfers
    BY <1>1 DEF Observation
  <1>3. Behind(o.status, o.idx)
    BY <1>1 DEF BehindInv, SeenInv
  <1> QED BY <1>2, <1>3, BehindKept

\* So does the transition it keeps in hand, about the same transfer.
LEMMA GotStays ==
  ASSUME TypeInv, TypeInv', BehindInv, NodeForward, RowsOwned,
         NEW t \in Tasks, pc'[t] = "apply" => pc[t] = "apply" /\ got'[t] = got[t]
  PROVE  GotInv(t)'
  <1> SUFFICES ASSUME pc[t] = "apply", got'[t] = got[t]
               PROVE  LET g == got[t]
                          x == Owner(rows'[g.row]) IN
                      /\ g.row \in DOMAIN rows' /\ x # NULL
                      /\ node'[x] # "Absent"
                      /\ Rank(g.to) <= Rank(node'[x])
                      /\ g.to \in TransferTerminal => node'[x] = g.to
    BY DEF GotInv, Planned, Behind, Owner
  <1>1. got[t].to \in TransferStatus /\ Planned(got[t])
    BY DEF TypeInv, PlansTyped, Plan, BehindInv, GotInv
  <1>2. /\ got[t].row \in DOMAIN rows /\ rows[got[t].row] \in Row
        /\ Owner(rows[got[t].row]) # NULL /\ Behind(got[t].to, Owner(rows[got[t].row]))
    BY <1>1 DEF Planned, TypeInv, TypeOK
  <1>3. /\ got[t].row \in DOMAIN rows'
        /\ Owner(rows'[got[t].row]) = Owner(rows[got[t].row])
        /\ Owner(rows[got[t].row]) \in Transfers
    BY <1>2, OwnerTyped DEF RowsOwned
  <1>4. LET x == Owner(rows[got[t].row]) IN
        /\ node'[x] # "Absent"
        /\ Rank(got[t].to) <= Rank(node'[x])
        /\ got[t].to \in TransferTerminal => node'[x] = got[t].to
    BY <1>1, <1>2, <1>3, BehindKept
  <1> QED BY <1>2, <1>3, <1>4

\* And the victims it keeps are rows of the same transfers.
LEMMA VictimsStay ==
  ASSUME TypeInv, BehindInv, RowsOwned, NEW t \in Tasks, victims'[t] \subseteq victims[t]
  PROVE  VictimsInv(t)'
  <1> SUFFICES ASSUME NEW v \in victims'[t]
               PROVE  v.row \in DOMAIN rows' /\ Owner(rows'[v.row]) = v.batch
    BY DEF VictimsInv, Owner
  <1>1. v \in victims[t] /\ v.batch # NULL
    BY NullAssumption DEF TypeInv, TypeOK, Victim, Transfers
  <1>2. v.row \in DOMAIN rows /\ Owner(rows[v.row]) = v.batch
    BY <1>1 DEF BehindInv, VictimsInv
  <1> QED BY <1>1, <1>2 DEF RowsOwned

\* A row is followed in the next state too.
FollowedNext(row) ==
    IF Owner(row) = NULL THEN row.status = SentStatus(row.txid)
    ELSE /\ node'[Owner(row)] # "Absent"
         /\ Rank(row.status) <= Rank(node'[Owner(row)])
         /\ row.status \in TransferTerminal => node'[Owner(row)] = row.status

\* A row that keeps its status and its owner, or its lack of one, stays behind.
LEMMA RowStays ==
  ASSUME TypeInv, TypeInv', BehindInv, NodeForward, NEW i \in DOMAIN rows,
         NEW row \in Row,
         row.status = rows[i].status, Owner(row) = Owner(rows[i]),
         Owner(row) = NULL => row.txid = rows[i].txid
  PROVE  FollowedNext(row)
  <1>1. Followed(rows[i]) /\ rows[i] \in Row
    BY DEF TypeInv, TypeOK, BehindInv, RowsFollow
  <1>2. row.status \in TransferStatus
    BY DEF Row
  <1>3. CASE Owner(row) = NULL
    BY <1>1, <1>3 DEF Followed, FollowedNext
  <1>4. CASE Owner(row) # NULL
    <2>1. Behind(row.status, Owner(row)) /\ Owner(row) \in Transfers
      BY <1>1, <1>4, OwnerTyped DEF Followed
    <2> QED BY <1>2, <1>4, <2>1, BehindKept DEF FollowedNext
  <1> QED BY <1>3, <1>4

\* Rows that are followed one by one follow.
LEMMA AllFollow ==
  ASSUME \A i \in DOMAIN rows' : FollowedNext(rows'[i]) PROVE RowsFollow'
  BY DEF RowsFollow, Followed, FollowedNext, Behind, Owner, SentStatus

\* Inserting a row that follows.
LEMMA InsertFollows ==
  ASSUME TypeInv, TypeInv', BehindInv, NodeForward, NEW e \in Row, FollowedNext(e),
         rows' = Append(rows, e)
  PROVE  RowsFollow' /\ RowsOwned
  <1>1. rows \in Seq(Row) /\ \A i \in DOMAIN rows : rows[i] \in Row
    BY DEF TypeInv, TypeOK
  <1>2. /\ DOMAIN rows \subseteq DOMAIN rows'
        /\ \A i \in DOMAIN rows : rows'[i] = rows[i]
        /\ \A i \in DOMAIN rows' \ DOMAIN rows : rows'[i] = e
    BY <1>1, AppendKeeps
  <1>3. \A i \in DOMAIN rows : FollowedNext(rows[i])
    BY <1>1, RowStays
  <1>4. \A i \in DOMAIN rows' : FollowedNext(rows'[i])
    BY <1>2, <1>3
  <1> QED BY <1>2, <1>4, AllFollow DEF RowsOwned

\* Writing one row that keeps its owner and follows.
LEMMA UpdateFollows ==
  ASSUME TypeInv, TypeInv', BehindInv, NodeForward, NEW i \in DOMAIN rows, NEW e \in Row,
         FollowedNext(e), rows' = [rows EXCEPT ![i] = e],
         Owner(rows[i]) # NULL => Owner(e) = Owner(rows[i])
  PROVE  RowsFollow' /\ RowsOwned
  <1>1. \A j \in DOMAIN rows : rows[j] \in Row
    BY DEF TypeInv, TypeOK
  <1>2. /\ DOMAIN rows' = DOMAIN rows /\ rows'[i] = e
        /\ \A j \in DOMAIN rows : j # i => rows'[j] = rows[j]
    OBVIOUS
  <1>3. \A j \in DOMAIN rows : FollowedNext(rows[j])
    BY <1>1, RowStays
  <1>4. \A j \in DOMAIN rows' : FollowedNext(rows'[j])
    BY <1>2, <1>3
  <1> QED BY <1>2, <1>4, AllFollow DEF RowsOwned

\* Rows nobody writes.
LEMMA SameFollow ==
  ASSUME TypeInv, TypeInv', BehindInv, NodeForward, rows' = rows
  PROVE  RowsFollow' /\ RowsOwned
  <1>1. \A i \in DOMAIN rows : rows[i] \in Row
    BY DEF TypeInv, TypeOK
  <1>2. \A i \in DOMAIN rows : FollowedNext(rows[i])
    BY <1>1, RowStays
  <1> QED BY <1>2, AllFollow DEF RowsOwned

\* The initial mirror and node are empty.
LEMMA BehindInit == Init => BehindInv
  BY DEF Init, BehindInv, NodeFar, OnNode, HooksReal, RowsFollow, SeenInv, GotInv,
         VictimsInv

\* Every step keeps the mirror behind the node.
LEMMA BehindNext == Inv /\ Inv' /\ BindInv /\ BehindInv /\ [Next]_vars => BehindInv'
  <1> SUFFICES ASSUME Inv, Inv', BindInv, BehindInv, [Next]_vars PROVE BehindInv'
    OBVIOUS
  <1>0. TypeInv /\ TypeInv'
    BY DEF Inv
  <1>t. /\ rows \in Seq(Row) /\ \A i \in DOMAIN rows : rows[i] \in Row /\ Shaped(rows[i])
        /\ node \in [Transfers -> TransferStatus \cup {"Absent"}]
        /\ seen \in [Tasks -> SUBSET Observation]
        /\ victims \in [Tasks -> SUBSET Victim]
        /\ pc \in [Tasks -> {"idle", "waiting", "refresh", "fail", "plan", "fetch",
                            "sync", "apply", "reap"}]
        /\ got \in [Tasks -> Plan \cup {NULL}]
    BY <1>0 DEF TypeInv, TypeOK, BindInv
  \* What is left to show of a step.
  <1>s. ASSUME NodeForward, HooksKept, RowsFollow',
               \A t \in Tasks : SeenInv(t)' /\ GotInv(t)' /\ VictimsInv(t)'
        PROVE  BehindInv'
    <2>1. NodeFar' /\ HooksReal'
      BY <1>0, <1>s, FarKept, HooksStayReal DEF BehindInv
    <2> QED BY <1>s, <2>1 DEF BehindInv
  \* What is left if the tasks only drop what they have in hand.
  <1>h. ASSUME NodeForward, HooksKept, RowsFollow', RowsOwned,
               \A t \in Tasks : HandKept(t)
        PROVE  BehindInv'
    <2>1. \A t \in Tasks : SeenInv(t)' /\ GotInv(t)' /\ VictimsInv(t)'
      BY <1>0, <1>h, SeenStays, GotStays, VictimsStay DEF HandKept
    <2> QED BY <1>h, <2>1, <1>s
  <1>1. CASE Quiet
    <2>1. RowsFollow' /\ RowsOwned
      BY <1>0, <1>1, SameFollow DEF Quiet
    <2> QED BY <1>1, <2>1, <1>h DEF Quiet
  <1>2. ASSUME NEW r \in Receives, InvoiceHook(r) PROVE BehindInv'
    <2>1. NodeForward /\ HooksKept /\ \A t \in Tasks : HandKept(t)
      BY <1>0, <1>2, StandStill DEF InvoiceHook, HooksKept, HandKept, nodeVars, workVars
    <2>2. CASE \E i \in DOMAIN rows : rows[i].recip = r
      <3>1. rows' = [i \in DOMAIN rows |->
                       IF rows[i].recip = r THEN OnConflict(rows[i], r) ELSE rows[i]]
        BY <1>2, <2>2 DEF InvoiceHook
      <3>2. \A i \in DOMAIN rows :
               /\ rows'[i] \in Row
               /\ rows'[i].status = rows[i].status
               /\ rows'[i].txid = rows[i].txid
               /\ Owner(rows'[i]) = Owner(rows[i])
        BY <1>t, <3>1 DEF OnConflict, Row, Owner
      <3>3. \A i \in DOMAIN rows : FollowedNext(rows'[i])
        BY <1>0, <2>1, <3>2, RowStays
      <3>4. RowsFollow' /\ RowsOwned
        BY <3>1, <3>2, <3>3, AllFollow DEF RowsOwned
      <3> QED BY <2>1, <3>4, <1>h
    <2>3. CASE ~ \E i \in DOMAIN rows : rows[i].recip = r
      <3> DEFINE new == [idx |-> NULL, status |-> "WaitingCounterparty", txid |-> NULL,
                         asset |-> IF r \in Agnostic THEN NULL ELSE AssetOf[r],
                         recip |-> r, batch |-> r]
      <3>1. new \in Row /\ rows' = Append(rows, new)
        BY <1>2, <2>3, TransfersAssumption DEF InvoiceHook, Row, TransferStatus, Transfers
      <3>2. Owner(new) = r /\ r # NULL /\ new.status = "WaitingCounterparty"
        BY NullAssumption DEF Owner, Transfers
      <3>3. /\ r \in OnNode /\ First(r) = "WaitingCounterparty" /\ node' = node
        BY <1>2, TransfersAssumption
           DEF InvoiceHook, BehindInv, HooksReal, OnNode, First, Transfers, nodeVars
      <3>4. Rank("WaitingCounterparty") <= Rank(node[r]) /\ node[r] # "Absent"
        BY <3>3 DEF BehindInv, NodeFar, OnNode
      <3> HIDE DEF new
      <3>5. FollowedNext(new)
        BY <3>2, <3>3, <3>4 DEF FollowedNext, TransferTerminal
      <3>6. RowsFollow' /\ RowsOwned
        BY <1>0, <2>1, <3>1, <3>5, InsertFollows
      <3> QED BY <2>1, <3>6, <1>h
    <2> QED BY <2>2, <2>3
  <1>3. ASSUME NEW b \in Txids, NEW a \in Assets, SendHook(b, a) PROVE BehindInv'
    <2> DEFINE new == [idx |-> NULL, asset |-> a, status |-> SentStatus(b),
                       recip |-> NULL, txid |-> b, batch |-> NULL]
    <2>a. /\ node' = node /\ hooks' = hooks /\ seen' = seen /\ got' = got
          /\ victims' = victims
          /\ pc' = pc \/ pc' = [pc EXCEPT ![b] = "waiting"]
      BY <1>3 DEF SendHook, nodeVars
    <2>b. \A t \in Tasks : pc'[t] = "apply" => pc[t] = "apply"
      BY <2>a, <1>0 DEF Inv, TypeInv, TypeOK
    <2>1. NodeForward /\ HooksKept /\ \A t \in Tasks : HandKept(t)
      BY <1>0, <2>a, <2>b, StandStill DEF HooksKept, HandKept
    <2>2. new \in Row /\ rows' = Append(rows, new)
      BY <1>3 DEF SendHook, Row, TransferStatus, SentStatus
    <2>3. FollowedNext(new)
      BY DEF FollowedNext, Owner
    <2> HIDE DEF new
    <2>4. RowsFollow' /\ RowsOwned
      BY <1>0, <2>1, <2>2, <2>3, InsertFollows
    <2> QED BY <2>1, <2>4, <1>h
  <1>4. ASSUME NEW t \in Tasks, StartReap(t) PROVE BehindInv'
    <2> DEFINE new == {[row |-> i, from |-> rows[i].status, batch |-> rows[i].batch] :
                          i \in Expired}
    <2>1. /\ rows' = rows /\ seen' = seen /\ got' = got
          /\ pc' = [pc EXCEPT ![t] = "reap"]
          /\ victims' = [victims EXCEPT ![t] = new]
      BY <1>4 DEF StartReap, mirrorVars
    <2>2. NodeForward /\ HooksKept
      BY <1>0, <1>4, StandStill DEF StartReap, HooksKept, nodeVars, hookVars
    <2>3. RowsFollow' /\ RowsOwned
      BY <1>0, <2>1, <2>2, SameFollow
    \* A row with a batch index is the receive's of that index.
    <2>4. \A v \in new : v.row \in DOMAIN rows /\ Owner(rows[v.row]) = v.batch
      <3>1. \A i \in Expired : i \in DOMAIN rows /\ Owner(rows[i]) = rows[i].batch
        BY <1>t DEF Expired, Shaped, Owner
      <3> QED BY <3>1
    <2> HIDE DEF new
    <2>5. \A u \in Tasks : SeenInv(u)' /\ GotInv(u)'
      BY <1>0, <1>t, <2>1, <2>2, <2>3, SeenStays, GotStays
    <2>6. \A u \in Tasks : VictimsInv(u)'
      <3>1. \A v \in victims'[t] : v.row \in DOMAIN rows' /\ Owner(rows'[v.row]) = v.batch
        BY <1>t, <2>1, <2>4
      <3>2. VictimsInv(t)'
        BY <3>1 DEF VictimsInv, Owner
      <3>3. \A u \in Tasks \ {t} : VictimsInv(u)'
        BY <1>0, <1>t, <2>1, <2>3, VictimsStay
      <3> QED BY <3>2, <3>3
    <2> QED BY <2>2, <2>3, <2>5, <2>6, <1>s
  <1>5. ASSUME NEW t \in Tasks, Apply(t) PROVE BehindInv'
    <2>1. node' = node /\ NodeForward /\ HooksKept
      BY <1>0, <1>5, StandStill DEF Apply, HooksKept, nodeVars, hookVars
    <2>2. \A u \in Tasks : HandKept(u)
      BY <1>5, <1>t DEF Apply, HandKept
    <2>3. /\ got[t] \in Plan /\ got[t].row \in DOMAIN rows
          /\ rows[got[t].row].status = got[t].from
          /\ got[t].from # got[t].to /\ Planned(got[t])
      <3>1. /\ got[t] \in Plan /\ got[t].row \in DOMAIN rows
            /\ rows[got[t].row].status = got[t].from
            /\ Advances(got[t].from, got[t].to)
            /\ Planned(got[t])
        BY <1>0, <1>5 DEF TypeInv, PlansTyped, Inv, PlanInv, FreshApply, BehindInv,
             GotInv, Apply
      <3>2. got[t].from # got[t].to
        BY <3>1, AdvancingMoves DEF Plan
      <3> QED BY <3>1, <3>2
    <2> DEFINE row == rows[got[t].row]
               new == [row EXCEPT !.status = got[t].to]
    <2>4. new \in Row /\ Owner(new) = Owner(row) /\ new.status = got[t].to
      BY <1>t, <2>3 DEF Row, Plan, Owner
    <2>5. rows' = [rows EXCEPT ![got[t].row] = new]
      BY <1>5, <2>3 DEF Apply
    <2>6. /\ Owner(row) # NULL /\ node[Owner(row)] # "Absent"
          /\ Rank(got[t].to) <= Rank(node[Owner(row)])
          /\ got[t].to \in TransferTerminal => node[Owner(row)] = got[t].to
      BY <2>3 DEF Planned, Behind
    <2> HIDE DEF row, new
    <2>7. FollowedNext(new)
      BY <2>1, <2>4, <2>6 DEF FollowedNext
    <2>8. RowsFollow' /\ RowsOwned
      BY <1>0, <2>1, <2>3, <2>4, <2>5, <2>7, UpdateFollows DEF row
    <2> QED BY <2>1, <2>2, <2>8, <1>h
  <1>6. ASSUME NEW t \in Tasks, NEW a \in Assets \cup {NULL}, ListTransfers(t, a)
        PROVE  BehindInv'
    <2> DEFINE fresh == {[idx |-> x, asset |-> a, status |-> node[x]] :
                            x \in {y \in OnNode : ListedUnder(y) = a}}
    <2>1. /\ seen' = [seen EXCEPT ![t] = fresh]
          /\ rows' = rows /\ node' = node /\ pc' = pc /\ got' = got /\ victims' = victims
      BY <1>6 DEF ListTransfers, nodeVars, mirrorVars
    <2>2. NodeForward /\ HooksKept
      BY <1>0, <1>6, StandStill DEF ListTransfers, HooksKept, nodeVars, hookVars
    <2>3. RowsFollow' /\ RowsOwned
      BY <1>0, <2>1, <2>2, SameFollow
    <2>4. \A o \in fresh : Behind(o.status, o.idx)
      <3>1. \A o \in fresh : o.idx \in OnNode /\ o.status = node[o.idx]
        OBVIOUS
      <3>2. \A x \in OnNode : node[x] # "Absent" /\ Rank(node[x]) <= Rank(node[x])
        BY <1>t, FirstFacts DEF OnNode
      <3> QED BY <3>1, <3>2 DEF Behind
    <2> HIDE DEF fresh
    <2>5. \A u \in Tasks : SeenInv(u)'
      <3>1. \A o \in seen'[t] : Behind(o.status, o.idx)
        BY <1>t, <2>1, <2>4
      <3>2. SeenInv(t)'
        BY <2>1, <3>1 DEF SeenInv, Behind
      <3>3. \A u \in Tasks \ {t} : SeenInv(u)'
        BY <1>0, <1>t, <2>1, <2>2, SeenStays
      <3> QED BY <3>2, <3>3
    <2>6. \A u \in Tasks : GotInv(u)' /\ VictimsInv(u)'
      BY <1>0, <2>1, <2>2, <2>3, GotStays, VictimsStay
    <2> QED BY <2>2, <2>3, <2>5, <2>6, <1>s
  <1>7. ASSUME NEW t \in Tasks, NEW v \in victims[t], ReapFailed(t, v)
        PROVE  BehindInv'
    <2>1. v \in Victim /\ v.batch \in Transfers /\ v.batch # NULL
      BY <1>t, NullAssumption DEF Victim, Transfers
    <2>2. /\ node[v.batch] \in Fallible
          /\ node' = [node EXCEPT ![v.batch] = "Failed"]
          /\ got' = [got EXCEPT ![t] = [row |-> v.row, from |-> v.from, to |-> "Failed"]]
          /\ pc' = [pc EXCEPT ![t] = "apply"]
          /\ victims' = [victims EXCEPT ![t] = @ \ {v}]
          /\ rows' = rows /\ seen' = seen
      BY <1>7 DEF ReapFailed, mirrorVars
    <2>3. NodeForward
      <3>1. node[v.batch] # "Absent" /\ "Failed" \in TransferStatus
        BY <2>2 DEF Fallible, TransferStatus
      <3> QED BY <1>0, <2>1, <2>2, <3>1, FallibleFails, OneMoves
    <2>4. HooksKept
      BY <1>7 DEF ReapFailed, HooksKept, hookVars
    <2>5. RowsFollow' /\ RowsOwned
      BY <1>0, <2>2, <2>3, SameFollow
    <2>6. \A u \in Tasks : SeenInv(u)' /\ VictimsInv(u)'
      BY <1>0, <1>t, <2>2, <2>3, <2>5, SeenStays, VictimsStay
    <2>7. \A u \in Tasks : GotInv(u)'
      <3>1. \A u \in Tasks \ {t} : GotInv(u)'
        BY <1>0, <1>t, <2>2, <2>3, <2>5, GotStays
      <3>2. GotInv(t)'
        <4>1. v.row \in DOMAIN rows /\ Owner(rows[v.row]) = v.batch
          BY DEF BehindInv, VictimsInv
        <4>2. got'[t].row = v.row /\ got'[t].to = "Failed"
          BY <1>t, <2>2
        <4>3. node'[v.batch] = "Failed" /\ Rank("Failed") <= Rank("Failed")
          BY <1>t, <2>1, <2>2, FirstFacts DEF TransferStatus
        <4>4. /\ got'[t].row \in DOMAIN rows' /\ Owner(rows'[got'[t].row]) = v.batch
          BY <2>2, <4>1, <4>2
        <4> QED BY <2>1, <4>2, <4>3, <4>4 DEF GotInv, Planned, Behind, Owner
      <3> QED BY <3>1, <3>2
    <2> QED BY <2>3, <2>4, <2>5, <2>6, <2>7, <1>s
  <1>8. ASSUME NEW t \in Tasks, NEW o \in seen[t], ObserveNew(t, o)
        PROVE  BehindInv'
    <2> DEFINE new == [idx |-> o.idx, asset |-> o.asset, status |-> o.status,
                       recip |-> o.idx, txid |-> TxidOf(o.idx), batch |-> NULL]
    <2>1. /\ o \in Observation /\ o.idx \in Transfers /\ o.idx # NULL
          /\ Behind(o.status, o.idx)
      BY <1>t, NullAssumption DEF Observation, BehindInv, SeenInv
    <2>2. new \in Row /\ rows' = Append(rows, new)
      BY <1>8, <2>1, TransfersAssumption DEF ObserveNew, Row, Observation, TxidOf
    <2>3. node' = node /\ NodeForward /\ HooksKept /\ \A u \in Tasks : HandKept(u)
      BY <1>0, <1>t, <1>8, StandStill DEF ObserveNew, HooksKept, HandKept, nodeVars, hookVars
    <2>4. Owner(new) = o.idx /\ new.status = o.status
      BY <2>1 DEF Owner
    <2> HIDE DEF new
    <2>5. FollowedNext(new)
      BY <2>1, <2>3, <2>4 DEF FollowedNext, Behind
    <2>6. RowsFollow' /\ RowsOwned
      BY <1>0, <2>2, <2>3, <2>5, InsertFollows
    <2> QED BY <2>3, <2>6, <1>h
  <1>9. ASSUME NEW t \in Tasks, NEW o \in seen[t], NEW i \in DOMAIN rows,
               ObserveKnown(t, o, i)
        PROVE  BehindInv'
    <2> DEFINE new == Bind(rows[i], o)
    <2>1. /\ o \in Observation /\ o.idx \in Transfers /\ o.idx # NULL
          /\ Behind(o.status, o.idx)
      BY <1>t, NullAssumption DEF Observation, BehindInv, SeenInv
    <2>2. /\ node' = node /\ victims' = victims
          /\ rows' = [rows EXCEPT ![i] = new]
          /\ seen' = [seen EXCEPT ![t] = @ \ {o}]
          /\ Matches(rows[i], o)
      BY <1>9 DEF ObserveKnown, FirstMatch, nodeVars
    <2>3. NodeForward /\ HooksKept
      BY <1>0, <1>9, StandStill DEF ObserveKnown, HooksKept, nodeVars, hookVars
    <2>4. /\ new \in Row /\ new.status = rows[i].status /\ new.idx = o.idx
          /\ Owner(new) = o.idx
      BY <1>t, <2>1, TransfersAssumption DEF Bind, Row, Observation, TxidOf, Owner
    \* A row that has an owner is matched by that transfer only.
    <2>5. Owner(rows[i]) # NULL => Owner(rows[i]) = o.idx
      BY <1>t, <2>1, <2>2 DEF Owner, Matches, Shaped
    \* One that has none is a leg of the transfer's call, as it was sent.
    <2>6. Owner(rows[i]) = NULL => rows[i].status = First(o.idx)
      <3> SUFFICES ASSUME Owner(rows[i]) = NULL PROVE rows[i].status = First(o.idx)
        OBVIOUS
      <3>1. rows[i].idx = NULL /\ rows[i].recip = NULL
        BY DEF Owner
      <3>2. rows[i].txid # NULL /\ rows[i].txid = TxidOf(o.idx)
        BY <2>1, <2>2, <3>1 DEF Matches
      <3>3. o.idx \in Sends /\ rows[i].txid = TxOf[o.idx]
        BY <3>2 DEF TxidOf
      <3>4. rows[i].status = SentStatus(rows[i].txid)
        BY DEF BehindInv, RowsFollow, Followed
      <3> QED BY <3>3, <3>4 DEF First
    <2>7. FollowedNext(new)
      <3>1. CASE Owner(rows[i]) # NULL
        BY <1>0, <2>1, <2>3, <2>4, <2>5, <3>1, RowStays
      <3>2. CASE Owner(rows[i]) = NULL
        <4>1. new.status = First(o.idx) /\ node'[o.idx] # "Absent"
          BY <2>1, <2>2, <2>4, <2>6, <3>2 DEF Behind
        <4>2. Rank(First(o.idx)) <= Rank(node'[o.idx])
          BY <2>1, <2>2, <4>1 DEF BehindInv, NodeFar, OnNode
        <4> QED BY <2>1, <2>4, <4>1, <4>2, FirstFacts DEF FollowedNext
      <3> QED BY <3>1, <3>2
    <2> HIDE DEF new
    <2>8. RowsFollow' /\ RowsOwned
      BY <1>0, <2>2, <2>3, <2>4, <2>5, <2>7, UpdateFollows
    <2>9. \A u \in Tasks : SeenInv(u)' /\ VictimsInv(u)'
      BY <1>0, <1>t, <2>2, <2>3, <2>8, SeenStays, VictimsStay
    <2>10. \A u \in Tasks : GotInv(u)'
      <3>1. CASE ~Advances(rows[i].status, o.status)
        <4>1. got' = got /\ pc' = pc
          BY <1>9, <3>1 DEF ObserveKnown
        <4> QED BY <1>0, <2>3, <2>8, <4>1, GotStays
      <3>2. CASE Advances(rows[i].status, o.status)
        <4>1. /\ got' = [got EXCEPT ![t] =
                            [row |-> i, from |-> rows[i].status, to |-> o.status]]
              /\ pc' = [pc EXCEPT ![t] = "apply"]
          BY <1>9, <3>2 DEF ObserveKnown
        <4>2. \A u \in Tasks \ {t} : GotInv(u)'
          BY <1>0, <1>t, <2>3, <2>8, <4>1, GotStays
        <4>3. /\ got'[t].row = i /\ got'[t].to = o.status
              /\ i \in DOMAIN rows' /\ rows'[i] = new
          BY <1>t, <2>2, <4>1
        <4>4. Planned(got[t])'
          BY <2>1, <2>2, <2>4, <4>3 DEF Planned, Behind, Owner
        <4>5. GotInv(t)'
          BY <4>4 DEF GotInv
        <4> QED BY <4>2, <4>5
      <3> QED BY <3>1, <3>2
    <2> QED BY <2>3, <2>8, <2>9, <2>10, <1>s
  <1> QED
    BY <1>0, <1>1, <1>2, <1>3, <1>4, <1>5, <1>6, <1>7, <1>8, <1>9, QuietStep

\* The mirror never runs ahead of the node, however hooks, syncs, the reaper and
\* failures interleave: the row of a transfer is at most as far, and it has ended
\* only as the node's transfer has.
THEOREM NeverAhead == Spec => []MirrorBehindNode
  <1>1. Inv /\ Inv' /\ BindInv /\ BehindInv /\ [Next]_vars => BehindInv'
    BY BehindNext
  <1>2. BehindInv => MirrorBehindNode
    BY DEF BehindInv, RowsFollow, Followed, Behind, MirrorBehindNode
  <1> QED BY <1>1, <1>2, Invariant, BindInvariant, BehindInit, PTL DEF Spec

=============================================================================
