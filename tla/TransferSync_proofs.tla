------------------------ MODULE TransferSync_proofs ------------------------
(***************************************************************************)
(* Proofs about TransferSync, for every set of transfers and of tasks.     *)
(***************************************************************************)
EXTENDS TransferSync, SequenceTheorems, TLAPS

-----------------------------------------------------------------------------
(* Inserting a row or an event leaves the others where they are. *)

\* Appending to a sequence keeps its old elements and adds the new one last.
LEMMA AppendKeeps ==
  ASSUME NEW S, NEW seq \in Seq(S), NEW e \in S
  PROVE  /\ Append(seq, e) \in Seq(S)
         /\ DOMAIN seq \subseteq DOMAIN Append(seq, e)
         /\ \A k \in DOMAIN seq : Append(seq, e)[k] = seq[k]
         /\ \A k \in DOMAIN Append(seq, e) \ DOMAIN seq :
               Append(seq, e)[k] = e /\ \A l \in DOMAIN seq : l < k
  <1>1. /\ Len(seq) \in Nat /\ DOMAIN seq = 1..Len(seq)
        /\ DOMAIN Append(seq, e) = 1..(Len(seq) + 1)
        /\ Append(seq, e) \in Seq(S)
    BY AppendProperties, LenProperties
  <1>2. /\ \A k \in 1..Len(seq) : Append(seq, e)[k] = seq[k]
        /\ Append(seq, e)[Len(seq) + 1] = e
    BY AppendProperties, LenProperties
  <1> QED BY <1>1, <1>2

-----------------------------------------------------------------------------
(* Type correctness *)

\* A task about to apply a transition has planned it on an existing row, and
\* the reaper's victims are existing rows.
PlansTyped ==
    /\ \A t \in Tasks : pc[t] = "apply" =>
          got[t] \in Plan /\ got[t].row \in DOMAIN rows
    /\ \A t \in Tasks : \A v \in victims[t] : v.row \in DOMAIN rows

TypeInv == TypeOK /\ PlansTyped

\* The initial state is well typed.
LEMMA TypeInit == Init => TypeInv
  <1> SUFFICES ASSUME Init PROVE TypeInv
    OBVIOUS
  <1>1. TypeOK
    <2>1. node \in [Transfers -> TransferStatus \cup {"Absent"}]
      BY NullAssumption DEF Init
    <2>2. orphans \in Nat /\ passed \subseteq Receives /\ unlocked \in BOOLEAN
      BY NullAssumption DEF Init
    <2>3. rows \in Seq(Row) /\ outbox \in Seq(Event)
      BY NullAssumption DEF Init
    <2>4. \A k \in DOMAIN outbox : TransferEvent(outbox[k].to) \in TransferEvents
      BY NullAssumption DEF Init
    <2>5. hooks \subseteq Receives /\ lock \in Tasks \cup {NULL}
      BY NullAssumption DEF Init
    <2>6. sending \in [Txids -> SUBSET Assets]
      BY NullAssumption DEF Init
    <2>7. pc \in [Tasks -> {"idle", "waiting", "refresh", "fail", "plan", "fetch","sync", "apply", "reap"}]
      BY NullAssumption DEF Init
    <2>8. todo \in [Tasks -> SUBSET (Assets \cup {NULL})]
      BY NullAssumption DEF Init
    <2>9. seen \in [Tasks -> SUBSET Observation]
      BY NullAssumption DEF Init
    <2>10. got \in [Tasks -> Plan \cup {NULL}]
      BY NullAssumption DEF Init
    <2>11. victims \in [Tasks -> SUBSET Victim]
      BY NullAssumption DEF Init
    <2>12. faults \in 0..MaxFaults
      BY NullAssumption DEF Init
    <2> QED BY <2>1, <2>2, <2>3, <2>4, <2>5, <2>6, <2>7, <2>8, <2>9, <2>10, <2>11, <2>12 DEF TypeOK
  <1>2. PlansTyped
    BY DEF Init, PlansTyped
  <1> QED BY <1>1, <1>2 DEF TypeInv

\* Every step keeps the types, one case per action.
LEMMA TypeNext == TypeInv /\ [Next]_vars => TypeInv'
  <1> SUFFICES ASSUME TypeInv, [Next]_vars PROVE TypeInv'
    OBVIOUS
  <1> USE TransfersAssumption, NullAssumption DEF TypeInv
  <1>1. CASE UNCHANGED vars
    BY <1>1 DEF TypeOK, PlansTyped, vars, nodeVars, mirrorVars, hookVars, workVars
  <1>2. ASSUME NEW x \in Transfers, NEW to \in TransferStatus, NodeAdvance(x, to)
        PROVE  TypeInv'
    BY <1>2 DEF TypeOK, PlansTyped, NodeAdvance,
         nodeVars, mirrorVars, hookVars, workVars
  <1>3. ASSUME NEW r \in Receives, Expire(r)
        PROVE  TypeInv'
    BY <1>3 DEF TypeOK, PlansTyped, Expire,
         nodeVars, mirrorVars, hookVars, workVars
  <1>4. ASSUME NEW r \in Receives, Invoice(r)
        PROVE  TypeInv'
    <2>1. node' \in [Transfers -> TransferStatus \cup {"Absent"}]
      BY <1>4 DEF TypeOK, Invoice, TransferStatus
    <2>2. hooks' \subseteq Receives
      BY <1>4 DEF TypeOK, Invoice
    <2> QED
      BY <1>4, <2>1, <2>2 DEF TypeOK, PlansTyped, Invoice, mirrorVars, workVars
  <1>5. ASSUME NEW r \in Receives, InvoiceHook(r)
        PROVE  TypeInv'
    <2>1. rows' \in Seq(Row) /\ DOMAIN rows \subseteq DOMAIN rows'
      <3>1. CASE \E i \in DOMAIN rows : rows[i].recip = r
        <4>1. rows' = [i \in DOMAIN rows |->
                         IF rows[i].recip = r
                         THEN [rows[i] EXCEPT !.batch = r] ELSE rows[i]]
          BY <1>5, <3>1 DEF InvoiceHook, OnConflict
        <4>2. \A i \in DOMAIN rows : rows[i] \in Row
          BY DEF TypeOK
        <4>3. \A i \in DOMAIN rows : rows'[i] \in Row
          BY <4>1, <4>2 DEF Row
        <4>4. DOMAIN rows = 1..Len(rows) /\ Len(rows) \in Nat
          BY DEF TypeOK
        <4>5. rows' \in [1..Len(rows) -> Row]
          BY <4>1, <4>3, <4>4
        <4>6. rows' \in Seq(Row)
          BY <4>4, <4>5, SeqDef
        <4> QED
          BY <4>1, <4>6
      <3>2. CASE ~ \E i \in DOMAIN rows : rows[i].recip = r
        <4> DEFINE new == [idx |-> NULL, status |-> "WaitingCounterparty", txid |-> NULL,
                           asset |-> IF r \in Agnostic THEN NULL ELSE AssetOf[r],
                           recip |-> r, batch |-> r]
        <4>1. rows' = Append(rows, new)
          BY <1>5, <3>2 DEF InvoiceHook, OnConflict
        <4>2. new \in Row
          BY DEF Row, TransferStatus, Transfers
        <4> HIDE DEF new
        <4> QED
          BY <4>1, <4>2 DEF TypeOK
      <3> QED
        BY <3>1, <3>2
    <2> QED
      BY <1>5, <2>1 DEF TypeOK, PlansTyped, InvoiceHook, OnConflict, nodeVars, workVars
  <1>6. ASSUME NEW b \in Txids, SendRgb(b)
        PROVE  TypeInv'
    <2>1. node' \in [Transfers -> TransferStatus \cup {"Absent"}]
      BY <1>6 DEF TypeOK, SendRgb, SentStatus, TransferStatus
    <2>2. sending' \in [Txids -> SUBSET Assets]
      BY <1>6 DEF TypeOK, SendRgb, Legs, Transfers
    <2> QED
      BY <1>6, <2>1, <2>2 DEF TypeOK, PlansTyped, SendRgb, mirrorVars, workVars
  <1>7. ASSUME NEW b \in Txids, NEW a \in Assets, SendHook(b, a)
        PROVE  TypeInv'
    <2> DEFINE new == [idx |-> NULL, asset |-> a, status |-> SentStatus(b),
                       recip |-> NULL, txid |-> b, batch |-> NULL]
    <2>1. new \in Row
      BY DEF Row, SentStatus, TransferStatus
    <2>2. rows' = Append(rows, new)
      BY <1>7 DEF SendHook
    <2>3. rows' \in Seq(Row) /\ DOMAIN rows \subseteq DOMAIN rows'
      <3> HIDE DEF new
      <3> QED BY <2>1, <2>2 DEF TypeOK
    <2>4. /\ pc' \in [Tasks -> {"idle", "waiting", "refresh", "fail", "plan", "fetch",
                               "sync", "apply", "reap"}]
          /\ \A t \in Tasks : pc'[t] = "apply" => pc[t] = "apply"
      BY <1>7 DEF TypeOK, SendHook
    <2>5. todo' \in [Tasks -> SUBSET (Assets \cup {NULL})]
      <3>1. {AssetOf[s] : s \in Legs(b)} \subseteq Assets
        BY DEF Legs, Transfers
      <3>2. todo' = todo \/ todo' = [todo EXCEPT ![b] = {AssetOf[s] : s \in Legs(b)}]
        BY <1>7 DEF SendHook
      <3> QED BY <3>1, <3>2 DEF TypeOK
    <2>6. sending' \in [Txids -> SUBSET Assets]
      BY <1>7 DEF TypeOK, SendHook
    <2> QED
      BY <1>7, <2>3, <2>4, <2>5, <2>6 DEF TypeOK, PlansTyped, SendHook, nodeVars
  <1>8. ASSUME OrphanEnds
        PROVE  TypeInv'
    BY <1>8 DEF TypeOK, PlansTyped, OrphanEnds,
         nodeVars, mirrorVars, hookVars, workVars
  <1>9. ASSUME Resume
        PROVE  TypeInv'
    BY <1>9 DEF TypeOK, PlansTyped, Resume,
         nodeVars, mirrorVars, hookVars, workVars
  <1>10. ASSUME Pause
        PROVE  TypeInv'
    <2>1. faults' \in 0..MaxFaults
      BY <1>10 DEF TypeOK, Pause, Fault
    <2> QED
      BY <1>10, <2>1 DEF TypeOK, PlansTyped, Pause, nodeVars, mirrorVars, hookVars, workVars
  <1>11. ASSUME LoseHook
        PROVE  TypeInv'
    <2>1. faults' \in 0..MaxFaults
      BY <1>11 DEF TypeOK, LoseHook, Fault
    <2>2. hooks' \subseteq Receives
      BY <1>11 DEF TypeOK, LoseHook
    <2>3. sending' \in [Txids -> SUBSET Assets]
      BY <1>11 DEF TypeOK, LoseHook
    <2> QED
      BY <1>11, <2>1, <2>2, <2>3
         DEF TypeOK, PlansTyped, LoseHook, nodeVars, mirrorVars, workVars
  <1>12. ASSUME Crash
        PROVE  TypeInv'
    BY <1>12 DEF TypeOK, PlansTyped, Crash, Fault,
         nodeVars, mirrorVars, hookVars, workVars
  <1>13. ASSUME NEW t \in Tasks, Tick(t)
        PROVE  TypeInv'
    BY <1>13 DEF TypeOK, PlansTyped, Tick, Queue,
         nodeVars, mirrorVars, hookVars, workVars
  <1>14. ASSUME NEW t \in Tasks, TimerFires(t)
        PROVE  TypeInv'
    BY <1>14 DEF TypeOK, PlansTyped, TimerFires, Queue,
         nodeVars, mirrorVars, hookVars, workVars
  <1>15. ASSUME NEW t \in Tasks, Call(t)
        PROVE  TypeInv'
    BY <1>15 DEF TypeOK, PlansTyped, Call, Queue,
         nodeVars, mirrorVars, hookVars, workVars
  <1>16. ASSUME NEW t \in Tasks, NEW ids \in SUBSET Assets, SpawnAssetSync(t, ids)
        PROVE  TypeInv'
    BY <1>16 DEF TypeOK, PlansTyped, SpawnAssetSync, Queue,
         nodeVars, mirrorVars, hookVars, workVars
  <1>17. ASSUME NEW t \in Tasks, StartRefresh(t)
        PROVE  TypeInv'
    BY <1>17 DEF TypeOK, PlansTyped, StartRefresh, Acquire,
         nodeVars, mirrorVars, hookVars, workVars
  <1>18. ASSUME NEW t \in Tasks, StartFail(t)
        PROVE  TypeInv'
    BY <1>18 DEF TypeOK, PlansTyped, StartFail, Acquire,
         nodeVars, mirrorVars, hookVars, workVars
  <1>19. ASSUME NEW t \in Tasks, StartFullSync(t)
        PROVE  TypeInv'
    BY <1>19 DEF TypeOK, PlansTyped, StartFullSync, Acquire,
         nodeVars, mirrorVars, hookVars, workVars
  <1>20. ASSUME NEW t \in Tasks, StartAssetSync(t)
        PROVE  TypeInv'
    BY <1>20 DEF TypeOK, PlansTyped, StartAssetSync, Acquire,
         nodeVars, mirrorVars, hookVars, workVars
  <1>21. ASSUME NEW t \in Tasks, StartReap(t)
        PROVE  TypeInv'
    <2>1. \A i \in Expired : /\ i \in DOMAIN rows /\ i \in Nat \ {0}
                             /\ rows[i].status \in TransferStatus
                             /\ rows[i].batch \in Receives
      <3>1. \A i \in DOMAIN rows : rows[i] \in Row /\ i \in Nat \ {0}
        BY DEF TypeOK
      <3> QED BY <3>1 DEF Expired, Row
    <2> DEFINE new == {[row |-> i, from |-> rows[i].status, batch |-> rows[i].batch] :
                         i \in Expired}
    <2>2. new \subseteq Victim /\ \A v \in new : v.row \in DOMAIN rows
      BY <2>1 DEF Victim
    <2>3. victims' = [victims EXCEPT ![t] = new]
      BY <1>21 DEF StartReap
    <2>4. victims' \in [Tasks -> SUBSET Victim]
      <3> HIDE DEF new
      <3> QED BY <2>2, <2>3 DEF TypeOK
    <2>5. \A u \in Tasks : \A v \in victims'[u] : v.row \in DOMAIN rows
      <3> HIDE DEF new
      <3> QED BY <2>2, <2>3 DEF TypeOK, PlansTyped
    <2> QED
      BY <1>21, <2>4, <2>5
         DEF TypeOK, PlansTyped, StartReap, Acquire, nodeVars, mirrorVars, hookVars
  <1>22. ASSUME NEW t \in Tasks, RefreshDone(t)
        PROVE  TypeInv'
    BY <1>22 DEF TypeOK, PlansTyped, RefreshDone,
         nodeVars, mirrorVars, hookVars, workVars
  <1>23. ASSUME NEW t \in Tasks, FailRefused(t)
        PROVE  TypeInv'
    BY <1>23 DEF TypeOK, PlansTyped, FailRefused, Release,
         nodeVars, mirrorVars, hookVars, workVars
  <1>24. ASSUME NEW t \in Tasks, ReadPending(t)
        PROVE  TypeInv'
    <2> DEFINE ids == {rows[i].asset : i \in PendingRows}
    <2>1. ids \subseteq Assets \cup {NULL}
      <3>1. \A i \in DOMAIN rows : rows[i] \in Row
        BY DEF TypeOK
      <3> QED BY <3>1 DEF PendingRows, Row
    <2>2. /\ todo' = [todo EXCEPT ![t] = ids]
          /\ pc' = [pc EXCEPT ![t] = IF NULL \in ids THEN "fetch" ELSE "sync"]
      BY <1>24 DEF ReadPending
    <2> HIDE DEF ids
    <2> QED
      BY <1>24, <2>1, <2>2
         DEF TypeOK, PlansTyped, ReadPending, nodeVars, mirrorVars, hookVars
  <1>25. ASSUME NEW t \in Tasks, FetchAssets(t)
        PROVE  TypeInv'
    BY <1>25 DEF TypeOK, PlansTyped, FetchAssets, AllListings, NodeAssets, ListedUnder, OnNode,
         nodeVars, mirrorVars, hookVars, workVars
  <1>26. ASSUME NEW t \in Tasks, NEW x \in Transfers, FailDone(t, x)
        PROVE  TypeInv'
    BY <1>26 DEF TypeOK, PlansTyped, FailDone, Fallible, TransferStatus,
         nodeVars, mirrorVars, hookVars, workVars
  <1>27. ASSUME NEW t \in Tasks, NEW a \in Assets \cup {NULL}, ListTransfers(t, a)
        PROVE  TypeInv'
    BY <1>27 DEF TypeOK, PlansTyped, ListTransfers, Observation, OnNode, ListedUnder,
         nodeVars, mirrorVars, hookVars, workVars
  <1>28. ASSUME NEW t \in Tasks, NEW o \in seen[t], ObserveNew(t, o)
        PROVE  TypeInv'
    BY <1>28 DEF TypeOK, PlansTyped, ObserveNew, Row, Observation, TxidOf,
         nodeVars, mirrorVars, hookVars, workVars
  <1>29. ASSUME NEW t \in Tasks, NEW o \in seen[t], NEW i \in DOMAIN rows, ObserveKnown(t, o, i)
        PROVE  TypeInv'
    <2>1. o \in Observation /\ rows[i] \in Row /\ i \in Nat \ {0}
      BY DEF TypeOK
    <2>2. Bind(rows[i], o) \in Row
      BY <2>1 DEF Row, Observation, Bind, TxidOf
    <2>3. rows' \in Seq(Row) /\ DOMAIN rows' = DOMAIN rows
      BY <1>29, <2>2 DEF TypeOK, ObserveKnown
    <2>4. /\ seen' \in [Tasks -> SUBSET Observation]
          /\ pc' \in [Tasks -> {"idle", "waiting", "refresh", "fail", "plan", "fetch",
                               "sync", "apply", "reap"}]
      BY <1>29 DEF TypeOK, ObserveKnown
    <2>5. [row |-> i, from |-> rows[i].status, to |-> o.status] \in Plan
      BY <2>1 DEF Plan, Row, Observation
    <2>6. /\ got' \in [Tasks -> Plan \cup {NULL}]
          /\ \A u \in Tasks : pc'[u] = "apply" => got'[u] \in Plan /\ got'[u].row \in DOMAIN rows
      <3>1. CASE Advances(rows[i].status, o.status)
        <4> DEFINE plan == [row |-> i, from |-> rows[i].status, to |-> o.status]
        <4>1. got' = [got EXCEPT ![t] = plan] /\ pc' = [pc EXCEPT ![t] = "apply"]
          BY <1>29, <3>1 DEF ObserveKnown
        <4>2. plan \in Plan /\ plan.row \in DOMAIN rows
          BY <2>5
        <4> HIDE DEF plan
        <4> QED BY <4>1, <4>2 DEF TypeOK, PlansTyped
      <3>2. CASE ~Advances(rows[i].status, o.status)
        BY <1>29, <3>2 DEF TypeOK, PlansTyped, ObserveKnown
      <3> QED BY <3>1, <3>2
    <2> QED
      BY <1>29, <2>3, <2>4, <2>6 DEF TypeOK, PlansTyped, ObserveKnown, nodeVars, hookVars
  <1>30. ASSUME NEW t \in Tasks, Apply(t)
        PROVE  TypeInv'
    <2> DEFINE g == got[t]
    <2>1. g \in Plan /\ g.row \in DOMAIN rows
      BY <1>30 DEF PlansTyped, Apply
    <2>2. rows[g.row] \in Row /\ g.to \in TransferStatus /\ g \in Event
      BY <2>1 DEF TypeOK, Plan, Event
    <2>3. [rows[g.row] EXCEPT !.status = g.to] \in Row
      BY <2>2 DEF Row
    <2>4. rows' \in Seq(Row) /\ DOMAIN rows' = DOMAIN rows
      <3> DEFINE new == [rows[g.row] EXCEPT !.status = g.to]
      <3>1. CASE g.from # g.to /\ rows[g.row].status = g.from
        <4>1. rows' = [rows EXCEPT ![g.row] = new]
          BY <1>30, <3>1 DEF Apply
        <4>2. new \in Row
          BY <2>3
        <4> HIDE DEF new, g
        <4> QED BY <2>1, <4>1, <4>2, ExceptSeq DEF TypeOK
      <3>2. CASE ~(g.from # g.to /\ rows[g.row].status = g.from)
        BY <1>30, <3>2 DEF TypeOK, Apply, mirrorVars
      <3> QED BY <3>1, <3>2
    <2>5. /\ outbox' \in Seq(Event)
          /\ \A k \in DOMAIN outbox' : TransferEvent(outbox'[k].to) \in TransferEvents
      <3>1. TransferEvent(g.to) = NoEvent \/ TransferEvent(g.to) \in TransferEvents
        BY DEF TransferEvent, TransferEvents
      <3>2. \/ outbox' = outbox
            \/ TransferEvent(g.to) # NoEvent /\ outbox' = Append(outbox, g)
        <4>1. CASE g.from # g.to /\ rows[g.row].status = g.from
          BY <1>30, <4>1 DEF Apply, Announce
        <4>2. CASE ~(g.from # g.to /\ rows[g.row].status = g.from)
          BY <1>30, <4>2 DEF Apply, mirrorVars
        <4> QED BY <4>1, <4>2
      <3>3. CASE TransferEvent(g.to) # NoEvent /\ outbox' = Append(outbox, g)
        <4> HIDE DEF g
        <4>1. outbox \in Seq(Event) /\ g \in Event
          BY <2>2 DEF TypeOK
        <4>2. outbox' = Append(outbox, g)
          BY <3>3
        <4>3. /\ outbox' \in Seq(Event)
              /\ \A k \in DOMAIN outbox : outbox'[k] = outbox[k]
              /\ \A k \in DOMAIN outbox' \ DOMAIN outbox : outbox'[k] = g
          BY <4>1, <4>2, AppendKeeps
        <4>4. TransferEvent(g.to) \in TransferEvents
          BY <3>1, <3>3
        <4>5. \A k \in DOMAIN outbox' : TransferEvent(outbox'[k].to) \in TransferEvents
          BY <4>3, <4>4 DEF TypeOK
        <4> QED BY <4>3, <4>5
      <3> QED BY <3>2, <3>3 DEF TypeOK
    <2>6. /\ got' \in [Tasks -> Plan \cup {NULL}]
          /\ pc' \in [Tasks -> {"idle", "waiting", "refresh", "fail", "plan", "fetch",
                               "sync", "apply", "reap"}]
          /\ \A u \in Tasks : pc'[u] = "apply" => pc[u] = "apply" /\ got'[u] = got[u]
      BY <1>30 DEF TypeOK, Apply
    <2> QED
      BY <1>30, <2>4, <2>5, <2>6 DEF TypeOK, PlansTyped, Apply, nodeVars, hookVars
  <1>31. ASSUME NEW t \in Tasks, NEW v \in victims[t], ReapFailed(t, v)
        PROVE  TypeInv'
    <2>1. v \in Victim /\ v.row \in DOMAIN rows
      BY DEF TypeOK, PlansTyped
    <2>2. [row |-> v.row, from |-> v.from, to |-> "Failed"] \in Plan
      BY <2>1 DEF Victim, Plan, TransferStatus
    <2>3. node' \in [Transfers -> TransferStatus \cup {"Absent"}]
      BY <1>31 DEF TypeOK, ReapFailed, TransferStatus
    <2>4. victims' \in [Tasks -> SUBSET Victim] /\ \A u \in Tasks : victims'[u] \subseteq victims[u]
      BY <1>31 DEF TypeOK, ReapFailed
    <2>5. /\ got' \in [Tasks -> Plan \cup {NULL}]
          /\ pc' \in [Tasks -> {"idle", "waiting", "refresh", "fail", "plan", "fetch",
                               "sync", "apply", "reap"}]
          /\ \A u \in Tasks : pc'[u] = "apply" => got'[u] \in Plan /\ got'[u].row \in DOMAIN rows
      BY <1>31, <2>1, <2>2 DEF TypeOK, PlansTyped, ReapFailed
    <2> QED
      BY <1>31, <2>3, <2>4, <2>5
         DEF TypeOK, PlansTyped, ReapFailed, mirrorVars, hookVars
  <1>32. ASSUME NEW t \in Tasks, NEW v \in victims[t], ReapCannotFail(t, v)
        PROVE  TypeInv'
    BY <1>32 DEF TypeOK, PlansTyped, ReapCannotFail,
         nodeVars, mirrorVars, hookVars, workVars
  <1>33. ASSUME NEW t \in Tasks, NEW v \in victims[t], ReapError(t, v)
        PROVE  TypeInv'
    BY <1>33 DEF TypeOK, PlansTyped, ReapError, Release,
         nodeVars, mirrorVars, hookVars, workVars
  <1>34. ASSUME NEW t \in Tasks, Finish(t)
        PROVE  TypeInv'
    BY <1>34 DEF TypeOK, PlansTyped, Finish, Release,
         nodeVars, mirrorVars, hookVars, workVars
  <1>35. ASSUME NEW t \in Tasks, Abort(t)
        PROVE  TypeInv'
    <2>1. faults' \in 0..MaxFaults
      BY <1>35 DEF TypeOK, Abort, Fault
    <2>2. orphans' \in Nat
      BY <1>35 DEF TypeOK, Abort
    <2>3. unlocked' \in BOOLEAN
      BY <1>35, Zenon DEF TypeOK, Abort
    <2> QED
      BY <1>35, <2>1, <2>2, <2>3
         DEF TypeOK, PlansTyped, Abort, Release, nodeVars, mirrorVars, hookVars
  <1> QED
    BY <1>1, <1>2, <1>3, <1>4, <1>5, <1>6, <1>7, <1>8, <1>9, <1>10, <1>11, <1>12, <1>13, <1>14, <1>15, <1>16, <1>17, <1>18, <1>19, <1>20, <1>21, <1>22, <1>23, <1>24, <1>25, <1>26, <1>27, <1>28, <1>29, <1>30, <1>31, <1>32, <1>33, <1>34, <1>35
       DEF Next, Environment, Enter, Start, Work, FullSyncs

\* Whatever the tasks, hooks, node and faults do, every variable keeps its type:
\* rows are well-formed and the outbox holds webhook events only.
THEOREM TypeCorrect == Spec => []TypeOK
  <1>1. TypeInv => TypeOK
    BY DEF TypeInv
  <1> QED BY <1>1, TypeInit, TypeNext, PTL DEF Spec

-----------------------------------------------------------------------------
(* The lock *)

\* Only the holder of the engine lock is at work, only the reaper has victims,
\* and the sync of a /sendrgb call is spawned once: when its hook ends.
LockInv ==
    /\ \A t \in Tasks : pc[t] \notin {"idle", "waiting"} => lock = t
    /\ \A t \in Tasks : victims[t] # {} => t \in Reapers /\ pc[t] \in {"reap", "apply"}
    /\ \A b \in Txids : sending[b] # {} =>
          pc[b] = "idle" /\ \E s \in Legs(b) : node[s] # "Absent"
    /\ \A b \in Txids : pc[b] # "idle" => \E s \in Legs(b) : node[s] # "Absent"

\* No task works initially.
LEMMA LockInit == Init => LockInv
  BY DEF Init, LockInv, Tasks, AssetTasks

\* Every step keeps the lock's discipline: only its holder works.
LEMMA LockNext == TypeInv /\ LockInv /\ [Next]_vars => LockInv'
  <1> SUFFICES ASSUME TypeInv, LockInv, [Next]_vars PROVE LockInv'
    OBVIOUS
  <1> USE TasksAssumption, NullAssumption DEF TypeInv
  <1>1. CASE UNCHANGED vars
    BY <1>1 DEF TypeOK, LockInv, Legs, vars, nodeVars, mirrorVars, hookVars, workVars
  <1>2. ASSUME NEW x \in Transfers, NEW to \in TransferStatus, NodeAdvance(x, to)
        PROVE  LockInv'
    <2>1. \A y \in Transfers : node[y] # "Absent" => node'[y] # "Absent"
      BY <1>2 DEF TypeOK, NodeAdvance, TransferStatus
    <2> QED
      BY <1>2, <2>1 DEF LockInv, Legs, Transfers, NodeAdvance, mirrorVars, hookVars, workVars
  <1>3. ASSUME NEW r \in Receives, Expire(r)
        PROVE  LockInv'
    BY <1>3 DEF TypeOK, LockInv, Legs, Tasks, AssetTasks, FullSyncs, Transfers, Expire,
         nodeVars, mirrorVars, hookVars, workVars
  <1>4. ASSUME NEW r \in Receives, Invoice(r)
        PROVE  LockInv'
    BY <1>4 DEF TypeOK, LockInv, Legs, Tasks, AssetTasks, FullSyncs, Transfers, Invoice,
         nodeVars, mirrorVars, hookVars, workVars
  <1>5. ASSUME NEW r \in Receives, InvoiceHook(r)
        PROVE  LockInv'
    BY <1>5 DEF TypeOK, LockInv, Legs, Tasks, AssetTasks, FullSyncs, Transfers, InvoiceHook, OnConflict,
         nodeVars, mirrorVars, hookVars, workVars
  <1>6. ASSUME NEW b \in Txids, SendRgb(b)
        PROVE  LockInv'
    <2>1. pc[b] = "idle"
      BY <1>6 DEF LockInv, SendRgb
    <2>2. \A y \in Transfers : node[y] # "Absent" => node'[y] # "Absent"
      BY <1>6 DEF SendRgb, SentStatus
    <2>3. \E s \in Legs(b) : node'[s] # "Absent"
      BY <1>6 DEF SendRgb, SentStatus, Legs, Transfers
    <2>4. \A u \in Txids \ {b} : sending'[u] = sending[u]
      BY <1>6 DEF TypeOK, SendRgb
    <2> QED
      BY <1>6, <2>1, <2>2, <2>3, <2>4 DEF LockInv, SendRgb, Legs, Transfers, workVars
  <1>7. ASSUME NEW b \in Txids, NEW a \in Assets, SendHook(b, a)
        PROVE  LockInv'
    <2>1. pc[b] = "idle" /\ \E s \in Legs(b) : node[s] # "Absent"
      BY <1>7 DEF LockInv, SendHook
    <2>2. \A u \in Tasks :
             \/ pc'[u] = pc[u]
             \/ u = b /\ pc'[u] = "waiting" /\ sending'[u] = {}
      <3>1. CASE sending[b] = {a}
        BY <1>7, <2>1, <3>1 DEF TypeOK, SendHook, Tasks, AssetTasks
      <3>2. CASE sending[b] # {a}
        BY <1>7, <3>2 DEF SendHook
      <3> QED BY <3>1, <3>2
    <2>3. \A u \in Txids : sending'[u] # {} => sending[u] # {} /\ pc'[u] = pc[u]
      BY <1>7, <2>2 DEF TypeOK, SendHook, Tasks, AssetTasks
    <2>4. \A u \in Tasks : victims[u] # {} => pc'[u] = pc[u]
      BY <2>1, <2>2 DEF LockInv, Tasks, AssetTasks
    <2> QED
      BY <1>7, <2>1, <2>2, <2>3, <2>4
         DEF LockInv, SendHook, Legs, Tasks, AssetTasks, nodeVars
  <1>8. ASSUME OrphanEnds
        PROVE  LockInv'
    BY <1>8 DEF TypeOK, LockInv, Legs, Tasks, AssetTasks, FullSyncs, Transfers, OrphanEnds,
         nodeVars, mirrorVars, hookVars, workVars
  <1>9. ASSUME Resume
        PROVE  LockInv'
    BY <1>9 DEF TypeOK, LockInv, Legs, Tasks, AssetTasks, FullSyncs, Transfers, Resume,
         nodeVars, mirrorVars, hookVars, workVars
  <1>10. ASSUME Pause
        PROVE  LockInv'
    BY <1>10 DEF TypeOK, LockInv, Legs, Tasks, AssetTasks, FullSyncs, Transfers, Pause,
         nodeVars, mirrorVars, hookVars, workVars
  <1>11. ASSUME LoseHook
        PROVE  LockInv'
    BY <1>11 DEF TypeOK, LockInv, Legs, Tasks, AssetTasks, FullSyncs, Transfers, LoseHook,
         nodeVars, mirrorVars, hookVars, workVars
  <1>12. ASSUME Crash
        PROVE  LockInv'
    BY <1>12 DEF TypeOK, LockInv, Legs, Tasks, AssetTasks, FullSyncs, Transfers, Crash,
         nodeVars, mirrorVars, hookVars, workVars
  <1>13. ASSUME NEW t \in Refreshers, Tick(t)
        PROVE  LockInv'
    BY <1>13 DEF TypeOK, LockInv, Legs, Tasks, AssetTasks, FullSyncs, Transfers, Tick, Queue,
         nodeVars, mirrorVars, hookVars, workVars
  <1>14. ASSUME NEW t \in Reapers \cup Timers, TimerFires(t)
        PROVE  LockInv'
    BY <1>14 DEF TypeOK, LockInv, Legs, Tasks, AssetTasks, FullSyncs, Transfers, TimerFires, Queue,
         nodeVars, mirrorVars, hookVars, workVars
  <1>15. ASSUME NEW t \in Reconcilers \cup Operators, Call(t)
        PROVE  LockInv'
    BY <1>15 DEF TypeOK, LockInv, Legs, Tasks, AssetTasks, FullSyncs, Transfers, Call, Queue,
         nodeVars, mirrorVars, hookVars, workVars
  <1>16. ASSUME NEW t \in Issues, NEW ids \in SUBSET Assets, SpawnAssetSync(t, ids)
        PROVE  LockInv'
    BY <1>16 DEF TypeOK, LockInv, Legs, Tasks, AssetTasks, FullSyncs, Transfers, SpawnAssetSync, Queue,
         nodeVars, mirrorVars, hookVars, workVars
  <1>17. ASSUME NEW t \in Tasks, StartRefresh(t)
        PROVE  LockInv'
    BY <1>17 DEF TypeOK, LockInv, Legs, Tasks, AssetTasks, FullSyncs, Transfers, StartRefresh, Acquire,
         nodeVars, mirrorVars, hookVars, workVars
  <1>18. ASSUME NEW t \in Tasks, StartFail(t)
        PROVE  LockInv'
    BY <1>18 DEF TypeOK, LockInv, Legs, Tasks, AssetTasks, FullSyncs, Transfers, StartFail, Acquire,
         nodeVars, mirrorVars, hookVars, workVars
  <1>19. ASSUME NEW t \in Tasks, StartFullSync(t)
        PROVE  LockInv'
    BY <1>19 DEF TypeOK, LockInv, Legs, Tasks, AssetTasks, FullSyncs, Transfers, StartFullSync, Acquire,
         nodeVars, mirrorVars, hookVars, workVars
  <1>20. ASSUME NEW t \in Tasks, StartAssetSync(t)
        PROVE  LockInv'
    BY <1>20 DEF TypeOK, LockInv, Legs, Tasks, AssetTasks, FullSyncs, Transfers, StartAssetSync, Acquire,
         nodeVars, mirrorVars, hookVars, workVars
  <1>21. ASSUME NEW t \in Tasks, StartReap(t)
        PROVE  LockInv'
    BY <1>21 DEF TypeOK, LockInv, Legs, Tasks, AssetTasks, FullSyncs, Transfers, StartReap, Acquire,
         nodeVars, mirrorVars, hookVars, workVars
  <1>22. ASSUME NEW t \in Tasks, RefreshDone(t)
        PROVE  LockInv'
    BY <1>22 DEF TypeOK, LockInv, Legs, Tasks, AssetTasks, FullSyncs, Transfers, RefreshDone,
         nodeVars, mirrorVars, hookVars, workVars
  <1>23. ASSUME NEW t \in Tasks, FailRefused(t)
        PROVE  LockInv'
    BY <1>23 DEF TypeOK, LockInv, Legs, Tasks, AssetTasks, FullSyncs, Transfers, FailRefused, Release,
         nodeVars, mirrorVars, hookVars, workVars
  <1>24. ASSUME NEW t \in Tasks, ReadPending(t)
        PROVE  LockInv'
    BY <1>24 DEF TypeOK, LockInv, Legs, Tasks, AssetTasks, FullSyncs, Transfers, ReadPending,
         nodeVars, mirrorVars, hookVars, workVars
  <1>25. ASSUME NEW t \in Tasks, FetchAssets(t)
        PROVE  LockInv'
    BY <1>25 DEF TypeOK, LockInv, Legs, Tasks, AssetTasks, FullSyncs, Transfers, FetchAssets, AllListings,
         nodeVars, mirrorVars, hookVars, workVars
  <1>26. ASSUME NEW t \in Tasks, NEW x \in Transfers, FailDone(t, x)
        PROVE  LockInv'
    BY <1>26 DEF TypeOK, LockInv, Legs, Tasks, AssetTasks, FullSyncs, Transfers, FailDone,
         nodeVars, mirrorVars, hookVars, workVars
  <1>27. ASSUME NEW t \in Tasks, NEW a \in Assets \cup {NULL}, ListTransfers(t, a)
        PROVE  LockInv'
    BY <1>27 DEF TypeOK, LockInv, Legs, Tasks, AssetTasks, FullSyncs, Transfers, ListTransfers,
         nodeVars, mirrorVars, hookVars, workVars
  <1>28. ASSUME NEW t \in Tasks, NEW o \in seen[t], ObserveNew(t, o)
        PROVE  LockInv'
    BY <1>28 DEF TypeOK, LockInv, Legs, Tasks, AssetTasks, FullSyncs, Transfers, ObserveNew,
         nodeVars, mirrorVars, hookVars, workVars
  <1>29. ASSUME NEW t \in Tasks, NEW o \in seen[t], NEW i \in DOMAIN rows, ObserveKnown(t, o, i)
        PROVE  LockInv'
    <2>1. \A u \in Tasks :
             \/ pc'[u] = pc[u]
             \/ u = t /\ pc[u] = "sync" /\ pc'[u] = "apply"
      <3>1. CASE Advances(rows[i].status, o.status)
        BY <1>29, <3>1 DEF TypeOK, ObserveKnown
      <3>2. CASE ~Advances(rows[i].status, o.status)
        BY <1>29, <3>2 DEF ObserveKnown
      <3> QED BY <3>1, <3>2
    <2> QED
      BY <1>29, <2>1 DEF LockInv, ObserveKnown, Legs, Tasks, AssetTasks, nodeVars, hookVars
  <1>30. ASSUME NEW t \in Tasks, Apply(t)
        PROVE  LockInv'
    <2>1. \A u \in Tasks :
             \/ pc'[u] = pc[u]
             \/ u = t /\ pc[u] = "apply" /\ pc'[u] \in {"reap", "sync"}
      BY <1>30 DEF TypeOK, Apply
    <2>2. pc'[t] = IF t \in Reapers THEN "reap" ELSE "sync"
      BY <1>30 DEF TypeOK, Apply
    <2>3. sending' = sending /\ node' = node /\ victims' = victims /\ lock' = lock
      BY <1>30 DEF Apply, nodeVars, hookVars
    <2> QED
      BY <1>30, <2>1, <2>2, <2>3 DEF LockInv, Legs, Tasks, AssetTasks, Apply
  <1>31. ASSUME NEW t \in Tasks, NEW v \in victims[t], ReapFailed(t, v)
        PROVE  LockInv'
    BY <1>31 DEF TypeOK, LockInv, Legs, Tasks, AssetTasks, FullSyncs, Transfers, ReapFailed,
         nodeVars, mirrorVars, hookVars, workVars
  <1>32. ASSUME NEW t \in Tasks, NEW v \in victims[t], ReapCannotFail(t, v)
        PROVE  LockInv'
    BY <1>32 DEF TypeOK, LockInv, Legs, Tasks, AssetTasks, FullSyncs, Transfers, ReapCannotFail,
         nodeVars, mirrorVars, hookVars, workVars
  <1>33. ASSUME NEW t \in Tasks, NEW v \in victims[t], ReapError(t, v)
        PROVE  LockInv'
    BY <1>33 DEF TypeOK, LockInv, Legs, Tasks, AssetTasks, FullSyncs, Transfers, ReapError, Release,
         nodeVars, mirrorVars, hookVars, workVars
  <1>34. ASSUME NEW t \in Tasks, Finish(t)
        PROVE  LockInv'
    BY <1>34 DEF TypeOK, LockInv, Legs, Tasks, AssetTasks, FullSyncs, Transfers, Finish, Release,
         nodeVars, mirrorVars, hookVars, workVars
  <1>35. ASSUME NEW t \in Tasks, Abort(t)
        PROVE  LockInv'
    BY <1>35 DEF TypeOK, LockInv, Legs, Tasks, AssetTasks, FullSyncs, Transfers, Abort, Release,
         nodeVars, mirrorVars, hookVars, workVars
  <1> QED
    BY <1>1, <1>2, <1>3, <1>4, <1>5, <1>6, <1>7, <1>8, <1>9, <1>10, <1>11, <1>12, <1>13, <1>14, <1>15, <1>16, <1>17, <1>18, <1>19, <1>20, <1>21, <1>22, <1>23, <1>24, <1>25, <1>26, <1>27, <1>28, <1>29, <1>30, <1>31, <1>32, <1>33, <1>34, <1>35
       DEF Next, Environment, Enter, Start, Work, FullSyncs, Tasks

-----------------------------------------------------------------------------
(* Steps that move no row, add one at most, and plan no transition *)

RowsKept ==
    /\ \A i \in DOMAIN rows :
          /\ i \in DOMAIN rows'
          /\ rows'[i].status = rows[i].status
          /\ rows[i].idx # NULL => rows'[i].idx = rows[i].idx
    /\ DOMAIN rows' = DOMAIN rows \/ \E e \in Row : rows' = Append(rows, e)

PlansKept ==
    \A t \in Tasks :
        /\ pc'[t] = "apply" => pc[t] = "apply" /\ got'[t] = got[t]
        /\ victims'[t] \subseteq victims[t]

Frame == RowsKept /\ PlansKept /\ outbox' = outbox

\* Inserting a row leaves the rows there are.
LEMMA AppendRowKeeps ==
  ASSUME TypeInv, NEW e \in Row, rows' = Append(rows, e)
  PROVE  RowsKept
  <1>1. rows \in Seq(Row)
    BY DEF TypeInv, TypeOK
  <1> QED BY <1>1, AppendKeeps DEF RowsKept

\* Every step but four is a frame step.
LEMMA FrameStep ==
  ASSUME TypeInv, [Next]_vars
  PROVE  \/ Frame
         \/ \E t \in Tasks :
               \/ StartReap(t) \/ Apply(t)
               \/ \E v \in victims[t] : ReapFailed(t, v)
               \/ \E o \in seen[t], i \in DOMAIN rows : ObserveKnown(t, o, i)
  <1> DEFINE Goal == \/ Frame
                     \/ \E t \in Tasks :
                           \/ StartReap(t) \/ Apply(t)
                           \/ \E v \in victims[t] : ReapFailed(t, v)
                           \/ \E o \in seen[t], i \in DOMAIN rows : ObserveKnown(t, o, i)
  <1> SUFFICES Goal
    OBVIOUS
  <1> USE DEF TypeInv
  <1>1. CASE UNCHANGED vars
    BY <1>1 DEF Frame, RowsKept, PlansKept, vars, nodeVars, mirrorVars, hookVars, workVars
  <1>2. ASSUME NEW x \in Transfers, NEW to \in TransferStatus, NodeAdvance(x, to)
        PROVE  Goal
    BY <1>2 DEF TypeOK, Frame, RowsKept, PlansKept, NodeAdvance,
         nodeVars, mirrorVars, hookVars, workVars
  <1>3. ASSUME NEW r \in Receives, Expire(r)
        PROVE  Goal
    BY <1>3 DEF TypeOK, Frame, RowsKept, PlansKept, Expire,
         nodeVars, mirrorVars, hookVars, workVars
  <1>4. ASSUME NEW r \in Receives, Invoice(r)
        PROVE  Goal
    BY <1>4 DEF TypeOK, Frame, RowsKept, PlansKept, Invoice,
         nodeVars, mirrorVars, hookVars, workVars
  <1>5. ASSUME NEW r \in Receives, InvoiceHook(r)
        PROVE  Goal
    <2>1. RowsKept
      <3>1. CASE \E i \in DOMAIN rows : rows[i].recip = r
        <4>1. \A i \in DOMAIN rows : rows[i] \in Row
          BY DEF TypeOK
        <4>2. rows' = [i \in DOMAIN rows |->
                         IF rows[i].recip = r
                         THEN [rows[i] EXCEPT !.batch = r] ELSE rows[i]]
          BY <1>5, <3>1 DEF InvoiceHook, OnConflict
        <4> QED BY <4>1, <4>2 DEF RowsKept, Row
      <3>2. CASE ~ \E i \in DOMAIN rows : rows[i].recip = r
        <4> DEFINE new == [idx |-> NULL, status |-> "WaitingCounterparty", txid |-> NULL,
                           asset |-> IF r \in Agnostic THEN NULL ELSE AssetOf[r],
                           recip |-> r, batch |-> r]
        <4>1. new \in Row
          BY TransfersAssumption DEF Row, TransferStatus, Transfers
        <4>2. rows' = Append(rows, new)
          BY <1>5, <3>2 DEF InvoiceHook, OnConflict
        <4> HIDE DEF new
        <4> QED BY <4>1, <4>2, AppendRowKeeps
      <3> QED BY <3>1, <3>2
    <2>2. PlansKept /\ outbox' = outbox
      BY <1>5 DEF PlansKept, InvoiceHook, workVars
    <2> QED BY <2>1, <2>2 DEF Frame
  <1>6. ASSUME NEW b \in Txids, SendRgb(b)
        PROVE  Goal
    BY <1>6 DEF TypeOK, Frame, RowsKept, PlansKept, SendRgb,
         nodeVars, mirrorVars, hookVars, workVars
  <1>7. ASSUME NEW b \in Txids, NEW a \in Assets, SendHook(b, a)
        PROVE  Goal
    <2> DEFINE new == [idx |-> NULL, asset |-> a, status |-> SentStatus(b),
                       recip |-> NULL, txid |-> b, batch |-> NULL]
    <2>1. new \in Row
      BY DEF Row, SentStatus, TransferStatus
    <2>2. rows' = Append(rows, new)
      BY <1>7 DEF SendHook
    <2>3. RowsKept
      <3> HIDE DEF new
      <3> QED BY <2>1, <2>2, AppendRowKeeps
    <2>4. PlansKept /\ outbox' = outbox
      BY <1>7 DEF TypeOK, PlansKept, SendHook
    <2> QED BY <2>3, <2>4 DEF Frame
  <1>8. ASSUME OrphanEnds
        PROVE  Goal
    BY <1>8 DEF TypeOK, Frame, RowsKept, PlansKept, OrphanEnds,
         nodeVars, mirrorVars, hookVars, workVars
  <1>9. ASSUME Resume
        PROVE  Goal
    BY <1>9 DEF TypeOK, Frame, RowsKept, PlansKept, Resume,
         nodeVars, mirrorVars, hookVars, workVars
  <1>10. ASSUME Pause
        PROVE  Goal
    BY <1>10 DEF TypeOK, Frame, RowsKept, PlansKept, Pause,
         nodeVars, mirrorVars, hookVars, workVars
  <1>11. ASSUME LoseHook
        PROVE  Goal
    BY <1>11 DEF TypeOK, Frame, RowsKept, PlansKept, LoseHook,
         nodeVars, mirrorVars, hookVars, workVars
  <1>12. ASSUME Crash
        PROVE  Goal
    BY <1>12 DEF TypeOK, Frame, RowsKept, PlansKept, Crash,
         nodeVars, mirrorVars, hookVars, workVars
  <1>13. ASSUME NEW t \in Refreshers, Tick(t)
        PROVE  Goal
    BY <1>13 DEF TypeOK, Frame, RowsKept, PlansKept, Tick, Queue,
         nodeVars, mirrorVars, hookVars, workVars
  <1>14. ASSUME NEW t \in Reapers \cup Timers, TimerFires(t)
        PROVE  Goal
    BY <1>14 DEF TypeOK, Frame, RowsKept, PlansKept, TimerFires, Queue,
         nodeVars, mirrorVars, hookVars, workVars
  <1>15. ASSUME NEW t \in Reconcilers \cup Operators, Call(t)
        PROVE  Goal
    BY <1>15 DEF TypeOK, Frame, RowsKept, PlansKept, Call, Queue,
         nodeVars, mirrorVars, hookVars, workVars
  <1>16. ASSUME NEW t \in Issues, NEW ids \in SUBSET Assets, SpawnAssetSync(t, ids)
        PROVE  Goal
    BY <1>16 DEF TypeOK, Frame, RowsKept, PlansKept, SpawnAssetSync, Queue,
         nodeVars, mirrorVars, hookVars, workVars
  <1>17. ASSUME NEW t \in Tasks, StartRefresh(t)
        PROVE  Goal
    BY <1>17 DEF TypeOK, Frame, RowsKept, PlansKept, StartRefresh, Acquire,
         nodeVars, mirrorVars, hookVars, workVars
  <1>18. ASSUME NEW t \in Tasks, StartFail(t)
        PROVE  Goal
    BY <1>18 DEF TypeOK, Frame, RowsKept, PlansKept, StartFail, Acquire,
         nodeVars, mirrorVars, hookVars, workVars
  <1>19. ASSUME NEW t \in Tasks, StartFullSync(t)
        PROVE  Goal
    BY <1>19 DEF TypeOK, Frame, RowsKept, PlansKept, StartFullSync, Acquire,
         nodeVars, mirrorVars, hookVars, workVars
  <1>20. ASSUME NEW t \in Tasks, StartAssetSync(t)
        PROVE  Goal
    BY <1>20 DEF TypeOK, Frame, RowsKept, PlansKept, StartAssetSync, Acquire,
         nodeVars, mirrorVars, hookVars, workVars
  <1>21. ASSUME NEW t \in Tasks, StartReap(t)
        PROVE  Goal
    BY <1>21
  <1>22. ASSUME NEW t \in Tasks, RefreshDone(t)
        PROVE  Goal
    BY <1>22 DEF TypeOK, Frame, RowsKept, PlansKept, RefreshDone,
         nodeVars, mirrorVars, hookVars, workVars
  <1>23. ASSUME NEW t \in Tasks, FailRefused(t)
        PROVE  Goal
    BY <1>23 DEF TypeOK, Frame, RowsKept, PlansKept, FailRefused, Release,
         nodeVars, mirrorVars, hookVars, workVars
  <1>24. ASSUME NEW t \in Tasks, ReadPending(t)
        PROVE  Goal
    BY <1>24 DEF TypeOK, Frame, RowsKept, PlansKept, ReadPending,
         nodeVars, mirrorVars, hookVars, workVars
  <1>25. ASSUME NEW t \in Tasks, FetchAssets(t)
        PROVE  Goal
    BY <1>25 DEF TypeOK, Frame, RowsKept, PlansKept, FetchAssets, AllListings,
         nodeVars, mirrorVars, hookVars, workVars
  <1>26. ASSUME NEW t \in Tasks, NEW x \in Transfers, FailDone(t, x)
        PROVE  Goal
    BY <1>26 DEF TypeOK, Frame, RowsKept, PlansKept, FailDone,
         nodeVars, mirrorVars, hookVars, workVars
  <1>27. ASSUME NEW t \in Tasks, NEW a \in Assets \cup {NULL}, ListTransfers(t, a)
        PROVE  Goal
    BY <1>27 DEF TypeOK, Frame, RowsKept, PlansKept, ListTransfers,
         nodeVars, mirrorVars, hookVars, workVars
  <1>28. ASSUME NEW t \in Tasks, NEW o \in seen[t], ObserveNew(t, o)
        PROVE  Goal
    <2> DEFINE new == [idx |-> o.idx, asset |-> o.asset, status |-> o.status,
                       recip |-> o.idx, txid |-> TxidOf(o.idx), batch |-> NULL]
    <2>1. new \in Row
      <3>1. o \in Observation
        BY DEF TypeOK
      <3> QED BY <3>1, TransfersAssumption DEF Row, Observation, TxidOf
    <2>2. rows' = Append(rows, new)
      BY <1>28 DEF ObserveNew
    <2>3. RowsKept
      <3> HIDE DEF new
      <3> QED BY <2>1, <2>2, AppendRowKeeps
    <2>4. PlansKept /\ outbox' = outbox
      BY <1>28 DEF TypeOK, PlansKept, ObserveNew, workVars
    <2> QED BY <2>3, <2>4 DEF Frame
  <1>29. ASSUME NEW t \in Tasks, NEW o \in seen[t], NEW i \in DOMAIN rows, ObserveKnown(t, o, i)
        PROVE  Goal
    BY <1>29
  <1>30. ASSUME NEW t \in Tasks, Apply(t)
        PROVE  Goal
    BY <1>30
  <1>31. ASSUME NEW t \in Tasks, NEW v \in victims[t], ReapFailed(t, v)
        PROVE  Goal
    BY <1>31
  <1>32. ASSUME NEW t \in Tasks, NEW v \in victims[t], ReapCannotFail(t, v)
        PROVE  Goal
    BY <1>32 DEF TypeOK, Frame, RowsKept, PlansKept, ReapCannotFail,
         nodeVars, mirrorVars, hookVars, workVars
  <1>33. ASSUME NEW t \in Tasks, NEW v \in victims[t], ReapError(t, v)
        PROVE  Goal
    BY <1>33 DEF TypeOK, Frame, RowsKept, PlansKept, ReapError, Release,
         nodeVars, mirrorVars, hookVars, workVars
  <1>34. ASSUME NEW t \in Tasks, Finish(t)
        PROVE  Goal
    BY <1>34 DEF TypeOK, Frame, RowsKept, PlansKept, Finish, Release,
         nodeVars, mirrorVars, hookVars, workVars
  <1>35. ASSUME NEW t \in Tasks, Abort(t)
        PROVE  Goal
    BY <1>35 DEF TypeOK, Frame, RowsKept, PlansKept, Abort, Release,
         nodeVars, mirrorVars, hookVars, workVars
  <1> QED
    BY <1>1, <1>2, <1>3, <1>4, <1>5, <1>6, <1>7, <1>8, <1>9, <1>10, <1>11, <1>12, <1>13, <1>14, <1>15, <1>16, <1>17, <1>18, <1>19, <1>20, <1>21, <1>22, <1>23, <1>24, <1>25, <1>26, <1>27, <1>28, <1>29, <1>30, <1>31, <1>32, <1>33, <1>34, <1>35
       DEF Next, Environment, Enter, Start, Work, FullSyncs, Tasks

-----------------------------------------------------------------------------
(* Planned transitions are fresh *)

\* What makes FreshApply inductive: a planned transition moves its row forward,
\* and the reaper's victims are different rows, none of them the one whose
\* transition it is applying.
PlanInv ==
    /\ FreshApply
    /\ \A t \in Tasks : pc[t] = "apply" => Advances(got[t].from, got[t].to)
    /\ \A t \in Tasks : \A v \in victims[t] : v.from \in Fallible
    /\ \A t \in Tasks : \A v, w \in victims[t] : v.row = w.row => v = w
    /\ \A t \in Tasks : pc[t] = "apply" => \A v \in victims[t] : v.row # got[t].row

Inv == TypeInv /\ LockInv /\ PlanInv

\* Nothing is planned initially.
LEMMA PlanInit == Init => PlanInv
  BY DEF Init, PlanInv, FreshApply

\* Ranks are numbers, and moving forward raises the rank.
LEMMA RankFacts ==
  /\ \A s \in TransferStatus : Rank(s) \in 0..5
  /\ \A s \in TransferStatus \ TransferTerminal : Rank(s) < Rank("Failed")
  /\ \A s \in TransferTerminal : Rank(s) = 5
  BY DEF Rank, TransferStatus, TransferTerminal

\* A move forward is a move.
LEMMA AdvancingMoves ==
  ASSUME NEW from \in TransferStatus, NEW to, Advances(from, to)
  PROVE  from # to
  BY RankFacts DEF Advances

\* What the node may fail, plan_transition moves to Failed.
LEMMA FallibleFails == \A s \in Fallible : Advances(s, "Failed")
  BY DEF Advances, Rank, Fallible, TransferTerminal

\* A frame step keeps every plan valid.
LEMMA FramePlan == ASSUME Inv, Frame PROVE PlanInv'
  <1>1. \A t \in Tasks : \A v \in victims[t] : v.row \in DOMAIN rows
    BY DEF Inv, TypeInv, PlansTyped
  <1>2. \A t \in Tasks : pc[t] = "apply" => got[t].row \in DOMAIN rows
    BY DEF Inv, TypeInv, PlansTyped
  <1>3. FreshApply'
    BY <1>1, <1>2 DEF Inv, PlanInv, FreshApply, Frame, RowsKept, PlansKept
  <1>4. \A t \in Tasks : pc'[t] = "apply" => Advances(got'[t].from, got'[t].to)
    BY DEF Inv, PlanInv, Frame, PlansKept
  <1>5. /\ \A t \in Tasks : \A v \in victims'[t] : v.from \in Fallible
        /\ \A t \in Tasks : \A v, w \in victims'[t] : v.row = w.row => v = w
        /\ \A t \in Tasks : pc'[t] = "apply" => \A v \in victims'[t] : v.row # got'[t].row
    BY DEF Inv, PlanInv, Frame, PlansKept
  <1> QED BY <1>3, <1>4, <1>5 DEF PlanInv

\* Every step keeps every plan valid: frame steps, and the four that read or
\* move a row.
LEMMA PlanNext == Inv /\ [Next]_vars => PlanInv'
  <1> SUFFICES ASSUME Inv, [Next]_vars PROVE PlanInv'
    OBVIOUS
  <1> USE DEF Inv
  <1>1. CASE Frame
    BY <1>1, FramePlan
  <1>2. ASSUME NEW t \in Tasks, StartReap(t)
        PROVE  PlanInv'
    <2> DEFINE new == {[row |-> i, from |-> rows[i].status, batch |-> rows[i].batch] :
                         i \in Expired}
    <2>1. /\ \A v \in new : rows[v.row].status = v.from /\ v.from \in Fallible
          /\ \A v, w \in new : v.row = w.row => v = w
      BY DEF Expired
    <2>2. victims' = [victims EXCEPT ![t] = new]
      BY <1>2 DEF StartReap
    <2>3. rows' = rows /\ got' = got /\ pc' = [pc EXCEPT ![t] = "reap"]
      BY <1>2 DEF StartReap, mirrorVars
    <2> HIDE DEF new
    <2> QED
      BY <2>1, <2>2, <2>3 DEF TypeInv, TypeOK, PlanInv, FreshApply
  <1>3. ASSUME NEW t \in Tasks, NEW v \in victims[t], ReapFailed(t, v)
        PROVE  PlanInv'
    <2> DEFINE plan == [row |-> v.row, from |-> v.from, to |-> "Failed"]
    <2>1. /\ rows' = rows
          /\ got' = [got EXCEPT ![t] = plan]
          /\ pc' = [pc EXCEPT ![t] = "apply"]
          /\ victims' = [victims EXCEPT ![t] = @ \ {v}]
      BY <1>3 DEF ReapFailed, mirrorVars
    <2>2. /\ rows[plan.row].status = plan.from
          /\ Advances(plan.from, plan.to)
          /\ \A w \in victims[t] \ {v} : w.row # plan.row
      BY FallibleFails DEF PlanInv, FreshApply
    <2> HIDE DEF plan
    <2> QED
      BY <2>1, <2>2 DEF TypeInv, TypeOK, PlanInv, FreshApply
  <1>4. ASSUME NEW t \in Tasks, NEW o \in seen[t], NEW i \in DOMAIN rows,
               ObserveKnown(t, o, i)
        PROVE  PlanInv'
    <2>1. victims' = victims /\ victims[t] = {}
      BY <1>4 DEF LockInv, ObserveKnown
    <2>2. \A j \in DOMAIN rows : rows'[j].status = rows[j].status
      <3>1. rows[i] \in Row
        BY DEF TypeInv, TypeOK
      <3>2. Bind(rows[i], o).status = rows[i].status
        BY <3>1 DEF Bind, Row
      <3> QED BY <1>4, <3>2 DEF ObserveKnown
    <2>3. \A u \in Tasks \ {t} : pc'[u] = pc[u] /\ got'[u] = got[u]
      <3>1. CASE Advances(rows[i].status, o.status)
        BY <1>4, <3>1 DEF TypeInv, TypeOK, ObserveKnown
      <3>2. CASE ~Advances(rows[i].status, o.status)
        BY <1>4, <3>2 DEF ObserveKnown
      <3> QED BY <3>1, <3>2
    <2>4. pc'[t] = "apply" => /\ got'[t].row = i
                              /\ got'[t].from = rows[i].status
                              /\ Advances(got'[t].from, got'[t].to)
      <3>1. CASE Advances(rows[i].status, o.status)
        BY <1>4, <3>1 DEF TypeInv, TypeOK, ObserveKnown
      <3>2. CASE ~Advances(rows[i].status, o.status)
        BY <1>4, <3>2 DEF ObserveKnown
      <3> QED BY <3>1, <3>2
    <2>5. /\ \A u \in Tasks : \A w \in victims[u] : w.row \in DOMAIN rows
          /\ \A u \in Tasks : pc[u] = "apply" => got[u].row \in DOMAIN rows
      BY DEF TypeInv, PlansTyped
    <2>6. FreshApply'
      BY <2>1, <2>2, <2>3, <2>4, <2>5 DEF PlanInv, FreshApply
    <2> QED
      BY <2>1, <2>3, <2>4, <2>6 DEF PlanInv
  <1>5. ASSUME NEW t \in Tasks, Apply(t)
        PROVE  PlanInv'
    <2>1. /\ pc'[t] # "apply"
          /\ \A u \in Tasks \ {t} : pc'[u] = pc[u] /\ got'[u] = got[u]
          /\ victims' = victims
      BY <1>5 DEF TypeInv, TypeOK, Apply
    <2>2. \A u \in Tasks \ {t} : pc[u] # "apply" /\ victims[u] = {}
      BY <1>5 DEF LockInv, Apply
    <2>3. got[t].row \in DOMAIN rows /\ \A w \in victims[t] : w.row \in DOMAIN rows
      BY <1>5 DEF TypeInv, PlansTyped, Apply
    <2>4. \A j \in DOMAIN rows : j # got[t].row => rows'[j] = rows[j]
      <3>1. CASE got[t].from # got[t].to /\ rows[got[t].row].status = got[t].from
        BY <1>5, <3>1 DEF Apply
      <3>2. CASE ~(got[t].from # got[t].to /\ rows[got[t].row].status = got[t].from)
        BY <1>5, <3>2 DEF Apply, mirrorVars
      <3> QED BY <3>1, <3>2
    <2>5. \A w \in victims[t] : w.row # got[t].row
      BY <1>5 DEF PlanInv, Apply
    <2>6. FreshApply'
      BY <2>1, <2>2, <2>3, <2>4, <2>5 DEF PlanInv, FreshApply
    <2> QED
      BY <2>1, <2>2, <2>6 DEF PlanInv
  <1> QED
    BY <1>1, <1>2, <1>3, <1>4, <1>5, FrameStep

\* The inductive invariant holds in every reachable state.
LEMMA Invariant == Spec => []Inv
  <1>1. Init => Inv
    BY TypeInit, LockInit, PlanInit DEF Inv
  <1>2. Inv /\ [Next]_vars => Inv'
    BY TypeNext, LockNext, PlanNext DEF Inv
  <1> QED BY <1>1, <1>2, PTL DEF Spec

\* The engine lock makes every planned transition fresh: between the read of a
\* row and the compare-and-set, no other task changes its status.
THEOREM TransitionsFresh == Spec => []FreshApply
  <1>1. Inv => FreshApply
    BY DEF Inv, PlanInv
  <1> QED BY <1>1, Invariant, PTL

-----------------------------------------------------------------------------
(* Rows move forward *)

\* What one step may do to the rows and the outbox.
Moved(i) ==
    /\ i \in DOMAIN rows
    /\ Advances(rows[i].status, rows'[i].status)
    /\ rows'[i].idx = rows[i].idx
    /\ DOMAIN rows' = DOMAIN rows
    /\ \A j \in DOMAIN rows : j # i => rows'[j] = rows[j]
    /\ IF TransferEvent(rows'[i].status) = NoEvent
       THEN outbox' = outbox
       ELSE \E g \in Event : /\ outbox' = Append(outbox, g)
                            /\ g.row = i
                            /\ g.from = rows[i].status
                            /\ g.to = rows'[i].status

\* What one step can do to a row.
LEMMA RowStep ==
  ASSUME Inv, [Next]_vars
  PROVE  (RowsKept /\ outbox' = outbox) \/ \E i \in DOMAIN rows : Moved(i)
  <1> USE DEF Inv
  <1>1. CASE Frame
    BY <1>1 DEF Frame
  <1>2. ASSUME NEW t \in Tasks, StartReap(t)
        PROVE  RowsKept /\ outbox' = outbox
    BY <1>2 DEF StartReap, RowsKept, mirrorVars
  <1>3. ASSUME NEW t \in Tasks, NEW v \in victims[t], ReapFailed(t, v)
        PROVE  RowsKept /\ outbox' = outbox
    BY <1>3 DEF ReapFailed, RowsKept, mirrorVars
  <1>4. ASSUME NEW t \in Tasks, NEW o \in seen[t], NEW i \in DOMAIN rows,
               ObserveKnown(t, o, i)
        PROVE  RowsKept /\ outbox' = outbox
    <2>1. rows[i] \in Row
      BY DEF TypeInv, TypeOK
    <2>2. /\ Bind(rows[i], o).status = rows[i].status
          /\ Bind(rows[i], o).idx = o.idx
      BY <2>1 DEF Bind, Row
    <2>3. rows[i].idx = NULL \/ rows[i].idx = o.idx
      BY <1>4 DEF ObserveKnown, FirstMatch, Matches
    <2> QED
      BY <1>4, <2>2, <2>3 DEF ObserveKnown, RowsKept
  <1>5. ASSUME NEW t \in Tasks, Apply(t)
        PROVE  \E i \in DOMAIN rows : Moved(i)
    <2> DEFINE g == got[t]
               new == [rows[g.row] EXCEPT !.status = g.to]
    <2>1. /\ g \in Plan /\ g.row \in DOMAIN rows
          /\ rows[g.row].status = g.from
          /\ Advances(g.from, g.to) /\ g.from # g.to
      <3>1. got[t] \in Plan /\ got[t].row \in DOMAIN rows
        BY <1>5 DEF TypeInv, PlansTyped, Apply
      <3>2. rows[got[t].row].status = got[t].from /\ Advances(got[t].from, got[t].to)
        BY <1>5 DEF PlanInv, FreshApply, Apply
      <3>3. got[t].from # got[t].to
        BY <3>1, <3>2, AdvancingMoves DEF Plan
      <3> QED BY <3>1, <3>2, <3>3
    <2>2. rows[g.row] \in Row /\ g \in Event
      BY <2>1 DEF TypeInv, TypeOK, Plan, Event
    <2>3. rows' = [rows EXCEPT ![g.row] = new]
      BY <1>5, <2>1 DEF Apply
    <2>4. outbox' = IF TransferEvent(g.to) # NoEvent THEN Append(outbox, g) ELSE outbox
      BY <1>5, <2>1 DEF Apply, Announce
    <2>5. new.status = g.to /\ new.idx = rows[g.row].idx
      BY <2>2 DEF Row
    <2> HIDE DEF new, g
    <2> QED
      BY <2>1, <2>2, <2>3, <2>4, <2>5 DEF Moved
  <1> QED
    BY <1>1, <1>2, <1>3, <1>4, <1>5, FrameStep

\* No step moves a row back, out of a terminal status, or to another transfer.
THEOREM RowsMoveForward == Spec => StatusForward
  <1> DEFINE Forward ==
        \A i \in DOMAIN rows :
          /\ i \in DOMAIN rows'
          /\ rows'[i].status # rows[i].status => Advances(rows[i].status, rows'[i].status)
          /\ rows[i].idx # NULL => rows'[i].idx = rows[i].idx
  <1>1. Inv /\ [Next]_vars => [Forward]_vars
    <2> SUFFICES ASSUME Inv, [Next]_vars PROVE Forward
      OBVIOUS
    <2>1. CASE RowsKept
      BY <2>1 DEF RowsKept
    <2>2. ASSUME NEW i \in DOMAIN rows, Moved(i) PROVE Forward
      BY <2>2 DEF Moved
    <2> QED BY <2>1, <2>2, RowStep
  <1> QED BY <1>1, Invariant, PTL DEF Spec, StatusForward

-----------------------------------------------------------------------------
(* Webhook events tell one story *)

\* An event's row is at least as far as the event, and at the very status the
\* event reports if that is terminal.
OutboxInv ==
    \A k \in DOMAIN outbox :
        LET e == outbox[k] IN
        /\ e.row \in DOMAIN rows
        /\ Rank(e.to) <= Rank(rows[e.row].status)
        /\ e.to \in TransferTerminal => rows[e.row].status = e.to

\* A step that keeps statuses and the outbox keeps the outbox behind the rows.
LEMMA RowsKeptOutbox ==
  ASSUME OutboxInv, RowsKept, outbox' = outbox PROVE OutboxInv'
  BY DEF OutboxInv, RowsKept

\* Applying a plan and appending its event keeps the outbox behind the rows.
LEMMA MovedOutbox ==
  ASSUME Inv, OutboxInv, EventsInOrder, NEW i \in DOMAIN rows, Moved(i), Inv'
  PROVE  OutboxInv' /\ EventsInOrder'
  <1> DEFINE from == rows[i].status
             to == rows'[i].status
  <1>1. /\ from \in TransferStatus /\ to \in TransferStatus
        /\ outbox \in Seq(Event)
        /\ \A k \in DOMAIN outbox : outbox[k] \in Event
        /\ DOMAIN outbox \subseteq Nat
    <2>1. rows[i] \in Row /\ rows'[i] \in Row
      BY DEF Inv, TypeInv, TypeOK, Moved
    <2> QED
      BY <2>1 DEF Inv, TypeInv, TypeOK, Row
  <1>2. /\ from \notin TransferTerminal
        /\ Rank(from) \in Nat /\ Rank(to) \in Nat /\ Rank(from) < Rank(to)
    BY <1>1, RankFacts DEF Moved, Advances
  <1>3. \A k \in DOMAIN outbox : outbox[k].to \in TransferStatus /\ Rank(outbox[k].to) \in Nat
    BY <1>1, RankFacts DEF Event
  \* The events already written stay behind their rows.
  <1>4. \A k \in DOMAIN outbox :
          LET e == outbox[k] IN
          /\ e.row \in DOMAIN rows'
          /\ Rank(e.to) <= Rank(rows'[e.row].status)
          /\ e.to \in TransferTerminal => rows'[e.row].status = e.to
    <2> SUFFICES ASSUME NEW k \in DOMAIN outbox
                 PROVE  /\ outbox[k].row \in DOMAIN rows'
                        /\ Rank(outbox[k].to) <= Rank(rows'[outbox[k].row].status)
                        /\ outbox[k].to \in TransferTerminal =>
                              rows'[outbox[k].row].status = outbox[k].to
      OBVIOUS
    <2>1. CASE outbox[k].row = i
      BY <1>2, <1>3, <2>1 DEF OutboxInv, Moved
    <2>2. CASE outbox[k].row # i
      BY <2>2 DEF OutboxInv, Moved
    <2> QED BY <2>1, <2>2
  <1>5. CASE outbox' = outbox
    BY <1>4, <1>5 DEF OutboxInv, EventsInOrder
  <1>6. ASSUME NEW g \in Event, outbox' = Append(outbox, g),
               g.row = i, g.from = from, g.to = to
        PROVE  OutboxInv' /\ EventsInOrder'
    <2>1. /\ DOMAIN outbox \subseteq DOMAIN outbox'
          /\ \A k \in DOMAIN outbox : outbox'[k] = outbox[k]
          /\ \A k \in DOMAIN outbox' \ DOMAIN outbox :
                outbox'[k] = g /\ \A l \in DOMAIN outbox : l < k
      BY <1>1, <1>6, AppendKeeps
    <2>2. OutboxInv'
      BY <1>2, <1>4, <1>6, <2>1 DEF OutboxInv, Moved
    <2>3. EventsInOrder'
      <3> SUFFICES ASSUME NEW k \in DOMAIN outbox', NEW l \in DOMAIN outbox', k < l,
                          outbox'[k].row = outbox'[l].row
                   PROVE  /\ Rank(outbox'[k].to) <= Rank(outbox'[l].from)
                          /\ Rank(outbox'[k].to) < Rank(outbox'[l].to)
                          /\ outbox'[k].to \notin TransferTerminal
        BY DEF EventsInOrder
      <3>0. outbox' \in Seq(Event) /\ k \in Nat /\ l \in Nat
        BY DEF Inv, TypeInv, TypeOK
      <3>1. CASE k \in DOMAIN outbox /\ l \in DOMAIN outbox
        BY <2>1, <3>1 DEF EventsInOrder
      <3>2. CASE k \in DOMAIN outbox /\ l \notin DOMAIN outbox
        <4>1. outbox'[k] = outbox[k] /\ outbox'[l] = g /\ outbox[k].row = i
          BY <1>6, <2>1, <3>2
        <4>2. /\ Rank(outbox[k].to) <= Rank(from)
              /\ outbox[k].to \in TransferTerminal => from = outbox[k].to
          BY <3>2, <4>1 DEF OutboxInv
        <4> QED BY <1>2, <1>3, <1>6, <3>2, <4>1, <4>2
      <3>3. CASE k \notin DOMAIN outbox
        <4>1. CASE l \in DOMAIN outbox
          BY <2>1, <3>0, <3>3, <4>1
        <4>2. CASE l \notin DOMAIN outbox
          <5>1. DOMAIN outbox' = 1..(Len(outbox) + 1) /\ DOMAIN outbox = 1..Len(outbox)
                /\ Len(outbox) \in Nat
            BY <1>1, <1>6, AppendProperties, LenProperties
          <5> QED BY <3>3, <4>2, <5>1
        <4> QED BY <4>1, <4>2
      <3> QED BY <3>1, <3>2, <3>3
    <2> QED BY <2>2, <2>3
  <1> QED
    BY <1>5, <1>6 DEF Moved

\* The events of a row never overlap, repeat or follow a terminal one, for any
\* number of transfers, tasks and failures.
THEOREM OneStoryPerRow == Spec => []EventsInOrder
  <1> DEFINE J == OutboxInv /\ EventsInOrder
  <1>1. Init => J
    BY DEF Init, OutboxInv, EventsInOrder
  <1>2. Inv /\ Inv' /\ J /\ [Next]_vars => J'
    <2> SUFFICES ASSUME Inv, Inv', J, [Next]_vars PROVE J'
      OBVIOUS
    <2>1. CASE RowsKept /\ outbox' = outbox
      BY <2>1, RowsKeptOutbox DEF EventsInOrder
    <2>2. ASSUME NEW i \in DOMAIN rows, Moved(i) PROVE J'
      BY <2>2, MovedOutbox
    <2> QED BY <2>1, <2>2, RowStep
  <1>3. Spec => []J
    BY <1>1, <1>2, Invariant, PTL DEF Spec
  <1> QED BY <1>3, PTL

-----------------------------------------------------------------------------
(* A transition and its event are one write *)

\* What the log makes of an event.
Entry(g) == [key |-> g.row, from |-> g.from, to |-> g.to]

LogEntry == [key : Nat \ {0}, from : TransferStatus, to : TransferStatus]

\* The log has one entry per event, and an event more is an entry more.
LEMMA EntriesAppend ==
  ASSUME outbox \in Seq(Event), NEW g \in Event, outbox' = Append(outbox, g)
  PROVE  Events' = Append(Events, Entry(g))
  <1> DEFINE n == Len(outbox)
  <1>1. /\ n \in Nat /\ DOMAIN outbox = 1..n /\ DOMAIN outbox' = 1..(n + 1)
        /\ \A k \in 1..n : outbox'[k] = outbox[k] /\ outbox[k] \in Event
        /\ outbox'[n + 1] = g
    BY AppendProperties, LenProperties, ElementOfSeq
  <1> HIDE DEF n
  <1>2. Events = [k \in 1..n |-> Entry(outbox[k])]
    BY <1>1 DEF Events, Entry
  <1>3. \A h \in Event : Entry(h) \in LogEntry
    BY DEF Entry, Event, LogEntry
  <1>4. Events \in [1..n -> LogEntry]
    BY <1>1, <1>2, <1>3
  <1>5. Events \in Seq(LogEntry) /\ Len(Events) = n
    BY <1>1, <1>4, SeqDef, LenProperties
  <1> DEFINE longer == Append(Events, Entry(g))
  <1>6. /\ longer \in [1..(n + 1) -> LogEntry] /\ longer[n + 1] = Entry(g)
        /\ \A k \in 1..n : longer[k] = Events[k]
    <2>1. Entry(g) \in LogEntry
      BY <1>3
    <2>2. /\ longer \in Seq(LogEntry) /\ Len(longer) = n + 1 /\ longer[n + 1] = Entry(g)
          /\ \A k \in 1..n : longer[k] = Events[k]
      BY <1>5, <2>1, AppendProperties
    <2> HIDE DEF longer
    <2>3. longer \in [1..(n + 1) -> LogEntry]
      BY <2>2, LenProperties
    <2> QED BY <2>2, <2>3
  <1> HIDE DEF longer
  <1>7. Events' = [k \in 1..(n + 1) |-> Entry(outbox'[k])]
    BY <1>1 DEF Events, Entry
  <1>8. \A k \in 1..(n + 1) : longer[k] = Entry(outbox'[k])
    BY <1>1, <1>2, <1>6
  <1>9. longer = Events'
    BY <1>6, <1>7, <1>8
  <1> QED BY <1>9 DEF longer

\* A step that keeps the rows enters one at most.
LEMMA KeptEnters ==
  ASSUME TypeInv, RowsKept, outbox' = outbox
  PROVE  \/ UNCHANGED <<StatusOf, Events>>
         \/ \E k \in DOMAIN StatusOf', s \in TransferStatus : Log!Enter(k, s)
  <1>0. rows \in Seq(Row) /\ DOMAIN StatusOf = DOMAIN rows /\ Events' = Events
    BY DEF TypeInv, TypeOK, StatusOf, Events
  <1>1. CASE DOMAIN rows' = DOMAIN rows
    BY <1>0, <1>1 DEF RowsKept, StatusOf
  <1>2. ASSUME NEW e \in Row, rows' = Append(rows, e)
        PROVE  \E k \in DOMAIN StatusOf', s \in TransferStatus : Log!Enter(k, s)
    <2> DEFINE k == Len(rows) + 1
    <2>1. /\ DOMAIN rows' = DOMAIN rows \cup {k} /\ k \notin DOMAIN rows
          /\ rows'[k] = e /\ \A i \in DOMAIN rows : rows'[i] = rows[i]
      BY <1>0, <1>2, AppendProperties, LenProperties
    <2> HIDE DEF k
    <2>2. StatusOf' = [i \in DOMAIN rows \cup {k} |-> IF i = k THEN e.status ELSE StatusOf[i]]
      BY <2>1 DEF StatusOf
    <2>3. e.status \in TransferStatus /\ k \in DOMAIN StatusOf'
      BY <2>2 DEF Row
    <2>4. Log!Enter(k, e.status)
      BY <1>0, <2>1, <2>2 DEF Log!Enter
    <2> QED BY <2>3, <2>4
  <1> QED BY <1>1, <1>2 DEF RowsKept

\* A step that moves a row writes the event the move carries.
LEMMA MovedLogs ==
  ASSUME Inv, Inv', NEW i \in DOMAIN rows, Moved(i)
  PROVE  \E k \in DOMAIN StatusOf', s \in TransferStatus : Log!Move(k, s)
  <1> DEFINE from == rows[i].status
             to == rows'[i].status
  <1>1. from \in TransferStatus /\ to \in TransferStatus /\ outbox \in Seq(Event)
    <2>1. rows[i] \in Row /\ rows'[i] \in Row
      BY DEF Inv, TypeInv, TypeOK, Moved
    <2> QED BY <2>1 DEF Inv, TypeInv, TypeOK, Row
  <1>2. /\ DOMAIN StatusOf = DOMAIN rows /\ i \in DOMAIN StatusOf' /\ StatusOf[i] = from
        /\ StatusOf' = [StatusOf EXCEPT ![i] = to]
    BY DEF Moved, StatusOf
  <1>3. <<from, to>> \in TransferMoves
    BY <1>1 DEF Moved, TransferMoves
  <1>4. to \in TransferAnnounced <=> TransferEvent(to) # NoEvent
    BY <1>1 DEF TransferAnnounced
  <1>5. CASE TransferEvent(to) = NoEvent
    <2>1. Events' = Events
      BY <1>5 DEF Moved, Events
    <2> QED BY <1>1, <1>2, <1>3, <1>4, <1>5, <2>1 DEF Log!Move
  <1>6. CASE TransferEvent(to) # NoEvent
    <2>1. PICK g \in Event : /\ outbox' = Append(outbox, g)
                             /\ g.row = i /\ g.from = from /\ g.to = to
      BY <1>6 DEF Moved
    <2>2. Events' = Append(Events, Entry(g))
      BY <1>1, <2>1, EntriesAppend
    <2>3. Entry(g) = Log!Event(i, to)
      BY <1>2, <2>1 DEF Entry, Log!Event
    <2> QED BY <1>1, <1>2, <1>3, <1>4, <1>6, <2>2, <2>3 DEF Log!Move
  <1> QED BY <1>5, <1>6

\* The transfer mirror implements AnnouncedMoves: for any number of transfers,
\* tasks and failures, a row moves with its event or not at all (apply_transition).
THEOREM Refinement == Spec => LogsMoves
  <1>1. Init => Log!Init
    BY DEF Init, StatusOf, Events, Log!Init
  <1>2. Inv /\ Inv' /\ [Next]_vars => [Log!Next]_(Log!vars)
    <2> SUFFICES ASSUME Inv, Inv', [Next]_vars PROVE [Log!Next]_(Log!vars)
      OBVIOUS
    <2>1. CASE RowsKept /\ outbox' = outbox
      BY <2>1, KeptEnters DEF Inv, Log!Next, Log!vars
    <2>2. ASSUME NEW i \in DOMAIN rows, Moved(i) PROVE Log!Next
      BY <2>2, MovedLogs DEF Log!Next
    <2> QED BY <2>1, <2>2, RowStep
  <1> QED BY <1>1, <1>2, Invariant, PTL DEF Spec, LogsMoves, Log!Spec

\* What follows from AnnouncedMoves for its log, here the outbox.
LogFacts == INSTANCE AnnouncedMoves_proofs
                WITH Statuses <- TransferStatus, Moves <- TransferMoves,
                     Announced <- TransferAnnounced, status <- StatusOf, log <- Events

\* A subscriber is told of every announced status a transfer's row enters by a
\* transition, and from where (previous_status in sync.rs's payload).
THEOREM SubscriberTold == Spec => []Log!Told
  <1>1. LogFacts!Spec => []LogFacts!Told
    BY LogFacts!EveryMoveTold
  <1>2. Log!Init => LogFacts!Init
    BY DEF Log!Init, LogFacts!Init
  <1>3. [Log!Next]_(Log!vars) => [LogFacts!Next]_(LogFacts!vars)
    BY DEF Log!Next, Log!vars, Log!Enter, Log!Move, Log!Event, LogFacts!Next, LogFacts!vars,
           LogFacts!Enter, LogFacts!Move, LogFacts!Event
  <1>4. LogFacts!Told => Log!Told
    BY DEF Log!Told, Log!Follows, Log!Latest, Log!EventsOf, LogFacts!Told, LogFacts!Follows,
           LogFacts!Latest, LogFacts!EventsOf
  <1> QED BY <1>1, <1>2, <1>3, <1>4, Refinement, PTL
          DEF LogsMoves, Log!Spec, LogFacts!Spec
=============================================================================
