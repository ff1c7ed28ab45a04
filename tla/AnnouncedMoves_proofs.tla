------------------------ MODULE AnnouncedMoves_proofs -----------------------
(***************************************************************************)
(* What follows from AnnouncedMoves, for any statuses and transitions: a   *)
(* subscriber that reads the events of a row misses no announced status.   *)
(***************************************************************************)
EXTENDS AnnouncedMoves, SequenceTheorems, TLAPS

\* The shape of what is written.
Shaped ==
    /\ \A k \in DOMAIN status : status[k] \in Statuses
    /\ log \in Seq([key : DOMAIN status, from : Statuses, to : Statuses])

TellInv == Shaped /\ Told

LEMMA TellInit == Init => TellInv
  <1> SUFFICES ASSUME Init PROVE TellInv
    OBVIOUS
  <1>1. DOMAIN status = {} /\ DOMAIN log = {} /\ log = <<>>
    BY DEF Init
  <1>2. Shaped
    BY <1>1 DEF Shaped
  <1> QED BY <1>1, <1>2 DEF TellInv, Told, EventsOf

LEMMA EnterTells ==
  ASSUME TellInv, NEW k, NEW s \in Statuses, Enter(k, s)
  PROVE  TellInv'
  <1>1. /\ DOMAIN status' = DOMAIN status \cup {k} /\ k \notin DOMAIN status
        /\ status'[k] = s /\ log' = log
        /\ \A j \in DOMAIN status : status'[j] = status[j]
    BY DEF Enter
  <1>2. /\ \A i \in DOMAIN log : log[i].key \in DOMAIN status
        /\ DOMAIN log = 1..Len(log) /\ Len(log) \in Nat
    BY LenProperties DEF TellInv, Shaped, Told
  <1>3. \A j : EventsOf(j)' = EventsOf(j)
    BY <1>1 DEF EventsOf
  <1>4. EventsOf(k) = {}
    BY <1>1, <1>2 DEF EventsOf
  <1>5. Shaped'
    <2> DEFINE E == [key : DOMAIN status, from : Statuses, to : Statuses]
               F == [key : DOMAIN status', from : Statuses, to : Statuses]
    <2>1. E \subseteq F
      BY <1>1
    <2>2. log \in Seq(E)
      BY DEF TellInv, Shaped
    <2> HIDE DEF E, F
    <2>3. log \in [1..Len(log) -> F]
      BY <1>2, <2>1, <2>2, LenProperties, ElementOfSeq
    <2>4. log \in Seq(F)
      BY <1>2, <2>3, SeqDef
    <2>5. log' \in Seq(F)
      BY <1>1, <2>4
    <2>6. \A j \in DOMAIN status' : status'[j] \in Statuses
      BY <1>1 DEF TellInv, Shaped
    <2> QED BY <2>5, <2>6 DEF Shaped, F
  <1>6. Told'
    <2>1. \A i, j \in DOMAIN log : Follows(i, j)' => Follows(i, j)
      BY <1>1, <1>3 DEF Follows
    <2>2. \A j \in DOMAIN status' : \A i \in EventsOf(j)' :
            Latest(j, i)' => j \in DOMAIN status /\ Latest(j, i)
      BY <1>1, <1>3, <1>4 DEF Latest
    <2> QED BY <1>1, <1>3, <2>1, <2>2 DEF TellInv, Told
  <1> QED BY <1>5, <1>6 DEF TellInv

LEMMA MoveTells ==
  ASSUME TellInv, NEW k, NEW s \in Statuses, Move(k, s)
  PROVE  TellInv'
  <1> DEFINE E == [key : DOMAIN status, from : Statuses, to : Statuses]
             e == Event(k, s)
             n == Len(log) + 1
  <1>1. /\ k \in DOMAIN status /\ <<status[k], s>> \in Moves
        /\ DOMAIN status' = DOMAIN status /\ status'[k] = s
        /\ \A j \in DOMAIN status \ {k} : status'[j] = status[j]
    BY DEF Move
  <1>2. /\ log \in Seq(E) /\ Len(log) \in Nat /\ DOMAIN log = 1..Len(log)
        /\ \A j \in DOMAIN status : status[j] \in Statuses
    BY LenProperties DEF TellInv, Shaped
  <1>3. CASE s \notin Announced
    <2>1. log' = log
      BY <1>3 DEF Move
    <2>2. \A j : EventsOf(j)' = EventsOf(j)
      BY <2>1 DEF EventsOf
    <2>3. Shaped'
      BY <1>1, <1>2, <2>1 DEF Shaped
    <2>4. \A i, j \in DOMAIN log : Follows(i, j)' => Follows(i, j)
      BY <2>1, <2>2 DEF Follows
    <2>5. \A j, i : Latest(j, i)' => Latest(j, i)
      BY <2>2 DEF Latest
    <2>6. \A j \in DOMAIN status' : \A i \in EventsOf(j)' :
            Latest(j, i)' => status'[j] \in {log'[i].to} \cup (Statuses \ Announced)
      BY <1>1, <1>3, <2>1, <2>2, <2>5 DEF TellInv, Told
    <2> QED BY <1>1, <2>1, <2>3, <2>4, <2>6 DEF TellInv, Told
  <1>4. CASE s \in Announced
    <2>1. e \in E /\ log' = Append(log, e)
      BY <1>1, <1>2, <1>4 DEF Move, Event
    <2>2. e.key = k /\ e.from = status[k] /\ e.to = s
      BY DEF Event
    <2> HIDE DEF e
    <2>3. /\ log' \in Seq(E) /\ DOMAIN log' = DOMAIN log \cup {n} /\ n \notin DOMAIN log
          /\ log'[n] = e /\ \A i \in DOMAIN log : log'[i] = log[i] /\ i < n /\ i \in Nat
          /\ n \in Nat
      BY <1>2, <2>1, AppendProperties
    <2> HIDE DEF n, E
    <2>4. \A j : EventsOf(j)' = IF j = k THEN EventsOf(j) \cup {n} ELSE EventsOf(j)
      BY <2>2, <2>3 DEF EventsOf
    <2>5. \A j : EventsOf(j) \subseteq DOMAIN log
      BY DEF EventsOf
    <2>6. Shaped'
      BY <1>1, <1>2, <2>3 DEF Shaped, E
    <2>7. \A i \in DOMAIN log' :
            /\ log'[i].key \in DOMAIN status'
            /\ <<log'[i].from, log'[i].to>> \in Moves
            /\ log'[i].to \in Announced
      BY <1>1, <1>4, <2>2, <2>3 DEF TellInv, Told
    <2>8. ASSUME NEW i \in DOMAIN log', NEW j \in DOMAIN log', Follows(i, j)'
          PROVE  log'[j].from \in {log'[i].to} \cup (Statuses \ Announced)
      <3>0. i < j /\ log'[i].key = log'[j].key
            /\ \A l \in DOMAIN log' : log'[l].key = log'[i].key => l <= i \/ j <= l
        BY <2>8 DEF Follows, EventsOf
      <3>1. i \in DOMAIN log
        <4>1. CASE i = n
          <5>1. j = n \/ (j \in Nat /\ j < n)
            BY <2>3
          <5> QED BY <2>3, <3>0, <4>1, <5>1
        <4> QED BY <2>3, <4>1
      <3>2. CASE j \in DOMAIN log
        <4>1. Follows(i, j)
          BY <2>3, <3>0, <3>1, <3>2 DEF Follows, EventsOf
        <4> QED BY <2>3, <3>1, <3>2, <4>1 DEF TellInv, Told
      <3>3. CASE j = n
        <4>1. log[i].key = k
          BY <2>2, <2>3, <3>0, <3>1, <3>3
        <4>2. ASSUME NEW l \in EventsOf(k) PROVE l <= i
          <5>1. l \in DOMAIN log /\ log[l].key = k /\ l < n /\ l \in Nat
            BY <2>3 DEF EventsOf
          <5>2. l <= i \/ n <= l
            BY <2>3, <3>0, <3>1, <3>3, <4>1, <5>1
          <5> QED BY <2>3, <5>1, <5>2
        <4>3. Latest(k, i)
          BY <3>1, <4>1, <4>2 DEF Latest, EventsOf
        <4>4. status[k] \in {log[i].to} \cup (Statuses \ Announced)
          BY <1>1, <4>3 DEF TellInv, Told, Latest
        <4> QED BY <2>2, <2>3, <3>1, <3>3, <4>4
      <3> QED BY <2>3, <3>2, <3>3
    <2>9. ASSUME NEW i, NEW j, j \in DOMAIN status', Latest(j, i)'
          PROVE  status'[j] \in {log'[i].to} \cup (Statuses \ Announced)
      <3>0. i \in EventsOf(j)' /\ \A l \in EventsOf(j)' : l <= i
        BY <2>9 DEF Latest
      <3>1. CASE j = k
        <4>1. i \in DOMAIN log \cup {n} /\ n <= i
          BY <2>4, <2>5, <3>0, <3>1
        <4>2. i = n
          BY <2>3, <4>1
        <4> QED BY <1>1, <2>2, <2>3, <3>1, <4>2
      <3>2. CASE j # k
        <4>1. Latest(j, i) /\ i \in DOMAIN log
          BY <2>4, <2>5, <3>0, <3>2 DEF Latest
        <4> QED BY <1>1, <2>3, <2>9, <3>2, <4>1 DEF TellInv, Told, Latest
      <3> QED BY <3>1, <3>2
    <2> QED BY <2>6, <2>7, <2>8, <2>9 DEF TellInv, Told
  <1> QED BY <1>3, <1>4

\* A subscriber is told of every announced status a row enters by a transition,
\* in order: whatever the statuses and the transitions between them are.
THEOREM EveryMoveTold == Spec => []Told
  <1>1. TellInv /\ [Next]_vars => TellInv'
    <2> SUFFICES ASSUME TellInv, [Next]_vars PROVE TellInv'
      OBVIOUS
    <2>1. CASE Next
      BY <2>1, EnterTells, MoveTells DEF Next
    <2>2. CASE UNCHANGED vars
      BY <2>2 DEF vars, TellInv, Shaped, Told, EventsOf, Latest, Follows
    <2> QED BY <2>1, <2>2
  <1>2. TellInv => Told
    BY DEF TellInv
  <1> QED BY <1>1, <1>2, TellInit, PTL DEF Spec
=============================================================================
