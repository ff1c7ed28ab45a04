----------------------- MODULE WebhookDispatch_proofs -----------------------
(***************************************************************************)
(* Proofs about WebhookDispatch, for every configuration, any number of    *)
(* events and any number of crashes.                                       *)
(***************************************************************************)
EXTENDS WebhookDispatch, SequenceTheorems, FiniteSetTheorems, TLAPS

-----------------------------------------------------------------------------
(* Type correctness *)

\* An event appended to the outbox leaves the others in place.
LEMMA NewEvent ==
  ASSUME TypeOK, CreateEvent
  PROVE  /\ outbox' \in Seq(Entry)
         /\ Len(outbox') = Len(outbox) + 1
         /\ DOMAIN outbox = 1..Len(outbox)
         /\ DOMAIN outbox' = 1..(Len(outbox) + 1)
         /\ \A i \in DOMAIN outbox : outbox'[i] = outbox[i]
         /\ outbox'[Len(outbox) + 1] = [attempts |-> 0, wait |-> 0, delivered |-> FALSE]
  <1> DEFINE e == [attempts |-> 0, wait |-> 0, delivered |-> FALSE]
  <1>1. e \in Entry
    BY ConfigAssumption DEF Entry
  <1>2. outbox' = Append(outbox, e) /\ outbox \in Seq(Entry)
    BY DEF CreateEvent, TypeOK
  <1> HIDE DEF e
  <1>3. /\ outbox' \in Seq(Entry)
        /\ Len(outbox') = Len(outbox) + 1
        /\ \A i \in 1..Len(outbox) : outbox'[i] = outbox[i]
        /\ outbox'[Len(outbox) + 1] = e
    BY <1>1, <1>2, AppendProperties
  <1>4. DOMAIN outbox = 1..Len(outbox) /\ DOMAIN outbox' = 1..Len(outbox')
    BY <1>2, <1>3, LenProperties
  <1> QED BY <1>3, <1>4 DEF e

\* The receiver's log grows at its end.
LEMMA NewAcceptance ==
  ASSUME TypeOK, NEW e \in DOMAIN outbox, accepted' = Append(accepted, e)
  PROVE  /\ accepted' \in Seq(DOMAIN outbox)
         /\ Len(accepted) \in Nat
         /\ DOMAIN accepted = 1..Len(accepted)
         /\ DOMAIN accepted' = 1..(Len(accepted) + 1)
         /\ \A k \in DOMAIN accepted : accepted'[k] = accepted[k]
         /\ accepted'[Len(accepted) + 1] = e
  <1>1. accepted \in Seq(DOMAIN outbox)
    BY DEF TypeOK
  <1>2. /\ accepted' \in Seq(DOMAIN outbox)
        /\ Len(accepted') = Len(accepted) + 1
        /\ \A k \in 1..Len(accepted) : accepted'[k] = accepted[k]
        /\ accepted'[Len(accepted) + 1] = e
    BY <1>1, AppendProperties
  <1>3. /\ Len(accepted) \in Nat
        /\ DOMAIN accepted = 1..Len(accepted)
        /\ DOMAIN accepted' = 1..Len(accepted')
    BY <1>1, <1>2, LenProperties
  <1> QED BY <1>1, <1>2, <1>3

\* A post that is given up on counts as late from then on.
LEMMA GivenUp ==
  ASSUME TypeOK, posting # NULL, late' = [late EXCEPT ![posting] = @ + 1]
  PROVE  /\ posting \in DOMAIN outbox
         /\ late' \in [1..MaxEvents -> Nat]
         /\ DOMAIN late' = DOMAIN late
         /\ late'[posting] = late[posting] + 1
         /\ \A i \in DOMAIN late \ {posting} : late'[i] = late[i]
         /\ Slow' = Slow \cup {posting}
  <1>1. posting \in DOMAIN outbox /\ posting \in DOMAIN late
        /\ late \in [1..MaxEvents -> Nat]
    BY DEF TypeOK
  <1> QED BY <1>1 DEF Slow

\* A late post lands once.
LEMMA Landed ==
  ASSUME TypeOK, NEW e \in DOMAIN late, late[e] > 0, late' = [late EXCEPT ![e] = @ - 1]
  PROVE  /\ e \in DOMAIN outbox /\ e \in Slow
         /\ late' \in [1..MaxEvents -> Nat]
         /\ DOMAIN late' = DOMAIN late
         /\ late'[e] = late[e] - 1
         /\ \A i \in DOMAIN late \ {e} : late'[i] = late[i]
         /\ Slow' \in {Slow, Slow \ {e}}
  <1>1. late \in [1..MaxEvents -> Nat] /\ e \in Slow /\ Slow \subseteq DOMAIN outbox
    BY DEF TypeOK, Slow
  <1>2. late' \in [1..MaxEvents -> Nat]
    BY <1>1
  <1>3. Slow' = IF late[e] = 1 THEN Slow \ {e} ELSE Slow
    BY <1>1, <1>2 DEF Slow
  <1> QED BY <1>1, <1>2, <1>3

\* A second passing changes nothing but the waits.
LEMMA WaitsElapse ==
  ASSUME TypeOK, Elapse
  PROVE  /\ outbox' \in Seq(Entry)
         /\ DOMAIN outbox' = DOMAIN outbox
         /\ \A i \in DOMAIN outbox :
              /\ outbox'[i].attempts = outbox[i].attempts
              /\ outbox'[i].delivered = outbox[i].delivered
  <1>1. Len(outbox) \in Nat /\ DOMAIN outbox = 1..Len(outbox)
    BY LenProperties DEF TypeOK
  <1>2. \A i \in DOMAIN outbox : outbox[i] \in Entry
    BY <1>1, ElementOfSeq DEF TypeOK
  <1>3. \A i \in DOMAIN outbox :
           [outbox[i] EXCEPT !.wait = IF @ > 0 THEN @ - 1 ELSE 0] \in Entry
    BY <1>2, ConfigAssumption DEF Entry
  <1>4. outbox' = [i \in DOMAIN outbox |->
                     [outbox[i] EXCEPT !.wait = IF @ > 0 THEN @ - 1 ELSE 0]]
    BY DEF Elapse
  <1>5. outbox' \in [1..Len(outbox) -> Entry]
    BY <1>1, <1>3, <1>4
  <1>6. outbox' \in Seq(Entry)
    BY <1>1, <1>5, SeqDef
  <1>7. \A i \in DOMAIN outbox :
              /\ outbox'[i].attempts = outbox[i].attempts
              /\ outbox'[i].delivered = outbox[i].delivered
    BY <1>2, <1>4 DEF Entry
  <1> QED BY <1>4, <1>6, <1>7

\* Marking an event delivered leaves its attempts and all other events alone.
LEMMA Marked ==
  ASSUME TypeOK, MarkDelivered
  PROVE  /\ posting \in DOMAIN outbox
         /\ outbox' \in Seq(Entry)
         /\ DOMAIN outbox' = DOMAIN outbox
         /\ \A i \in DOMAIN outbox \ {posting} : outbox'[i] = outbox[i]
         /\ outbox'[posting].attempts = outbox[posting].attempts
         /\ outbox'[posting].delivered = TRUE
  <1>1. posting \in DOMAIN outbox /\ outbox \in Seq(Entry)
    BY DEF TypeOK, MarkDelivered
  <1>2. Len(outbox) \in Nat /\ DOMAIN outbox = 1..Len(outbox)
    BY <1>1, LenProperties
  <1>3. outbox[posting] \in Entry
    BY <1>1, <1>2, ElementOfSeq
  <1>4. outbox' = [outbox EXCEPT ![posting].delivered = TRUE]
    BY DEF MarkDelivered
  <1>5. [outbox[posting] EXCEPT !.delivered = TRUE] \in Entry
    BY <1>3 DEF Entry
  <1>6. outbox' = [outbox EXCEPT ![posting] = [outbox[posting] EXCEPT !.delivered = TRUE]]
    BY <1>4
  <1>7. outbox' \in Seq(Entry)
    BY <1>1, <1>2, <1>5, <1>6, ExceptSeq
  <1> QED BY <1>1, <1>3, <1>6, <1>7 DEF Entry

\* Recording a failure counts one attempt of the event in flight.
LEMMA Recorded ==
  ASSUME TypeOK, RecordAttempt
  PROVE  /\ posting \in DOMAIN outbox
         /\ outbox' \in Seq(Entry)
         /\ DOMAIN outbox' = DOMAIN outbox
         /\ \A i \in DOMAIN outbox \ {posting} : outbox'[i] = outbox[i]
         /\ outbox'[posting].attempts = outbox[posting].attempts + 1
         /\ outbox'[posting].delivered = outbox[posting].delivered
  <1>1. posting \in DOMAIN outbox /\ outbox \in Seq(Entry)
    BY DEF TypeOK, RecordAttempt
  <1>2. Len(outbox) \in Nat /\ DOMAIN outbox = 1..Len(outbox)
    BY <1>1, LenProperties
  <1>3. outbox[posting] \in Entry
    BY <1>1, <1>2, ElementOfSeq
  <1> DEFINE n == outbox[posting].attempts + 1
  <1>4. PICK delay \in 0..Cap :
          outbox' = [outbox EXCEPT
                       ![posting].attempts = n,
                       ![posting].wait = IF delay > age THEN delay - age ELSE 0]
    BY DEF RecordAttempt
  <1> DEFINE w == IF delay > age THEN delay - age ELSE 0
  <1>5. w \in 0..Cap
    BY <1>4, ConfigAssumption DEF TypeOK
  <1>6. n \in Nat
    BY <1>3 DEF Entry
  <1>7. [outbox[posting] EXCEPT !.attempts = n, !.wait = w] \in Entry
    BY <1>3, <1>5, <1>6 DEF Entry
  <1>8. outbox' = [outbox EXCEPT ![posting] =
                     [outbox[posting] EXCEPT !.attempts = n, !.wait = w]]
    BY <1>4
  <1> HIDE DEF w
  <1>9. outbox' \in Seq(Entry)
    BY <1>1, <1>2, <1>7, <1>8, ExceptSeq
  <1> QED BY <1>1, <1>3, <1>8, <1>9 DEF Entry

\* Every step keeps the types.
LEMMA TypeNext == TypeOK /\ [Next]_vars => TypeOK'
  <1> SUFFICES ASSUME TypeOK, [Next]_vars PROVE TypeOK'
    OBVIOUS
  <1> USE ConfigAssumption
  <1>0. Len(outbox) \in Nat /\ DOMAIN outbox = 1..Len(outbox)
    BY LenProperties DEF TypeOK
  <1>1. CASE CreateEvent
    <2>1. DOMAIN outbox \subseteq DOMAIN outbox'
      BY <1>0, <1>1, NewEvent
    <2>2. accepted' \in Seq(DOMAIN outbox')
      BY <1>1, <2>1, SeqMonotonic DEF TypeOK, CreateEvent
    <2>3. outbox' \in Seq(Entry)
      BY <1>1, NewEvent
    <2>4. DOMAIN outbox' \subseteq DOMAIN late
      BY <1>0, <1>1, NewEvent DEF TypeOK, CreateEvent
    <2> QED BY <1>1, <2>1, <2>2, <2>3, <2>4 DEF TypeOK, CreateEvent, Slow
  <1>2. CASE Elapse
    <2>1. age' \in 0..Cap
      BY <1>2 DEF TypeOK, Elapse
    <2> QED BY <1>2, <2>1, WaitsElapse DEF TypeOK, Elapse, Slow
  <1>3. CASE StartPass
    <2>1. DuePrefix \subseteq DOMAIN outbox
      BY DEF DuePrefix, Page, Undelivered
    <2> QED BY <1>3, <2>1 DEF TypeOK, StartPass, Slow
  <1>4. ASSUME NEW i \in batch, Post(i) PROVE TypeOK'
    BY <1>4 DEF TypeOK, Post, Slow
  <1>5. CASE Answered
    <2>1. posting \in DOMAIN outbox /\ accepted' = Append(accepted, posting)
      BY <1>5 DEF TypeOK, Answered
    <2>2. accepted' \in Seq(DOMAIN outbox)
      BY <2>1, NewAcceptance
    <2> QED BY <1>5, <2>2 DEF TypeOK, Answered, Slow
  <1>6. CASE Refused
    BY <1>6 DEF TypeOK, Refused, Slow
  <1>7. CASE MarkDelivered
    <2>1. accepted' \in Seq(DOMAIN outbox')
      BY <1>7, Marked DEF TypeOK, MarkDelivered
    <2> QED BY <1>7, <2>1, Marked DEF TypeOK, MarkDelivered, Slow
  <1>8. CASE RecordAttempt
    <2>1. accepted' \in Seq(DOMAIN outbox')
      BY <1>8, Recorded DEF TypeOK, RecordAttempt
    <2> QED BY <1>8, <2>1, Recorded DEF TypeOK, RecordAttempt, Slow
  <1>9. CASE Stop
    <2>1. /\ late' \in [1..MaxEvents -> Nat]
          /\ DOMAIN late' = DOMAIN late
          /\ Slow' \subseteq DOMAIN outbox
      <3>1. CASE UNCHANGED late
        BY <3>1 DEF TypeOK, Slow
      <3>2. CASE posting # NULL /\ late' = [late EXCEPT ![posting] = @ + 1]
        BY <3>2, GivenUp DEF TypeOK
      <3> QED BY <1>9, <3>1, <3>2 DEF Stop
    <2> QED BY <1>9, <2>1 DEF TypeOK, Stop
  <1>10. CASE TimedOut
    <2>1. posting # NULL /\ late' = [late EXCEPT ![posting] = @ + 1]
      BY <1>10 DEF TimedOut
    <2> QED BY <1>10, <2>1, GivenUp DEF TypeOK, TimedOut
  <1>11. CASE AcceptedLate
    <2>1. PICK e \in DOMAIN late :
            /\ late[e] > 0 /\ late' = [late EXCEPT ![e] = @ - 1]
            /\ accepted' = Append(accepted, e)
            /\ UNCHANGED <<outbox, batch, posting, outcome, age, stops>>
      BY <1>11 DEF AcceptedLate
    <2>2. /\ e \in DOMAIN outbox /\ late' \in [1..MaxEvents -> Nat]
          /\ DOMAIN late' = DOMAIN late /\ Slow' \in {Slow, Slow \ {e}}
      BY <2>1, Landed
    <2>3. accepted' \in Seq(DOMAIN outbox)
      BY <2>1, <2>2, NewAcceptance
    <2> QED BY <2>1, <2>2, <2>3 DEF TypeOK
  <1>12. CASE UNCHANGED vars
    BY <1>12 DEF TypeOK, vars, Slow
  <1> QED
    BY <1>1, <1>2, <1>3, <1>4, <1>5, <1>6, <1>7, <1>8, <1>9, <1>10, <1>11, <1>12
    DEF Next, Dispatch

\* Whatever the receiver does and wherever the process stops, every variable
\* keeps its type; retries never wait longer than the configured cap.
THEOREM TypeCorrect == Spec => []TypeOK
  <1>1. Init => TypeOK
    BY ConfigAssumption, EmptySeq DEF Init, TypeOK, Slow
  <1> QED BY <1>1, TypeNext, PTL DEF Spec

-----------------------------------------------------------------------------
(* Order *)

WasAccepted(i) == \E k \in DOMAIN accepted : accepted[k] = i

\* What a pass still has to post, together with what it is posting, is an
\* initial segment of the undelivered events; no open event is older than one
\* that may land late; an event is only done when the receiver has it.
OrderInv ==
    /\ batch \subseteq Undelivered
    /\ posting # NULL =>
          posting \in Undelivered /\ \A j \in Undelivered : posting <= j
    /\ posting \notin batch
    /\ \A i \in batch : \A j \in Undelivered : j < i => j \in batch \cup {posting}
    /\ \A i \in Slow : \A j \in Undelivered : i <= j
    /\ outcome = "ok" => WasAccepted(posting)
    /\ \A i \in DOMAIN outbox : outbox[i].delivered => WasAccepted(i)

Inv == TypeOK /\ OrderInv

\* An event of the outbox is an index, with a number of attempts.
LEMMA Entries ==
  ASSUME TypeOK
  PROVE  /\ Len(outbox) \in Nat
         /\ DOMAIN outbox = 1..Len(outbox)
         /\ \A i \in DOMAIN outbox : i \in Nat /\ outbox[i] \in Entry
         /\ Undelivered \subseteq DOMAIN outbox
  <1>1. Len(outbox) \in Nat /\ DOMAIN outbox = 1..Len(outbox)
    BY LenProperties DEF TypeOK
  <1>2. \A i \in DOMAIN outbox : outbox[i] \in Entry
    BY <1>1, ElementOfSeq DEF TypeOK
  <1> QED BY <1>1, <1>2 DEF Undelivered

\* The due prefix is downward closed: with an event, a pass takes every older
\* undelivered one, whatever the page limit.
LEMMA PrefixClosed ==
  ASSUME TypeOK, NEW i \in DuePrefix, NEW j \in Undelivered, j < i
  PROVE  j \in DuePrefix
  <1> DEFINE Before(k) == {l \in Undelivered : l < k}
  <1>1. i \in Page /\ i \in Undelivered
    BY DEF DuePrefix, Page
  <1>2. IsFiniteSet(DOMAIN outbox)
    BY Entries, FS_Interval
  <1>3. IsFiniteSet(Before(i)) /\ IsFiniteSet(Before(j))
    BY <1>2, Entries, FS_Subset
  <1>4. Before(j) \subseteq Before(i)
    BY <1>1, Entries
  <1>5. Cardinality(Before(j)) <= Cardinality(Before(i))
    BY <1>3, <1>4, FS_Subset
  <1>6. Cardinality(Before(i)) \in Nat /\ Cardinality(Before(j)) \in Nat
    BY <1>3, FS_CardinalityType
  <1>7. Cardinality(Before(i)) < PageLimit
    BY <1>1 DEF Page
  <1>8. Cardinality(Before(j)) < PageLimit
    BY <1>5, <1>6, <1>7, ConfigAssumption
  <1>9. j \in Page
    BY <1>8 DEF Page
  <1> HIDE DEF Before
  <1>10. \A k \in Page : k <= j => outbox[k].wait = 0
    <2> SUFFICES ASSUME NEW k \in Page, k <= j PROVE outbox[k].wait = 0
      OBVIOUS
    <2>1. k \in Nat /\ j \in Nat /\ i \in Nat
      BY <1>1, Entries DEF Page
    <2>2. k <= i
      BY <2>1
    <2> QED BY <2>2 DEF DuePrefix
  <1> QED BY <1>9, <1>10 DEF DuePrefix

\* Every step keeps the order.
LEMMA OrderNext == Inv /\ [Next]_vars => OrderInv'
  <1> SUFFICES ASSUME TypeOK, OrderInv, [Next]_vars PROVE OrderInv'
    BY DEF Inv
  <1> USE ConfigAssumption
  <1>0. /\ Len(outbox) \in Nat
        /\ DOMAIN outbox = 1..Len(outbox)
        /\ \A i \in DOMAIN outbox : i \in Nat /\ outbox[i] \in Entry
        /\ Undelivered \subseteq DOMAIN outbox
        /\ Slow \subseteq DOMAIN outbox
        /\ NULL \notin Nat
    BY Entries DEF TypeOK
  <1>1. CASE CreateEvent
    <2>1. Undelivered \subseteq Undelivered'
          /\ Undelivered' \subseteq Undelivered \cup {Len(outbox) + 1}
      BY <1>0, <1>1, NewEvent DEF Undelivered
    <2>2. \A i \in DOMAIN outbox' : outbox'[i].delivered => i \in DOMAIN outbox
      BY <1>0, <1>1, NewEvent
    <2>3. UNCHANGED <<batch, posting, outcome, accepted>> /\ Slow' = Slow
      BY <1>1 DEF CreateEvent, Slow
    <2>4. \A i \in DOMAIN outbox' : outbox'[i].delivered => WasAccepted(i)
      BY <1>0, <1>1, <2>2, NewEvent DEF OrderInv
    <2> QED BY <1>0, <2>1, <2>3, <2>4 DEF OrderInv, WasAccepted
  <1>2. CASE Elapse
    <2>1. Undelivered' = Undelivered
      BY <1>2, WaitsElapse DEF Undelivered
    <2>2. UNCHANGED <<batch, posting, outcome, accepted>> /\ Slow' = Slow
      BY <1>2 DEF Elapse, Slow
    <2>3. \A i \in DOMAIN outbox' : outbox'[i].delivered => WasAccepted(i)
      BY <1>2, WaitsElapse DEF OrderInv
    <2> QED BY <2>1, <2>2, <2>3 DEF OrderInv, WasAccepted
  <1>3. CASE StartPass
    <2>1. UNCHANGED <<outbox, posting, outcome, accepted>> /\ batch' = DuePrefix
          /\ posting = NULL /\ Slow' = Slow
      BY <1>3 DEF StartPass, Slow
    <2>2. DuePrefix \subseteq Undelivered
      BY DEF DuePrefix, Page
    <2>3. NULL \notin DuePrefix
      BY <1>0, <2>2
    <2>4. \A i \in DuePrefix : \A j \in Undelivered : j < i => j \in DuePrefix
      BY PrefixClosed
    <2>5. Undelivered' = Undelivered
      BY <2>1 DEF Undelivered
    <2> QED BY <2>1, <2>2, <2>3, <2>4, <2>5 DEF OrderInv, WasAccepted
  <1>4. ASSUME NEW i \in batch, Post(i) PROVE OrderInv'
    <2>1. /\ posting = NULL /\ posting' = i /\ batch' = batch \ {i}
          /\ \A j \in batch : i <= j
          /\ UNCHANGED <<outbox, outcome, accepted>> /\ Slow' = Slow
      BY <1>4 DEF Post, Slow
    <2>2. outcome = "none"
      BY <2>1 DEF TypeOK
    <2>3. Undelivered' = Undelivered
      BY <2>1 DEF Undelivered
    <2>4. i \in Undelivered /\ i \in Nat
      BY <1>0 DEF OrderInv
    <2>5. \A j \in Undelivered : i <= j
      <3> SUFFICES ASSUME NEW j \in Undelivered, j < i PROVE FALSE
        BY <1>0, <2>4
      <3>1. j \in batch
        BY <1>0, <2>1 DEF OrderInv
      <3> QED BY <1>0, <2>1, <2>4, <3>1
    <2>6. \A k \in batch' : \A j \in Undelivered : j < k => j \in batch' \cup {i}
      BY <1>0, <2>1 DEF OrderInv
    <2> QED BY <2>1, <2>2, <2>3, <2>4, <2>5, <2>6 DEF OrderInv, WasAccepted
  <1>5. CASE Answered
    <2>1. /\ posting \in DOMAIN outbox /\ accepted' = Append(accepted, posting)
          /\ UNCHANGED <<outbox, batch, posting>> /\ Slow' = Slow
      BY <1>5 DEF TypeOK, Answered, Slow
    <2>2. WasAccepted(posting)' /\ \A i \in DOMAIN outbox : WasAccepted(i) => WasAccepted(i)'
      <3>1. /\ DOMAIN accepted' = DOMAIN accepted \cup {Len(accepted) + 1}
            /\ \A k \in DOMAIN accepted : accepted'[k] = accepted[k]
            /\ accepted'[Len(accepted) + 1] = posting
        BY <2>1, NewAcceptance
      <3>2. WasAccepted(posting)'
        BY <2>1, <3>1 DEF WasAccepted
      <3> QED BY <3>1, <3>2 DEF WasAccepted
    <2>3. Undelivered' = Undelivered
      BY <2>1 DEF Undelivered
    <2> QED BY <2>1, <2>2, <2>3 DEF OrderInv
  <1>6. CASE Refused
    <2>1. UNCHANGED <<outbox, batch, posting, accepted>> /\ outcome' = "error"
          /\ Slow' = Slow
      BY <1>6 DEF Refused, Slow
    <2>2. Undelivered' = Undelivered
      BY <2>1 DEF Undelivered
    <2> QED BY <2>1, <2>2 DEF OrderInv, WasAccepted
  <1>7. CASE MarkDelivered
    <2>1. /\ outcome = "ok" /\ posting' = NULL /\ outcome' = "none"
          /\ UNCHANGED <<batch, accepted>> /\ Slow' = Slow
      BY <1>7 DEF MarkDelivered, Slow
    <2>2. Undelivered' = Undelivered \ {posting}
      BY <1>7, Marked DEF Undelivered
    <2>3. \A i \in DOMAIN outbox' : outbox'[i].delivered => WasAccepted(i)
      BY <1>7, <2>1, Marked DEF OrderInv
    <2>4. batch \subseteq Undelivered' /\ NULL \notin batch
      BY <1>0, <2>2 DEF OrderInv
    <2>5. \A i \in batch : \A j \in Undelivered' : j < i => j \in batch
      BY <2>2 DEF OrderInv
    <2> QED BY <2>1, <2>2, <2>3, <2>4, <2>5 DEF OrderInv, WasAccepted
  <1>8. CASE RecordAttempt
    <2>1. /\ batch' = {} /\ posting' = NULL /\ outcome' = "none"
          /\ UNCHANGED accepted /\ Slow' = Slow
      BY <1>8 DEF RecordAttempt, Slow
    <2>2. \A i \in DOMAIN outbox' : outbox'[i].delivered => WasAccepted(i)
      BY <1>8, Recorded DEF OrderInv
    <2>3. Undelivered' \subseteq Undelivered
      <3> SUFFICES ASSUME NEW i \in DOMAIN outbox, i \notin Undelivered
                   PROVE  i \notin Undelivered'
        BY <1>8, Recorded DEF Undelivered
      <3>1. outbox[i].attempts \in Nat
        BY <1>0 DEF Entry
      <3> QED BY <1>8, <3>1, Recorded DEF Undelivered
    <2> QED BY <2>1, <2>2, <2>3 DEF OrderInv, WasAccepted
  <1>9. CASE Stop
    <2>1. /\ batch' = {} /\ posting' = NULL /\ outcome' = "none"
          /\ UNCHANGED <<outbox, accepted>>
      BY <1>9 DEF Stop
    <2>2. Slow' = Slow \/ (posting # NULL /\ Slow' = Slow \cup {posting})
      BY <1>9, GivenUp DEF Stop, Slow
    <2>3. Undelivered' = Undelivered
      BY <2>1 DEF Undelivered
    <2> QED BY <2>1, <2>2, <2>3 DEF OrderInv, WasAccepted
  <1>10. CASE TimedOut
    <2>1. /\ posting # NULL /\ outcome' = "error"
          /\ UNCHANGED <<outbox, batch, posting, accepted>>
          /\ late' = [late EXCEPT ![posting] = @ + 1]
      BY <1>10 DEF TimedOut
    <2>2. Slow' = Slow \cup {posting}
      BY <2>1, GivenUp
    <2>3. Undelivered' = Undelivered
      BY <2>1 DEF Undelivered
    <2> QED BY <2>1, <2>2, <2>3 DEF OrderInv, WasAccepted
  <1>11. CASE AcceptedLate
    <2>1. PICK e \in DOMAIN late :
            /\ late[e] > 0 /\ late' = [late EXCEPT ![e] = @ - 1]
            /\ accepted' = Append(accepted, e)
            /\ UNCHANGED <<outbox, batch, posting, outcome>>
      BY <1>11 DEF AcceptedLate
    <2>2. e \in DOMAIN outbox /\ Slow' \subseteq Slow
      BY <2>1, Landed
    <2>3. \A i \in DOMAIN outbox : WasAccepted(i) => WasAccepted(i)'
      <3>1. /\ DOMAIN accepted \subseteq DOMAIN accepted'
            /\ \A k \in DOMAIN accepted : accepted'[k] = accepted[k]
        BY <2>1, <2>2, NewAcceptance
      <3> QED BY <3>1 DEF WasAccepted
    <2>4. outcome = "ok" => posting \in DOMAIN outbox
      BY DEF TypeOK
    <2>5. Undelivered' = Undelivered
      BY <2>1 DEF Undelivered
    <2> QED BY <2>1, <2>2, <2>3, <2>4, <2>5 DEF OrderInv
  <1>12. CASE UNCHANGED vars
    BY <1>12 DEF OrderInv, WasAccepted, Undelivered, Slow, vars
  <1> QED
    BY <1>1, <1>2, <1>3, <1>4, <1>5, <1>6, <1>7, <1>8, <1>9, <1>10, <1>11, <1>12
    DEF Next, Dispatch

\* The inductive invariant holds in every reachable state.
LEMMA Invariant == Spec => []Inv
  <1>1. Init => Inv
    BY ConfigAssumption, EmptySeq DEF Init, Inv, TypeOK, OrderInv, Slow
  <1>2. Inv /\ [Next]_vars => Inv'
    BY TypeNext, OrderNext DEF Inv
  <1> QED BY <1>1, <1>2, PTL DEF Spec

\* No step takes back an attempt or an acceptance.
LEMMA Grows ==
  ASSUME TypeOK, [Next]_vars
  PROVE  /\ DOMAIN outbox \subseteq DOMAIN outbox'
         /\ \A i \in DOMAIN outbox : outbox'[i].attempts >= outbox[i].attempts
         /\ \A i \in DOMAIN outbox : Parked(i) => Parked(i)'
  <1>0. \A i \in DOMAIN outbox : i \in Nat /\ outbox[i].attempts \in Nat
    BY Entries DEF Entry
  <1> SUFFICES /\ DOMAIN outbox \subseteq DOMAIN outbox'
               /\ \A i \in DOMAIN outbox :
                    \/ outbox'[i].attempts = outbox[i].attempts
                    \/ outbox'[i].attempts = outbox[i].attempts + 1
    BY <1>0, ConfigAssumption DEF Parked
  <1>1. CASE CreateEvent
    BY <1>1, Entries, NewEvent
  <1>2. CASE Elapse
    BY <1>2, WaitsElapse
  <1>3. CASE MarkDelivered
    BY <1>3, Marked
  <1>4. CASE RecordAttempt
    BY <1>4, Recorded
  <1>5. CASE UNCHANGED outbox
    BY <1>5
  <1> QED
    BY <1>1, <1>2, <1>3, <1>4, <1>5
    DEF Next, Dispatch, StartPass, Post, Answered, Refused, TimedOut, AcceptedLate,
        Stop, vars

\* The receiver's log only grows by an event older than which none is open.
LEMMA LogChanges ==
  ASSUME Inv, [Next]_vars
  PROVE  \/ UNCHANGED accepted
         \/ \E e \in DOMAIN outbox :
               /\ accepted' = Append(accepted, e) /\ UNCHANGED outbox
               /\ \A j \in Undelivered : e <= j
  <1> DEFINE Takes(e) == /\ accepted' = Append(accepted, e) /\ UNCHANGED outbox
                         /\ \A j \in Undelivered : e <= j
  <1>1. CASE Answered
    <2>1. posting \in DOMAIN outbox /\ Takes(posting)
      BY <1>1 DEF Inv, TypeOK, OrderInv, Answered
    <2> QED BY <2>1
  <1>2. CASE AcceptedLate
    <2>1. PICK e \in Slow : accepted' = Append(accepted, e) /\ UNCHANGED outbox
      BY <1>2 DEF AcceptedLate, Slow
    <2>2. e \in DOMAIN outbox /\ Takes(e)
      BY <2>1 DEF Inv, TypeOK, OrderInv
    <2> QED BY <2>2
  <1>3. CASE UNCHANGED accepted
    BY <1>3
  <1> QED
    BY <1>1, <1>2, <1>3
    DEF Next, Dispatch, CreateEvent, Elapse, StartPass, Post, Refused, TimedOut,
        MarkDelivered, RecordAttempt, Stop, vars

\* An event older than all open ones is parked or delivered.
LEMMA OlderClosed ==
  ASSUME Inv, NEW e \in DOMAIN outbox, \A j \in Undelivered : e <= j,
         NEW i \in 1..(e - 1)
  PROVE  /\ i \in DOMAIN outbox
         /\ Parked(i) \/ outbox[i].delivered
  <1>1. DOMAIN outbox = 1..Len(outbox) /\ Len(outbox) \in Nat
    BY Entries DEF Inv
  <1>2. i \in DOMAIN outbox /\ i < e
    BY <1>1
  <1>3. i \notin Undelivered
    BY <1>1, <1>2
  <1>4. outbox[i].attempts \in Nat /\ outbox[i].delivered \in BOOLEAN
    BY <1>2, Entries DEF Inv, Entry
  <1> QED BY <1>2, <1>3, <1>4, ConfigAssumption DEF Undelivered, Parked

\* docs/webhooks.md:95, "Strict FIFO": the receiver first gets an event only
\* after every older one except those parked, for every page limit and backoff.
THEOREM InOrder == Spec => []FirstInFirstOut
  <1>1. Init => FirstInFirstOut
    BY DEF Init, FirstInFirstOut
  <1>2. Inv /\ FirstInFirstOut /\ [Next]_vars => FirstInFirstOut'
    <2> SUFFICES ASSUME Inv, FirstInFirstOut, [Next]_vars,
                        NEW k \in DOMAIN accepted', NEW i \in 1..(accepted'[k] - 1)
                 PROVE  Parked(i)' \/ \E l \in 1..(k - 1) : accepted'[l] = i
      BY DEF FirstInFirstOut
    <2>1. Len(outbox) \in Nat /\ DOMAIN outbox = 1..Len(outbox)
      BY Entries DEF Inv
    <2>2. \A j \in DOMAIN accepted : accepted[j] \in DOMAIN outbox
      BY ElementOfSeq, LenProperties DEF Inv, TypeOK
    <2>3. CASE k \in DOMAIN accepted /\ accepted'[k] = accepted[k]
                /\ \A l \in DOMAIN accepted : accepted'[l] = accepted[l]
      <3>1. i \in DOMAIN outbox
        BY <2>1, <2>2, <2>3
      <3>2. Parked(i) => Parked(i)'
        BY <3>1, Grows DEF Inv
      <3>3. 1..(k - 1) \subseteq DOMAIN accepted
        BY <2>3, LenProperties DEF Inv, TypeOK
      <3> QED BY <2>3, <3>2, <3>3 DEF FirstInFirstOut
    <2>4. CASE UNCHANGED accepted
      BY <2>3, <2>4
    <2>5. ASSUME NEW e \in DOMAIN outbox, accepted' = Append(accepted, e),
                 outbox' = outbox, \A j \in Undelivered : e <= j
          PROVE  Parked(i)' \/ \E l \in 1..(k - 1) : accepted'[l] = i
      <3>0. TypeOK
        BY DEF Inv
      <3>1. CASE k \in DOMAIN accepted
        BY <2>3, <2>5, <3>0, <3>1, NewAcceptance
      <3>2. CASE k \notin DOMAIN accepted
        <4>1. /\ accepted'[k] = e
              /\ DOMAIN accepted = 1..(k - 1)
              /\ \A l \in DOMAIN accepted : accepted'[l] = accepted[l]
          BY <2>5, <3>0, <3>2, NewAcceptance
        <4>2. /\ i \in DOMAIN outbox
              /\ Parked(i) \/ outbox[i].delivered
          BY <2>5, <4>1, OlderClosed
        <4>3. Parked(i) \/ WasAccepted(i)
          BY <4>2 DEF Inv, OrderInv
        <4> QED BY <2>5, <4>1, <4>3 DEF WasAccepted, Parked
      <3> QED BY <3>1, <3>2
    <2> QED BY <2>4, <2>5, LogChanges
  <1> QED BY <1>1, <1>2, Invariant, PTL DEF Spec

-----------------------------------------------------------------------------
(* Refinement *)

\* A step that leaves deliveries, attempts and the outbox's length alone is one
\* that the abstract state does not see.
LEMMA SameState ==
  ASSUME DOMAIN outbox' = DOMAIN outbox,
         \A i \in DOMAIN outbox :
            /\ outbox'[i].attempts = outbox[i].attempts
            /\ outbox'[i].delivered = outbox[i].delivered
  PROVE  EventState' = EventState
  BY DEF EventState, Parked

\* A new event is open, or parked at once when no attempt is allowed.
LEMMA StepCreate ==
  ASSUME Inv, CreateEvent
  PROVE  \E s \in {"open", "parked"} : Ordered!Create(s)
  <1> DEFINE s == IF 0 >= MaxAttempts THEN "parked" ELSE "open"
  <1>1. /\ Len(outbox) \in Nat
        /\ DOMAIN outbox = 1..Len(outbox)
        /\ DOMAIN outbox' = 1..(Len(outbox) + 1)
        /\ \A i \in DOMAIN outbox : outbox'[i] = outbox[i]
        /\ outbox'[Len(outbox) + 1] = [attempts |-> 0, wait |-> 0, delivered |-> FALSE]
    BY Entries, NewEvent DEF Inv
  <1>2. DOMAIN EventState = 1..Len(outbox)
        /\ EventState = [i \in 1..Len(outbox) |-> EventState[i]]
    BY <1>1 DEF EventState
  <1>3. DOMAIN EventState' = 1..(Len(outbox) + 1)
        /\ EventState' = [i \in 1..(Len(outbox) + 1) |-> EventState'[i]]
    BY <1>1 DEF EventState
  <1>4. \A i \in 1..Len(outbox) : EventState'[i] = EventState[i]
    BY <1>1 DEF EventState, Parked
  <1>5. EventState'[Len(outbox) + 1] = s
    BY <1>1 DEF EventState, Parked
  <1> DEFINE States == {"open", "done", "parked"}
  <1>6. EventState \in Seq(States) /\ Len(EventState) = Len(outbox)
    <2>1. EventState \in [1..Len(outbox) -> States]
      BY <1>1 DEF EventState
    <2>2. EventState \in Seq(States)
      BY <1>1, <2>1, SeqDef
    <2>3. Len(EventState) \in Nat /\ DOMAIN EventState = 1..Len(EventState)
      BY <2>2, LenProperties
    <2> QED BY <1>1, <1>2, <2>2, <2>3
  <1>7. EventState' \in Seq(States) /\ Len(EventState') = Len(outbox) + 1
    <2>1. EventState' \in [1..(Len(outbox) + 1) -> States]
      BY <1>1 DEF EventState
    <2>2. EventState' \in Seq(States)
      BY <1>1, <2>1, SeqDef
    <2>3. Len(EventState') \in Nat /\ DOMAIN EventState' = 1..Len(EventState')
      BY <2>2, LenProperties
    <2> QED BY <1>1, <1>3, <2>2, <2>3
  <1>8. EventState' = Append(EventState, s)
    <2>0. s \in States
      OBVIOUS
    <2> HIDE DEF s, States
    <2>1. /\ Append(EventState, s) \in Seq(States)
          /\ Len(Append(EventState, s)) = Len(outbox) + 1
          /\ \A i \in 1..Len(outbox) : Append(EventState, s)[i] = EventState[i]
          /\ Append(EventState, s)[Len(outbox) + 1] = s
      BY <1>6, <2>0, AppendProperties
    <2>2. \A i \in 1..(Len(outbox) + 1) : EventState'[i] = Append(EventState, s)[i]
      BY <1>1, <1>4, <1>5, <2>1
    <2> QED BY <1>7, <2>1, <2>2, SeqEqual
  <1> QED BY <1>8 DEF CreateEvent, Ordered!Create, Slow

\* The event in flight is the oldest open one of the abstract state.
LEMMA InFlightOldest ==
  ASSUME Inv, posting # NULL
  PROVE  /\ posting \in DOMAIN EventState
         /\ DOMAIN EventState = DOMAIN outbox
         /\ Ordered!Oldest(posting)
  <1>1. /\ posting \in Undelivered /\ posting \in DOMAIN outbox
        /\ \A j \in Undelivered : posting <= j
    BY DEF Inv, TypeOK, OrderInv
  <1>2. \A i \in DOMAIN outbox : i \in Nat /\ outbox[i] \in Entry
    BY Entries DEF Inv
  <1>3. \A i \in DOMAIN outbox : EventState[i] = "open" <=> i \in Undelivered
    <2> SUFFICES ASSUME NEW i \in DOMAIN outbox
                 PROVE  EventState[i] = "open" <=> i \in Undelivered
      OBVIOUS
    <2>1. outbox[i].attempts \in Nat
      BY <1>2 DEF Entry
    <2>2. Parked(i) <=> ~(outbox[i].attempts < MaxAttempts)
      BY <2>1, ConfigAssumption DEF Parked
    <2> QED BY <2>2 DEF EventState, Undelivered
  <1>4. DOMAIN EventState = DOMAIN outbox
    BY DEF EventState
  <1> QED BY <1>1, <1>2, <1>3, <1>4 DEF Ordered!Oldest

\* Every step of the dispatcher is a step of the ordered delivery or leaves it
\* alone.
LEMMA StepRefines == Inv /\ [Next]_vars => [Ordered!Next]_(Ordered!vars)
  <1> SUFFICES ASSUME Inv, [Next]_vars PROVE [Ordered!Next]_(Ordered!vars)
    OBVIOUS
  <1> USE DEF Inv
  <1>1. CASE CreateEvent
    BY <1>1, StepCreate DEF Ordered!Next
  <1>2. CASE Elapse
    <2>1. EventState' = EventState
      BY <1>2, WaitsElapse, SameState
    <2> QED BY <1>2, <2>1 DEF Elapse, Ordered!vars, Slow
  <1>3. CASE Answered
    <2>1. posting # NULL /\ outbox' = outbox /\ accepted' = Append(accepted, posting)
      BY <1>3 DEF Answered
    <2>2. EventState' = EventState /\ Slow' = Slow
      BY <1>3, <2>1, SameState DEF Answered, Slow
    <2>3. posting \in DOMAIN EventState /\ Ordered!Accept(posting)
      BY <2>1, <2>2, InFlightOldest DEF Ordered!Accept
    <2> QED BY <2>3 DEF Ordered!Next
  <1>4. CASE MarkDelivered
    <2>1. posting # NULL /\ outcome = "ok" /\ accepted' = accepted /\ Slow' = Slow
      BY <1>4 DEF TypeOK, MarkDelivered, Slow
    <2>2. /\ DOMAIN outbox' = DOMAIN outbox
          /\ \A i \in DOMAIN outbox \ {posting} : outbox'[i] = outbox[i]
          /\ outbox'[posting].delivered = TRUE
      BY <1>4, Marked
    <2>3. EventState' = [EventState EXCEPT ![posting] = "done"]
      BY <2>2 DEF EventState, Parked
    <2>4. Ordered!Accepted(posting)
      BY <2>1 DEF OrderInv, WasAccepted, Ordered!Accepted
    <2>5. posting \in DOMAIN EventState /\ Ordered!Close(posting)
      BY <2>1, <2>3, <2>4, InFlightOldest DEF Ordered!Close
    <2> QED BY <2>5 DEF Ordered!Next
  <1>5. CASE RecordAttempt
    <2>1. posting # NULL /\ accepted' = accepted /\ Slow' = Slow
      BY <1>5 DEF TypeOK, RecordAttempt, Slow
    <2>2. /\ posting \in Undelivered
          /\ DOMAIN outbox' = DOMAIN outbox
          /\ \A i \in DOMAIN outbox \ {posting} : outbox'[i] = outbox[i]
          /\ outbox'[posting].attempts = outbox[posting].attempts + 1
          /\ outbox'[posting].delivered = outbox[posting].delivered
      BY <1>5, <2>1, Recorded DEF OrderInv
    <2>3. ~outbox[posting].delivered /\ ~Parked(posting)
      <3>1. outbox[posting].attempts \in Nat
        BY <2>2, Entries DEF Entry, Undelivered
      <3> QED BY <2>2, <3>1, ConfigAssumption DEF Undelivered, Parked
    <2>4. CASE outbox'[posting].attempts >= MaxAttempts
      <3>1. EventState' = [EventState EXCEPT ![posting] = "parked"]
        BY <2>2, <2>3, <2>4 DEF EventState, Parked
      <3>2. posting \in DOMAIN EventState /\ Ordered!Park(posting)
        BY <2>1, <3>1, InFlightOldest DEF Ordered!Park
      <3> QED BY <3>2 DEF Ordered!Next
    <2>5. CASE ~(outbox'[posting].attempts >= MaxAttempts)
      <3>1. EventState' = EventState
        BY <2>1, <2>2, <2>3, <2>5 DEF EventState, Parked
      <3> QED BY <2>1, <3>1 DEF Ordered!vars
    <2> QED BY <2>4, <2>5
  <1>6. ASSUME posting # NULL, UNCHANGED <<outbox, accepted>>,
               late' = [late EXCEPT ![posting] = @ + 1]
        PROVE  [Ordered!Next]_(Ordered!vars)
    <2>1. EventState' = EventState /\ Slow' = Slow \cup {posting}
      BY <1>6, SameState, GivenUp
    <2>2. posting \in DOMAIN EventState /\ Ordered!Abandon(posting)
      BY <1>6, <2>1, InFlightOldest DEF Ordered!Abandon
    <2> QED BY <2>2 DEF Ordered!Next
  <1>7. CASE TimedOut
    BY <1>6, <1>7 DEF TimedOut
  <1>8. CASE AcceptedLate
    <2>1. PICK e \in DOMAIN late :
            /\ late[e] > 0 /\ late' = [late EXCEPT ![e] = @ - 1]
            /\ accepted' = Append(accepted, e) /\ UNCHANGED outbox
      BY <1>8 DEF AcceptedLate
    <2>2. e \in DOMAIN outbox /\ e \in Slow /\ Slow' \in {Slow, Slow \ {e}}
      BY <2>1, Landed
    <2>3. EventState' = EventState /\ DOMAIN EventState = DOMAIN outbox
      BY <2>1, SameState DEF EventState
    <2>4. e \in DOMAIN EventState /\ Ordered!AcceptLate(e)
      BY <2>1, <2>2, <2>3 DEF Ordered!AcceptLate
    <2> QED BY <2>4 DEF Ordered!Next
  <1>9. CASE UNCHANGED <<outbox, accepted, late>>
    <2>1. EventState' = EventState /\ Slow' = Slow
      BY <1>9, SameState DEF Slow
    <2> QED BY <1>9, <2>1 DEF Ordered!vars
  <1>10. CASE Stop
    BY <1>6, <1>9, <1>10 DEF Stop
  <1> QED
    BY <1>1, <1>2, <1>3, <1>4, <1>5, <1>7, <1>8, <1>9, <1>10
    DEF Next, Dispatch, StartPass, Post, Refused, vars

\* The dispatcher implements ordered at-least-once delivery: whatever the
\* receiver answers and wherever the process stops, only the oldest open event
\* is offered, and it is closed only when accepted or out of attempts.
THEOREM Refinement == Spec => DeliversInOrder
  <1>1. Init => Ordered!Init
    BY EmptySeq DEF Init, EventState, Slow, Ordered!Init
  <1>2. Inv /\ [Next]_vars => [Ordered!Next]_(Ordered!vars)
    BY StepRefines
  <1> QED BY <1>1, <1>2, Invariant, PTL DEF Spec, DeliversInOrder, Ordered!Spec

-----------------------------------------------------------------------------
(* Duplicates *)

\* An answer that is not recorded yet, or the one that closed the event.
Uncounted(i) ==
    IF outbox[i].delivered \/ (posting = i /\ outcome # "none") THEN 1 ELSE 0

\* Every acceptance, and every post that may land late, is paid for by a counted
\* attempt, by the answer in hand or by a crash; an event stops being posted when its attempts are used up.
CountInv ==
    \A i \in DOMAIN outbox :
        /\ outbox[i].attempts <= MaxAttempts
        /\ outbox[i].delivered => outbox[i].attempts < MaxAttempts
        /\ Cardinality(Acceptances(i)) + late[i] <=
               outbox[i].attempts + stops + Uncounted(i)

\* The acceptances of an event can be counted.
LEMMA AcceptancesFinite ==
  ASSUME TypeOK, NEW i
  PROVE  IsFiniteSet(Acceptances(i)) /\ Cardinality(Acceptances(i)) \in Nat
  <1>1. Len(accepted) \in Nat /\ DOMAIN accepted = 1..Len(accepted)
    BY LenProperties DEF TypeOK
  <1>2. IsFiniteSet(DOMAIN accepted)
    BY <1>1, FS_Interval
  <1>3. IsFiniteSet(Acceptances(i))
    BY <1>2, FS_Subset DEF Acceptances
  <1> QED BY <1>3, FS_CardinalityType

\* An acceptance counts for its event and for no other.
LEMMA OneMore ==
  ASSUME TypeOK, NEW e \in DOMAIN outbox, accepted' = Append(accepted, e), NEW i
  PROVE  /\ i = e => Cardinality(Acceptances(i)') = Cardinality(Acceptances(i)) + 1
         /\ i # e => Acceptances(i)' = Acceptances(i)
  <1>1. /\ DOMAIN accepted = 1..Len(accepted) /\ Len(accepted) \in Nat
        /\ DOMAIN accepted' = 1..(Len(accepted) + 1)
        /\ \A k \in DOMAIN accepted : accepted'[k] = accepted[k]
        /\ accepted'[Len(accepted) + 1] = e
    BY NewAcceptance
  <1>2. ASSUME i = e
        PROVE  Cardinality(Acceptances(i)') = Cardinality(Acceptances(i)) + 1
    <2>1. /\ Acceptances(i)' = Acceptances(i) \cup {Len(accepted) + 1}
          /\ Len(accepted) + 1 \notin Acceptances(i)
      BY <1>1, <1>2 DEF Acceptances
    <2> QED BY <2>1, AcceptancesFinite, FS_AddElement
  <1>3. ASSUME i # e PROVE Acceptances(i)' = Acceptances(i)
    BY <1>1, <1>3 DEF Acceptances
  <1> QED BY <1>2, <1>3

\* Every step keeps the count.
LEMMA CountNext == Inv /\ CountInv /\ [Next]_vars => CountInv'
  <1> SUFFICES ASSUME Inv, CountInv, [Next]_vars, NEW i \in DOMAIN outbox'
               PROVE  /\ outbox'[i].attempts <= MaxAttempts
                      /\ outbox'[i].delivered => outbox'[i].attempts < MaxAttempts
                      /\ Cardinality(Acceptances(i)') + late'[i] <=
                           outbox'[i].attempts + stops' + Uncounted(i)'
    BY DEF CountInv
  <1> USE ConfigAssumption DEF Inv
  <1>0. /\ \A j \in DOMAIN outbox : /\ j \in Nat /\ outbox[j] \in Entry
                                    /\ outbox[j].attempts \in Nat
        /\ stops \in Nat
        /\ Cardinality(Acceptances(i)) \in Nat
        /\ Uncounted(i) \in {0, 1}
        /\ NULL \notin DOMAIN outbox
    <2>1. stops \in Nat
      BY DEF TypeOK
    <2>2. Uncounted(i) \in {0, 1}
      BY DEF Uncounted
    <2> QED BY <2>1, <2>2, Entries, AcceptancesFinite DEF Entry
  <1>late. /\ late \in [1..MaxEvents -> Nat]
           /\ \A j \in DOMAIN outbox : j \in DOMAIN late /\ late[j] \in Nat
    BY DEF TypeOK
  <1>1. CASE CreateEvent
    <2>1. UNCHANGED <<posting, outcome, accepted, late, stops>>
      BY <1>1 DEF CreateEvent
    <2>2. Acceptances(i)' = Acceptances(i)
      BY <2>1 DEF Acceptances
    <2>3. CASE i \in DOMAIN outbox
      <3>1. outbox'[i] = outbox[i]
        BY <1>1, <2>3, NewEvent
      <3>2. Uncounted(i)' = Uncounted(i)
        BY <2>1, <3>1 DEF Uncounted
      <3> QED BY <2>1, <2>2, <2>3, <3>1, <3>2 DEF CountInv
    <2>4. CASE i \notin DOMAIN outbox
      <3>1. i = Len(outbox) + 1
        BY <1>1, <2>4, NewEvent, Entries
      <3>2. outbox'[i].attempts = 0 /\ ~outbox'[i].delivered
        BY <1>1, <3>1, NewEvent
      <3>3. \A k \in DOMAIN accepted : accepted[k] \in DOMAIN outbox
        BY ElementOfSeq, LenProperties DEF TypeOK
      <3>4. Acceptances(i) = {}
        BY <2>4, <3>3 DEF Acceptances
      <3>5. Cardinality(Acceptances(i)') = 0
        BY <2>2, <3>4, FS_EmptySet
      <3>6. Uncounted(i)' \in {0, 1}
        BY DEF Uncounted
      <3>7. i \in DOMAIN late /\ late[i] = 0
        <4>1. i \in DOMAIN late
          BY <1>1, <2>1, TypeNext DEF Next, TypeOK
        <4> QED BY <1>0, <1>late, <2>4, <4>1 DEF TypeOK, Slow
      <3> QED BY <1>0, <1>late, <2>1, <3>2, <3>5, <3>6, <3>7
    <2> QED BY <2>3, <2>4
  <1>2. CASE Answered
    <2>1. /\ posting \in DOMAIN outbox /\ outcome = "none" /\ outcome' = "ok"
          /\ accepted' = Append(accepted, posting)
          /\ UNCHANGED <<outbox, posting, late, stops>>
      BY <1>2 DEF TypeOK, Answered
    <2>2. CASE i = posting
      <3>3. Cardinality(Acceptances(i)') = Cardinality(Acceptances(i)) + 1
        BY <2>1, <2>2, OneMore
      <3>4. ~outbox[i].delivered
        BY <1>0, <1>late, <2>1, <2>2 DEF OrderInv, Undelivered
      <3>5. Uncounted(i) = 0 /\ Uncounted(i)' = 1
        BY <2>1, <2>2, <3>4 DEF Uncounted
      <3>6. outbox' = outbox /\ stops' = stops /\ late' = late /\ i \in DOMAIN outbox
        BY <2>1, <2>2
      <3>7. /\ outbox[i].attempts <= MaxAttempts
            /\ outbox[i].delivered => outbox[i].attempts < MaxAttempts
            /\ Cardinality(Acceptances(i)) + late[i] <= outbox[i].attempts + stops
        BY <1>0, <1>late, <3>5, <3>6 DEF CountInv
      <3> HIDE DEF Inv
      <3>8. Cardinality(Acceptances(i)') + late'[i] <=
               outbox'[i].attempts + stops' + Uncounted(i)'
        BY <1>0, <1>late, <3>3, <3>5, <3>6, <3>7
      <3> QED BY <3>6, <3>7, <3>8
    <2>3. CASE i # posting
      <3>1. Acceptances(i)' = Acceptances(i)
        BY <2>1, <2>3, OneMore
      <3>2. Uncounted(i)' = Uncounted(i)
        BY <2>1, <2>3 DEF Uncounted
      <3> QED BY <2>1, <3>1, <3>2 DEF CountInv
    <2> QED BY <2>2, <2>3
  <1>3. CASE MarkDelivered
    <2>1. /\ posting \in DOMAIN outbox /\ posting \in Undelivered
          /\ outcome = "ok" /\ posting' = NULL /\ outcome' = "none"
          /\ UNCHANGED <<accepted, late, stops>>
      BY <1>3 DEF TypeOK, OrderInv, MarkDelivered
    <2>2. Acceptances(i)' = Acceptances(i)
      BY <2>1 DEF Acceptances
    <2>3. CASE i = posting
      <3>1. outbox'[i].attempts = outbox[i].attempts /\ outbox'[i].delivered
        BY <1>3, <2>3, Marked
      <3>2. Uncounted(i) = 1 /\ Uncounted(i)' = 1
        BY <2>1, <2>3, <3>1 DEF Uncounted
      <3>3. outbox[i].attempts < MaxAttempts
        BY <2>1, <2>3 DEF Undelivered
      <3> QED BY <1>0, <1>late, <2>1, <2>2, <2>3, <3>1, <3>2, <3>3 DEF CountInv
    <2>4. CASE i # posting
      <3>1. i \in DOMAIN outbox /\ outbox'[i] = outbox[i]
        BY <1>3, <2>4, Marked
      <3>2. Uncounted(i)' = Uncounted(i)
        BY <1>0, <1>late, <2>1, <2>4, <3>1 DEF Uncounted
      <3> QED BY <2>1, <2>2, <3>1, <3>2 DEF CountInv
    <2> QED BY <2>3, <2>4
  <1>4. CASE RecordAttempt
    <2>1. /\ posting \in DOMAIN outbox /\ posting \in Undelivered
          /\ outcome = "error" /\ posting' = NULL /\ outcome' = "none"
          /\ UNCHANGED <<accepted, late, stops>>
      BY <1>4 DEF TypeOK, OrderInv, RecordAttempt
    <2>2. Acceptances(i)' = Acceptances(i)
      BY <2>1 DEF Acceptances
    <2>3. CASE i = posting
      <3>1. /\ outbox'[i].attempts = outbox[i].attempts + 1
            /\ outbox'[i].delivered = outbox[i].delivered
        BY <1>4, <2>3, Recorded
      <3>2. ~outbox[i].delivered /\ outbox[i].attempts < MaxAttempts
        BY <2>1, <2>3 DEF Undelivered
      <3>3. Uncounted(i) = 1 /\ Uncounted(i)' = 0
        BY <1>0, <1>late, <2>1, <2>3, <3>1, <3>2 DEF Uncounted
      <3> QED BY <1>0, <1>late, <2>1, <2>2, <2>3, <3>1, <3>2, <3>3 DEF CountInv
    <2>4. CASE i # posting
      <3>1. i \in DOMAIN outbox /\ outbox'[i] = outbox[i]
        BY <1>4, <2>4, Recorded
      <3>2. Uncounted(i)' = Uncounted(i)
        BY <1>0, <1>late, <2>1, <2>4, <3>1 DEF Uncounted
      <3> QED BY <2>1, <2>2, <3>1, <3>2 DEF CountInv
    <2> QED BY <2>3, <2>4
  <1>5. CASE Stop
    <2>1. /\ stops' = stops + 1 /\ i \in DOMAIN outbox
          /\ UNCHANGED <<outbox, accepted>>
      BY <1>5 DEF Stop
    <2>2. Acceptances(i)' = Acceptances(i)
      BY <2>1 DEF Acceptances
    <2>3. Uncounted(i)' \in {0, 1} /\ (Uncounted(i) = 1 => late'[i] = late[i])
      <3>1. CASE UNCHANGED late
        BY <3>1 DEF Uncounted
      <3>2. CASE /\ posting # NULL /\ outcome = "none"
                 /\ late' = [late EXCEPT ![posting] = @ + 1]
        <4>1. ~outbox[posting].delivered
          BY <3>2 DEF OrderInv, Undelivered
        <4> QED BY <1>0, <1>late, <2>1, <3>2, <4>1, GivenUp DEF Uncounted
      <3> QED BY <1>5, <3>1, <3>2 DEF Stop
    <2>4. late'[i] \in Nat /\ late'[i] <= late[i] + 1
      <3>1. CASE UNCHANGED late
        BY <1>late, <2>1, <3>1
      <3>2. CASE posting # NULL /\ late' = [late EXCEPT ![posting] = @ + 1]
        BY <1>late, <2>1, <3>2, GivenUp
      <3> QED BY <1>5, <3>1, <3>2 DEF Stop
    <2>5. Cardinality(Acceptances(i)) + late[i] <= outbox[i].attempts + stops + Uncounted(i)
          /\ outbox[i].attempts \in Nat /\ late[i] \in Nat
      BY <1>0, <1>late, <2>1 DEF CountInv
    <2>6. Cardinality(Acceptances(i)) + late'[i] <=
            outbox[i].attempts + (stops + 1) + Uncounted(i)'
      BY <1>0, <2>3, <2>4, <2>5
    <2> QED BY <2>1, <2>2, <2>6 DEF CountInv
  <1>6. CASE Elapse
    <2>1. UNCHANGED <<posting, outcome, accepted, late, stops>>
      BY <1>6 DEF Elapse
    <2>2. /\ i \in DOMAIN outbox
          /\ outbox'[i].attempts = outbox[i].attempts
          /\ outbox'[i].delivered = outbox[i].delivered
      BY <1>6, WaitsElapse
    <2>3. Acceptances(i)' = Acceptances(i) /\ Uncounted(i)' = Uncounted(i)
      BY <2>1, <2>2 DEF Acceptances, Uncounted
    <2> QED BY <2>1, <2>2, <2>3 DEF CountInv
  <1>7. ASSUME NEW j \in batch, Post(j) PROVE CountInv'
    <2>1. outcome = "none" /\ UNCHANGED <<outbox, outcome, accepted, late, stops>>
      BY <1>7 DEF TypeOK, Post
    <2> QED BY <2>1 DEF CountInv, Acceptances, Uncounted
  <1>8. CASE Refused
    <2>1. /\ outcome = "none"
          /\ UNCHANGED <<outbox, posting, accepted, late, stops>>
      BY <1>8 DEF Refused
    <2>2. Acceptances(i)' = Acceptances(i)
      BY <2>1 DEF Acceptances
    <2>3. Uncounted(i)' \in {0, 1} /\ Uncounted(i) <= Uncounted(i)'
      BY <2>1 DEF Uncounted
    <2> QED BY <1>0, <1>late, <2>1, <2>2, <2>3 DEF CountInv
  <1>9. CASE TimedOut
    <2>1. /\ posting # NULL /\ outcome = "none" /\ outcome' = "error"
          /\ late' = [late EXCEPT ![posting] = @ + 1]
          /\ UNCHANGED <<outbox, posting, accepted, stops>>
      BY <1>9 DEF TimedOut
    <2>2. Acceptances(i)' = Acceptances(i)
      BY <2>1 DEF Acceptances
    <2>3. CASE i = posting
      <3>1. ~outbox[i].delivered
        BY <2>1, <2>3 DEF OrderInv, Undelivered
      <3>2. Uncounted(i) = 0 /\ Uncounted(i)' = 1 /\ late'[i] = late[i] + 1
        BY <2>1, <2>3, <3>1, GivenUp DEF Uncounted
      <3> QED BY <1>0, <1>late, <2>1, <2>2, <3>2 DEF CountInv
    <2>4. CASE i # posting
      <3>1. Uncounted(i)' = Uncounted(i) /\ late'[i] = late[i]
        BY <1>0, <1>late, <2>1, <2>4, GivenUp DEF Uncounted
      <3> QED BY <2>1, <2>2, <3>1 DEF CountInv
    <2> QED BY <2>3, <2>4
  <1>10. CASE AcceptedLate
    <2>1. PICK e \in DOMAIN late :
            /\ late[e] > 0 /\ late' = [late EXCEPT ![e] = @ - 1]
            /\ accepted' = Append(accepted, e)
            /\ UNCHANGED <<outbox, posting, outcome, stops>>
      BY <1>10 DEF AcceptedLate
    <2>2. e \in DOMAIN outbox /\ late'[e] = late[e] - 1
          /\ \A j \in DOMAIN late \ {e} : late'[j] = late[j]
      BY <2>1, Landed
    <2>3. Uncounted(i)' = Uncounted(i)
      BY <2>1 DEF Uncounted
    <2>4. CASE i = e
      <3>1. Cardinality(Acceptances(i)') = Cardinality(Acceptances(i)) + 1
        BY <2>1, <2>2, <2>4, OneMore
      <3> QED BY <1>0, <1>late, <2>1, <2>2, <2>3, <2>4, <3>1 DEF CountInv
    <2>5. CASE i # e
      <3>1. Acceptances(i)' = Acceptances(i)
        BY <2>1, <2>2, <2>5, OneMore
      <3> QED BY <1>0, <1>late, <2>1, <2>2, <2>3, <2>5, <3>1 DEF CountInv
    <2> QED BY <2>4, <2>5
  <1>11. CASE UNCHANGED <<outbox, posting, outcome, accepted, late, stops>>
    BY <1>11 DEF CountInv, Acceptances, Uncounted
  <1> QED
    BY <1>1, <1>2, <1>3, <1>4, <1>5, <1>6, <1>7, <1>8, <1>9, <1>10, <1>11
    DEF Next, Dispatch, StartPass, CountInv, vars

\* At least once, but not for ever: the receiver gets an event at most
\* max_attempts times, plus once for every crash between a post and its record.
THEOREM Duplicates == Spec => []DuplicatesBounded
  <1>1. Init => CountInv
    BY DEF Init, CountInv
  <1>2. Inv /\ CountInv /\ [Next]_vars => CountInv'
    BY CountNext
  <1>3. Inv /\ CountInv => DuplicatesBounded
    <2> SUFFICES ASSUME Inv, CountInv, NEW i \in DOMAIN outbox
                 PROVE  Cardinality(Acceptances(i)) <= MaxAttempts + stops
      BY DEF DuplicatesBounded
    <2>1. /\ outbox[i].attempts \in Nat /\ i # NULL
          /\ Cardinality(Acceptances(i)) \in Nat
      BY Entries, AcceptancesFinite, ConfigAssumption DEF Inv, Entry
    <2>late. late[i] \in Nat /\ stops \in Nat
      BY ConfigAssumption DEF Inv, TypeOK
    <2>2. CASE Uncounted(i) = 0
      BY <2>1, <2>late, <2>2, ConfigAssumption DEF CountInv
    <2>3. CASE Uncounted(i) # 0
      <3>1. Uncounted(i) = 1 /\ (outbox[i].delivered \/ posting = i)
        BY <2>3 DEF Uncounted
      <3>2. posting = i => outbox[i].attempts < MaxAttempts
        BY <2>1 DEF Inv, OrderInv, Undelivered
      <3>3. outbox[i].attempts < MaxAttempts
        BY <3>1, <3>2 DEF CountInv
      <3> QED BY <2>1, <2>late, <3>1, <3>3, ConfigAssumption DEF CountInv
    <2> QED BY <2>2, <2>3
  <1> QED BY <1>1, <1>2, <1>3, Invariant, PTL DEF Spec
-----------------------------------------------------------------------------
(* The backoff *)

\* Powers of two grow: they count the subsets of growing sets.
LEMMA PowersGrow ==
  ASSUME NEW m \in Nat, NEW n \in Nat, m <= n
  PROVE  2^m \in Nat \ {0} /\ 2^n \in Nat /\ 2^m <= 2^n
  <1>1. /\ IsFiniteSet(1..m) /\ Cardinality(1..m) = m
        /\ IsFiniteSet(1..n) /\ Cardinality(1..n) = n
    BY FS_Interval
  <1>2. /\ IsFiniteSet(SUBSET (1..m)) /\ Cardinality(SUBSET (1..m)) = 2^m
        /\ IsFiniteSet(SUBSET (1..n)) /\ Cardinality(SUBSET (1..n)) = 2^n
    BY <1>1, FS_SUBSET
  <1>3. Cardinality(SUBSET (1..m)) # 0
    BY <1>2, FS_EmptySet
  <1>4. SUBSET (1..m) \in SUBSET (SUBSET (1..n))
    OBVIOUS
  <1> QED BY <1>2, <1>3, <1>4, FS_Subset, FS_CardinalityType

\* A word holds every number below 2^WordBits.
LEMMA Word == WordMax \in Nat /\ WordMax + 1 = 2^WordBits
  BY ConfigAssumption, PowersGrow DEF WordMax

\* Neither the shift nor the product that saturates cuts a delay short.
LEMMA DelayExact ==
  ASSUME NEW base \in 0..WordMax, NEW cap \in 0..WordMax, NEW n \in Nat \ {0}
  PROVE  /\ BackoffDelay(base, cap, n) = Least(cap, base * 2^(n - 1))
         /\ Least(cap, base * 2^(n - 1)) \in 0..cap
  <1> DEFINE power == 2^(n - 1)
  <1>1. power \in Nat \ {0} /\ (WordBits <= n - 1 => 2^WordBits <= power)
    <2>1. n - 1 \in Nat /\ WordBits \in Nat
      BY ConfigAssumption
    <2> QED BY <2>1, PowersGrow
  <1>2. power \in Nat /\ power >= 1 /\ WordMax \in Nat /\ WordMax + 1 = 2^WordBits
        /\ base \in Nat /\ cap \in Nat /\ cap <= WordMax
    BY <1>1, Word
  <1>3. BackoffDelay(base, cap, n)
          = Least(cap, Least(WordMax, base * (IF n - 1 < WordBits THEN power ELSE WordMax)))
    BY DEF BackoffDelay
  <1> HIDE DEF power
  <1>4. base * power \in Nat /\ base * WordMax \in Nat
    BY <1>2
  <1>5. CASE n - 1 < WordBits
    BY <1>2, <1>3, <1>4, <1>5 DEF Least, power
  <1>6. CASE ~(n - 1 < WordBits)
    <2>1. WordMax < power
      BY <1>1, <1>2, <1>6, ConfigAssumption
    <2>2. CASE base = 0
      <3>1. base * power = 0 /\ base * WordMax = 0
        BY <1>2, <2>2
      <3> QED BY <1>2, <1>3, <1>6, <3>1 DEF Least, power
    <2>3. CASE base >= 1
      <3>1. ASSUME NEW x \in Nat PROVE base * x >= x
        BY <1>2, <2>3
      <3>2. base * WordMax >= WordMax /\ base * power >= power
        BY <1>2, <3>1
      <3>3. base * power > WordMax
        BY <1>2, <1>4, <2>1, <3>2
      <3> QED BY <1>2, <1>3, <1>4, <1>6, <3>2, <3>3 DEF Least, power
    <2> QED BY <1>2, <2>2, <2>3
  <1> QED BY <1>5, <1>6

\* Only a failure that is recorded counts an attempt.
LEMMA OnlyFailuresCount ==
  ASSUME TypeOK, [Next]_vars, NEW i \in DOMAIN outbox,
         outbox'[i].attempts # outbox[i].attempts
  PROVE  RecordAttempt /\ i = posting
  <1>0. outbox \in Seq(Entry) /\ \A j \in DOMAIN outbox : outbox[j] \in Entry
    BY ElementOfSeq, LenProperties DEF TypeOK
  <1>1. ~CreateEvent
    BY NewEvent
  <1>2. ~Elapse
    <2>1. Elapse => outbox'[i] = [outbox[i] EXCEPT !.wait = IF @ > 0 THEN @ - 1 ELSE 0]
      BY DEF Elapse
    <2> QED BY <1>0, <2>1 DEF Entry
  <1>3. outbox' # outbox
    OBVIOUS
  <1>4. ~(StartPass \/ (\E e \in batch : Post(e)) \/ Answered \/ Refused \/ TimedOut
          \/ AcceptedLate \/ Stop \/ UNCHANGED vars)
    BY <1>3 DEF StartPass, Post, Answered, Refused, TimedOut, AcceptedLate, Stop, vars
  <1>5. ~MarkDelivered
    <2>1. MarkDelivered
            => outbox'[i] \in {outbox[i], [outbox[i] EXCEPT !.delivered = TRUE]}
      BY DEF MarkDelivered
    <2> QED BY <1>0, <2>1 DEF Entry
  <1>6. RecordAttempt
    BY <1>1, <1>2, <1>4, <1>5 DEF Next, Dispatch
  <1>7. i = posting
    BY <1>0, <1>6 DEF RecordAttempt, Entry, TypeOK
  <1> QED BY <1>6, <1>7

\* A failed event waits for exactly the documented delay, counted from the start
\* of its pass, for all settings a word holds and any number of failures.
THEOREM Backoff == Spec => BackoffExact
  <1>1. ASSUME TypeOK, [Next]_vars, NEW i \in DOMAIN outbox,
               outbox'[i].attempts # outbox[i].attempts
        PROVE  LET Doubled(base, cap, n) == Least(cap, base * 2^(n - 1))
                   failures == outbox'[i].attempts
               IN /\ outbox'[i].wait + Least(age, Doubled(Base, Cap, failures))
                       = Doubled(Base, Cap, failures)
                  /\ \A n \in failures..(2 * WordBits + 1), base, cap \in 0..WordMax :
                       BackoffDelay(base, cap, n) = Doubled(base, cap, n)
    <2>1. RecordAttempt /\ i = posting
      BY <1>1, OnlyFailuresCount
    <2> DEFINE failures == outbox[i].attempts + 1
    <2>2. PICK delay \in 0..Cap :
            /\ delay = NextAttemptDelay(failures)
            /\ outbox' = [outbox EXCEPT
                   ![i].attempts = failures,
                   ![i].wait = IF delay > age THEN delay - age ELSE 0]
      BY <2>1 DEF RecordAttempt
    <2>3. /\ outbox[i].attempts \in Nat /\ outbox[i] \in Entry /\ age \in Nat
      <3>1. outbox \in Seq(Entry)
        BY <1>1 DEF TypeOK
      <3>2. outbox[i] \in Entry
        BY <3>1, ElementOfSeq, LenProperties
      <3> QED BY <1>1, <3>2, ConfigAssumption DEF Entry, TypeOK
    <2>4. /\ outbox'[i].attempts = failures
          /\ outbox'[i].wait = IF delay > age THEN delay - age ELSE 0
      BY <2>2, <2>3 DEF Entry
    <2>5. failures \in Nat \ {0}
      BY <2>3
    <2> HIDE DEF failures
    <2>6. \A n \in Nat \ {0}, base, cap \in 0..WordMax :
            BackoffDelay(base, cap, n) = Least(cap, base * 2^(n - 1))
      BY DelayExact
    <2>7. Base \in 0..WordMax /\ Cap \in 0..WordMax
      BY ConfigAssumption, WordAssumption, Word
    <2>8. delay = Least(Cap, Base * 2^(failures - 1))
      BY <2>2, <2>5, <2>6, <2>7 DEF NextAttemptDelay
    <2>9. outbox'[i].wait + Least(age, delay) = delay
      BY <2>2, <2>3, <2>4 DEF Least
    <2>10. \A n \in failures..(2 * WordBits + 1) : n \in Nat \ {0}
      BY <2>5, ConfigAssumption
    <2> QED BY <2>4, <2>6, <2>8, <2>9, <2>10
  <1>2. TypeOK /\ [Next]_vars
          => [\A i \in DOMAIN outbox : outbox'[i].attempts # outbox[i].attempts =>
                LET Doubled(base, cap, n) == Least(cap, base * 2^(n - 1))
                    failures == outbox'[i].attempts
                IN /\ outbox'[i].wait + Least(age, Doubled(Base, Cap, failures))
                        = Doubled(Base, Cap, failures)
                   /\ \A n \in failures..(2 * WordBits + 1), base, cap \in 0..WordMax :
                        BackoffDelay(base, cap, n) = Doubled(base, cap, n)]_outbox
    BY <1>1
  <1> QED BY <1>2, TypeCorrect, PTL DEF Spec, BackoffExact
=============================================================================
