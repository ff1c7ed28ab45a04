-------------------------- MODULE WebhookDispatch ---------------------------
(***************************************************************************)
(* The webhook outbox and its dispatcher (webhook.rs).  Other tasks append *)
(* events at any time.  A pass reads the undelivered events once and posts *)
(* them one by one; between a post and the write that records its outcome  *)
(* the process may stop.  Time is kept as the distance to each event's     *)
(* next_attempt_at and as the age of the running pass, because a pass      *)
(* computes retries from the time it started.                              *)
(***************************************************************************)
EXTENDS Naturals, Sequences, FiniteSets

CONSTANTS
    MaxEvents,      \* bound on the events created
    MaxAttempts,    \* webhook.max_attempts
    Base, Cap,      \* webhook.backoff_base_secs, webhook.backoff_cap_secs
    WordBits,       \* width of the unsigned integers delays are computed in (64)
    PageLimit,      \* rows undelivered_events returns (100 in the code)
    MaxStops,       \* bound on crashes and database errors
    NULL

ASSUME ConfigAssumption ==
    /\ MaxEvents \in Nat
    /\ MaxAttempts \in Nat
    /\ Base \in Nat /\ Cap \in Nat
    /\ WordBits \in Nat \ {0}
    /\ PageLimit \in Nat \ {0}
    /\ MaxStops \in Nat
    /\ NULL \notin Nat

\* The settings are words themselves.
ASSUME WordAssumption == Base < 2^WordBits /\ Cap < 2^WordBits

VARIABLES
    outbox,    \* webhook_outbox in rowid order
    batch,     \* events the running pass has yet to post
    posting,   \* the event in flight or whose outcome is being recorded
    outcome,   \* "none" while in flight, then "ok" or "error"
    age,       \* time since the pass started, up to Cap
    accepted,  \* events the receiver accepted, in that order
    late,      \* posts of each event given up on that may yet be accepted
    stops      \* crashes and database errors so far

vars == <<outbox, batch, posting, outcome, age, accepted, late, stops>>

Entry == [attempts : Nat, wait : 0..Cap, delivered : BOOLEAN]

-----------------------------------------------------------------------------
WordMax == 2^WordBits - 1

Least(a, b) == IF a < b THEN a ELSE b

\* Mutants of BackoffDelay: the shift wraps; the product wraps.
BackoffDelayShifted(base, cap, n) ==
    Least(cap, Least(WordMax, base * 2^((n - 1) % WordBits)))

BackoffDelayWrapped(base, cap, n) ==
    LET factor == IF n - 1 < WordBits THEN 2^(n - 1) ELSE WordMax
    IN Least(cap, (base * factor) % 2^WordBits)

\* A shift by the width or more gives the largest word; so does a product that
\* would overflow.
BackoffDelay(base, cap, n) ==
    LET factor == IF n - 1 < WordBits THEN 2^(n - 1) ELSE WordMax
    IN Least(cap, Least(WordMax, base * factor))

\* next_attempt_delay: what the n-th failure of an event puts its retry off by.
NextAttemptDelay(n) == BackoffDelay(Base, Cap, n)

\* Mutant of Undelivered: attempts <= max_attempts.
UndeliveredInclusive ==
    {i \in DOMAIN outbox : ~outbox[i].delivered /\ outbox[i].attempts <= MaxAttempts}

Undelivered ==
    {i \in DOMAIN outbox : ~outbox[i].delivered /\ outbox[i].attempts < MaxAttempts}

Page == {i \in Undelivered :
            Cardinality({j \in Undelivered : j < i}) < PageLimit}

\* Mutant of DuePrefix: the loop skips an event that is not due.
DueAnywhere == {i \in Page : outbox[i].wait = 0}

\* The loop breaks at the first event that is not due.
DuePrefix == {i \in Page : \A j \in Page : j <= i => outbox[j].wait = 0}

Init ==
    /\ outbox = <<>>
    /\ batch = {}
    /\ posting = NULL
    /\ outcome = "none"
    /\ age = 0
    /\ accepted = <<>>
    /\ late = [i \in 1..MaxEvents |-> 0]
    /\ stops = 0

\* apply_transition or apply_payment_transition writes an event, due at once.
CreateEvent ==
    /\ Len(outbox) < MaxEvents
    /\ outbox' = Append(outbox, [attempts |-> 0, wait |-> 0, delivered |-> FALSE])
    /\ UNCHANGED <<batch, posting, outcome, age, accepted, late, stops>>

\* A second passes.
Elapse ==
    /\ outbox' = [i \in DOMAIN outbox |->
                    [outbox[i] EXCEPT !.wait = IF @ > 0 THEN @ - 1 ELSE 0]]
    /\ age' = IF (batch # {} \/ posting # NULL) /\ age < Cap THEN age + 1 ELSE age
    /\ outbox' # outbox \/ age' # age
    /\ UNCHANGED <<batch, posting, outcome, accepted, late, stops>>

StartPass ==
    /\ batch = {} /\ posting = NULL
    /\ DuePrefix # {}
    /\ batch' = DuePrefix
    /\ age' = 0
    /\ UNCHANGED <<outbox, posting, outcome, accepted, late, stops>>

Post(i) ==
    /\ posting = NULL
    /\ i \in batch
    /\ \A j \in batch : i <= j
    /\ batch' = batch \ {i}
    /\ posting' = i
    /\ UNCHANGED <<outbox, outcome, age, accepted, late, stops>>

\* The receiver accepts the event and its 2xx arrives in time.
Answered ==
    /\ posting # NULL /\ outcome = "none"
    /\ accepted' = Append(accepted, posting)
    /\ outcome' = "ok"
    /\ UNCHANGED <<outbox, batch, posting, age, late, stops>>

\* It refuses the event or is not reached.
Refused ==
    /\ posting # NULL /\ outcome = "none"
    /\ outcome' = "error"
    /\ UNCHANGED <<outbox, batch, posting, age, accepted, late, stops>>

\* It has the event but its answer is not there in time.
TimedOut ==
    /\ posting # NULL /\ outcome = "none"
    /\ outcome' = "error"
    /\ late' = [late EXCEPT ![posting] = @ + 1]
    /\ UNCHANGED <<outbox, batch, posting, age, accepted, stops>>

\* It accepts an event nobody waits for any more, at any later time.
AcceptedLate ==
    \E i \in DOMAIN late :
        /\ late[i] > 0
        /\ late' = [late EXCEPT ![i] = @ - 1]
        /\ accepted' = Append(accepted, i)
        /\ UNCHANGED <<outbox, batch, posting, outcome, age, stops>>

\* Mutant of MarkDelivered: the outcome is kept.
MarkDeliveredStale ==
    /\ outcome = "ok"
    /\ outbox' = [outbox EXCEPT ![posting].delivered = TRUE]
    /\ posting' = NULL
    /\ UNCHANGED <<batch, outcome, age, accepted, late, stops>>

MarkDelivered ==
    /\ outcome = "ok"
    /\ outbox' = [outbox EXCEPT ![posting].delivered = TRUE]
    /\ posting' = NULL
    /\ outcome' = "none"
    /\ UNCHANGED <<batch, age, accepted, late, stops>>

\* Mutants of RecordAttempt: the pass goes on with the next event; the attempt is
\* not counted.
RecordAttemptGoesOn ==
    /\ outcome = "error"
    /\ outbox' = [outbox EXCEPT ![posting].attempts = @ + 1, ![posting].wait = Cap]
    /\ posting' = NULL
    /\ outcome' = "none"
    /\ UNCHANGED <<batch, age, accepted, late, stops>>

RecordAttemptUncounted ==
    /\ outcome = "error"
    /\ outbox' = [outbox EXCEPT ![posting].wait = Cap]
    /\ batch' = {}
    /\ posting' = NULL
    /\ outcome' = "none"
    /\ UNCHANGED <<age, accepted, late, stops>>

\* A failure is recorded and ends the pass.
RecordAttempt ==
    /\ outcome = "error"
    /\ LET n == outbox[posting].attempts + 1
       IN \E delay \in 0..Cap :
            /\ delay = NextAttemptDelay(n)
            /\ outbox' = [outbox EXCEPT
                   ![posting].attempts = n,
                   ![posting].wait = IF delay > age THEN delay - age ELSE 0]
    /\ batch' = {}
    /\ posting' = NULL
    /\ outcome' = "none"
    /\ UNCHANGED <<age, accepted, late, stops>>

\* The process stops, or a database error ends the pass: nothing is recorded.
\* A post in flight may have reached the receiver.
Stop ==
    /\ stops < MaxStops
    /\ batch # {} \/ posting # NULL
    /\ stops' = stops + 1
    /\ batch' = {}
    /\ posting' = NULL
    /\ outcome' = "none"
    /\ \/ UNCHANGED late
       \/ posting # NULL /\ outcome = "none" /\ late' = [late EXCEPT ![posting] = @ + 1]
    /\ UNCHANGED <<outbox, age, accepted>>

Dispatch ==
    \/ StartPass
    \/ \E i \in batch : Post(i)
    \/ Answered \/ Refused \/ TimedOut
    \/ MarkDelivered \/ RecordAttempt

Next == CreateEvent \/ Elapse \/ Dispatch \/ AcceptedLate \/ Stop

Spec == Init /\ [][Next]_vars

\* The loop runs for ever, a post has a timeout, and time passes.
FairSpec == Spec /\ WF_vars(Dispatch) /\ WF_vars(Elapse)

-----------------------------------------------------------------------------
(* Properties *)

\* The events an abandoned post of which may yet land.
Slow == {i \in DOMAIN late : late[i] > 0}

\* Every variable has its type; an outcome and a late post belong to an event.
TypeOK ==
    /\ outbox \in Seq(Entry)
    /\ batch \subseteq DOMAIN outbox
    /\ posting \in DOMAIN outbox \cup {NULL}
    /\ outcome \in {"none", "ok", "error"}
    /\ posting = NULL => outcome = "none"
    /\ age \in 0..Cap
    /\ accepted \in Seq(DOMAIN outbox)
    /\ late \in [1..MaxEvents -> Nat]
    /\ DOMAIN outbox \subseteq DOMAIN late
    /\ Slow \subseteq DOMAIN outbox
    /\ stops \in 0..MaxStops

Parked(i) == outbox[i].attempts >= MaxAttempts

Acceptances(i) == {k \in DOMAIN accepted : accepted[k] = i}

\* docs/webhooks.md:95, "Strict FIFO": the receiver first gets an event only
\* after every older one, except those parked; retries, lost and late answers,
\* crashes and events created during a pass do not reorder them.
FirstInFirstOut ==
    \A k \in DOMAIN accepted : \A i \in 1..(accepted[k] - 1) :
        Parked(i) \/ \E l \in 1..(k - 1) : accepted[l] = i

\* Duplicates are bounded: the receiver gets an event at most max_attempts
\* times, plus once for every crash that hit between a post and its record.
DuplicatesBounded ==
    \A i \in DOMAIN outbox : Cardinality(Acceptances(i)) <= MaxAttempts + stops

\* docs/webhooks.md:54: the delay doubles from the base up to the cap.  A failed
\* event waits for exactly that, counted from the start of its pass, and so it
\* will after any number of further failures and for any settings a word holds:
\* no overflow makes a retry due early.
BackoffExact ==
    [][\A i \in DOMAIN outbox : outbox'[i].attempts # outbox[i].attempts =>
        LET Doubled(base, cap, n) == Least(cap, base * 2^(n - 1))
            failures == outbox'[i].attempts
        IN /\ outbox'[i].wait + Least(age, Doubled(Base, Cap, failures))
                = Doubled(Base, Cap, failures)
           /\ \A n \in failures..(2 * WordBits + 1), base, cap \in 0..WordMax :
                BackoffDelay(base, cap, n) = Doubled(base, cap, n)]_outbox

\* Every event is delivered or parked in the end, whatever the receiver does.
EventuallyClosed ==
    \A i \in 1..MaxEvents :
        (i \in DOMAIN outbox)
        ~> (i \in DOMAIN outbox /\ (outbox[i].delivered \/ Parked(i)))

\* What an event is to the receiver: done once delivered_at is set, parked once
\* its attempts reach max_attempts.
EventState ==
    [i \in DOMAIN outbox |->
        IF outbox[i].delivered THEN "done"
        ELSE IF Parked(i) THEN "parked" ELSE "open"]

Ordered == INSTANCE OrderedDelivery
               WITH state <- EventState, accepted <- accepted, slow <- Slow

\* The dispatcher delivers in order: it implements OrderedDelivery.
DeliversInOrder == Ordered!Spec
=============================================================================
