-------------------------- MODULE Companion_proofs --------------------------
(***************************************************************************)
(* Proofs about the process and its requests: it serves with sound         *)
(* settings only, hooks run for the calls the node executed and for no     *)
(* others, the token guards, health was true, and nothing is left behind.  *)
(***************************************************************************)
EXTENDS Companion, SequenceTheorems, WellFoundedInduction, TLAPS

-----------------------------------------------------------------------------
(* The settings *)

\* Overriding settings gives settings.
LEMMA Overridden ==
  ASSUME NEW file \in Config, NEW args \in Overrides
  PROVE  ApplyOverrides(file, args) \in Config
  <1>1. /\ Given(args.listen_port, file.service.listen_port) \in Nat
        /\ Given(args.rln_url, file.rln.base_url) \in Urls
        /\ Given(args.db_path, file.database.path) \in Text
    <2>1. ASSUME NEW S, NEW s \in S, NEW given \in SUBSET S PROVE Given(given, s) \in S
      BY DEF Given
    <2>2. /\ file.service.listen_port \in Nat /\ args.listen_port \in SUBSET Nat
          /\ file.rln.base_url \in Urls /\ args.rln_url \in SUBSET Urls
          /\ file.database.path \in Text /\ args.db_path \in SUBSET Text
      <3> HIDE DEF Urls
      <3> QED BY DEF Config, Overrides
    <2> QED BY <2>1, <2>2
  <1> HIDE DEF Urls, Given
  <1> QED BY <1>1 DEF Config, ApplyOverrides

\* The default settings are settings.
LEMMA DefaultTyped == Default \in Config
  <1>1. Url("http", "v4", "loopback") \in Urls
    <2>1. [family |-> "v4", is |-> "loopback"] \in Host
      BY DEF Host, Address4
    <2> HIDE DEF Host
    <2> QED BY <2>1 DEF Url, Urls, Scheme
  <1>2. NoUrl \in Urls
    <2> HIDE DEF Host
    <2> QED BY DEF NoUrl, Urls, Scheme, None
  <1> HIDE DEF Urls, Url, NoUrl
  <1>3. None \in Text /\ Unset \in Text /\ "companion.sqlite" \in Text
    BY TextAssumption
  <1>4. /\ Service \in [listen_port : Nat, auth_token : Text]
        /\ Sync \in [full_interval_secs : Nat, page_size : Nat]
        /\ Database \in [path : Text]
    <2>1. Service \in [listen_port : Nat, auth_token : Text]
      BY <1>3 DEF Service
    <2>2. Sync \in [full_interval_secs : Nat, page_size : Nat]
      BY DEF Sync
    <2>3. Database \in [path : Text]
      BY <1>3 DEF Database
    <2> QED BY <2>1, <2>2, <2>3
  <1>5. Rln \in [base_url : Urls, token : Text, network : Text,
                 request_timeout_secs : Nat, proxy_timeout_secs : Nat,
                 proxy_max_body_mb : Nat, allow_public_url : BOOLEAN]
    BY <1>1, <1>3 DEF Rln
  <1>6. Engine \in [refresh_interval_secs : Nat, skip_sync : BOOLEAN,
                    reap_interval_secs : Nat, payments_poll_interval_secs : Nat,
                    reconcile_backoff_secs : Nat, reconcile_max_wait_secs : Nat]
    BY DEF Engine
  <1>7. Webhook \in [url : Urls, secret : Text, max_attempts : Nat,
                     backoff_base_secs : Nat, backoff_cap_secs : Nat,
                     dispatch_interval_secs : Nat]
    BY <1>2, <1>3 DEF Webhook
  <1> QED BY <1>4, <1>5, <1>6, <1>7 DEF Default, Config

\* What the first complaint says is a complaint.
LEMMA NoComplaint ==
  ASSUME NEW c, Validate(c) = "Ok"
  PROVE  \A k \in 1..6 : ~Checks(c)[k].complains
  <1> DEFINE failed == {k \in 1..6 : Checks(c)[k].complains}
  <1>1. DOMAIN Checks(c) = 1..6
    BY DEF Checks
  <1>2. Validate(c) = IF failed = {} THEN "Ok" ELSE Checks(c)[Min(failed)].error
    <2> DEFINE all == {k \in DOMAIN Checks(c) : Checks(c)[k].complains}
    <2>1. all = failed
      BY <1>1
    <2>2. Validate(c) = IF all = {} THEN "Ok" ELSE Checks(c)[Min(all)].error
      BY DEF Validate
    <2> HIDE DEF all, failed
    <2> QED BY <2>1, <2>2
  <1>3. \A k \in 1..6 : Checks(c)[k].error # "Ok"
    <2>1. /\ Checks(c)[1].error # "Ok" /\ Checks(c)[2].error # "Ok"
          /\ Checks(c)[3].error # "Ok" /\ Checks(c)[4].error # "Ok"
          /\ Checks(c)[5].error # "Ok" /\ Checks(c)[6].error # "Ok"
      BY DEF Checks
    <2> QED BY <2>1
  <1>4. SUFFICES ASSUME failed # {} PROVE FALSE
    OBVIOUS
  <1>5. \E k \in failed : \A j \in failed : k <= j
    <2>1. failed \subseteq {1, 2, 3, 4, 5, 6}
      OBVIOUS
    <2> HIDE DEF failed
    <2>2. CASE 1 \in failed
      BY <2>1, <2>2
    <2>3. CASE 1 \notin failed /\ 2 \in failed
      BY <2>1, <2>3
    <2>4. CASE 1 \notin failed /\ 2 \notin failed /\ 3 \in failed
      BY <2>1, <2>4
    <2>5. CASE failed \subseteq {4, 5, 6}
      <3>1. CASE 4 \in failed
        BY <2>5, <3>1
      <3>2. CASE 4 \notin failed /\ 5 \in failed
        BY <2>5, <3>2
      <3>3. CASE failed = {6}
        BY <3>3
      <3> QED BY <1>4, <2>5, <3>1, <3>2, <3>3
    <2> QED BY <2>1, <2>2, <2>3, <2>4, <2>5
  <1>6. Min(failed) \in failed
    <2> HIDE DEF failed
    <2> QED BY <1>5 DEF Min
  <1>7. Min(failed) \in 1..6
    BY <1>6
  <1> HIDE DEF failed
  <1> QED BY <1>2, <1>3, <1>4, <1>7

\* The settings a process may start with.
Sound(c) ==
    /\ c.webhook.url.parses /\ c.webhook.url.scheme \in {"http", "https"}
    /\ c.webhook.secret # Unset
    /\ c.service.listen_port > 0
    /\ \A i \in {c.engine.refresh_interval_secs, c.engine.reap_interval_secs,
                 c.engine.payments_poll_interval_secs,
                 c.engine.reconcile_backoff_secs, c.sync.full_interval_secs,
                 c.webhook.dispatch_interval_secs} : i > 0
    /\ c.rln.base_url.scheme \in {"http", "https"}
    /\ c.rln.allow_public_url \/ c.rln.base_url.host \in LocalHosts

\* validate lets sound settings pass only.
LEMMA Validated ==
  ASSUME NEW c \in Config, Validate(c) = "Ok"
  PROVE  Sound(c)
  <1>1. /\ ~(~c.webhook.url.text \/ c.webhook.secret = Unset)
        /\ ~(~c.webhook.url.parses \/ ~IsHttp(c.webhook.url))
        /\ ~(c.service.listen_port = 0)
        /\ ~(\E k \in DOMAIN Intervals(c) : Intervals(c)[k] = 0)
        /\ ~(~c.rln.base_url.parses \/ ~IsHttp(c.rln.base_url))
        /\ ~(/\ ~c.rln.allow_public_url
             /\ ~IsPrivateHost(c.rln.base_url.host))
    <2>1. \A k \in 1..6 : ~Checks(c)[k].complains
      BY NoComplaint
    <2>2. /\ ~Checks(c)[1].complains /\ ~Checks(c)[2].complains /\ ~Checks(c)[3].complains
          /\ ~Checks(c)[4].complains /\ ~Checks(c)[5].complains /\ ~Checks(c)[6].complains
      BY <2>1
    <2> QED BY <2>2 DEF Checks
  <1>2. c.service.listen_port > 0
    <2>1. c.service.listen_port \in Nat
      BY DEF Config
    <2>2. c.service.listen_port # 0
      BY <1>1
    <2> QED BY <2>1, <2>2
  <1>3. \A i \in {c.engine.refresh_interval_secs, c.engine.reap_interval_secs,
                  c.engine.payments_poll_interval_secs,
                  c.engine.reconcile_backoff_secs, c.sync.full_interval_secs,
                  c.webhook.dispatch_interval_secs} : i > 0
    <2>1. /\ c.engine.refresh_interval_secs \in Nat /\ c.engine.reap_interval_secs \in Nat
          /\ c.engine.payments_poll_interval_secs \in Nat
          /\ c.engine.reconcile_backoff_secs \in Nat /\ c.sync.full_interval_secs \in Nat
          /\ c.webhook.dispatch_interval_secs \in Nat
      BY DEF Config
    <2>2. \A k \in 1..6 : Intervals(c)[k] # 0
      <3>1. DOMAIN Intervals(c) = 1..6
        BY DEF Intervals
      <3> QED BY <1>1, <3>1
    <2>3. /\ Intervals(c)[1] # 0 /\ Intervals(c)[2] # 0 /\ Intervals(c)[3] # 0
          /\ Intervals(c)[4] # 0 /\ Intervals(c)[5] # 0 /\ Intervals(c)[6] # 0
      BY <2>2
    <2>4. /\ c.engine.refresh_interval_secs # 0 /\ c.engine.reap_interval_secs # 0
          /\ c.engine.payments_poll_interval_secs # 0
          /\ c.engine.reconcile_backoff_secs # 0 /\ c.sync.full_interval_secs # 0
          /\ c.webhook.dispatch_interval_secs # 0
      BY <2>3 DEF Intervals
    <2> QED BY <2>1, <2>4
  <1>4. IsPrivateHost(c.rln.base_url.host) => c.rln.base_url.host \in LocalHosts
    <2>1. c.rln.base_url \in Urls
      <3> HIDE DEF Urls
      <3> QED BY DEF Config
    <2>2. c.rln.base_url.host \in Host \cup {NoUrl.host}
      BY <2>1 DEF Urls
    <2>3. ASSUME NEW h \in Host, IsPrivateHost(h) PROVE h \in LocalHosts
      <3>1. /\ h = [family |-> h.family, is |-> h.is]
            /\ h.family \in {"v4", "v6", "name"}
        BY DEF Host
      <3>2. \/ h.family \in {"v4", "v6"} /\ h.is \in {"loopback", "private", "unique_local",
                   "link_local", "mapped_loopback", "mapped_private"}
            \/ h.family = "name" /\ h.is \in {"localhost", "bare"}
        BY <2>3, <3>1 DEF IsPrivateHost
      <3>3. CASE h.family = "name"
        BY <3>1, <3>2, <3>3 DEF LocalHosts
      <3>4. CASE h.family = "v4"
        BY <3>1, <3>2, <3>4 DEF LocalHosts
      <3>5. CASE h.family = "v6"
        BY <3>1, <3>2, <3>5 DEF LocalHosts
      <3> QED BY <3>1, <3>3, <3>4, <3>5
    <2>4. ~IsPrivateHost(NoUrl.host)
      BY DEF IsPrivateHost, NoUrl, None
    <2> QED BY <2>2, <2>3, <2>4
  <1> QED BY <1>1, <1>2, <1>3, <1>4 DEF Sound, IsHttp

-----------------------------------------------------------------------------
(* The invariants *)

Stage == {"new", "local", "health", "queue", "body", "sent", "hook", "note",
          "answered", "gone"}

\* The stages of a request that is forwarded or about to be.
Proxying == {"queue", "body", "sent", "hook", "note"}

Asked == UNION {Asks[q] : q \in Requests}

Typed ==
    /\ phase \in {"load", "validate", "build", "probe", "bind", "serving",
                  "draining", "stopped", "failed"}
    /\ cfg \in Config
    /\ ask \in [Requests -> Asked \cup {NULL}]
    /\ stage \in [Requests -> Stage]
    /\ inflight \subseteq Requests /\ executed \subseteq Requests
    /\ inflight \cap executed = {}
    /\ reply \in [Requests -> Replies \cup {NoReply}]
    /\ hook \in [Requests -> {"none", "ran", "failed"}]
    /\ resp \in [Requests -> [status : Nat, by : {"nobody", "companion", "node"}]]
    /\ lock \in Requests \cup {Background, NULL}
    /\ believed \in BOOLEAN /\ parked \in BOOLEAN
    /\ got \in [Requests -> Seq(BOOLEAN)]
    /\ moments \in [Requests -> SUBSET {"ok", "degraded"}]
    /\ faults \in 0..MaxFaults

\* How a request got where it is.
Came(q) ==
    /\ ask[q] \in Asks[q] \cup {NULL}
    /\ (ask[q] = NULL) <=> (stage[q] = "new")
    /\ stage[q] = "local" => \/ ~Allows(Route(q), ask[q].method)
                             \/ Route(q) \in {"protected", "notfound"}
    /\ stage[q] = "health" => Route(q) = "health"
    /\ stage[q] \in Proxying => Proxied(Route(q))
    /\ q \in inflight \cup executed => stage[q] \in {"sent", "hook", "note", "answered", "gone"}
    /\ q \in executed => reply[q] \in Replies
    /\ (resp[q] = NoAnswer) <=> (stage[q] # "answered")
    /\ resp[q].by = "node" => q \in executed

\* A hook is at work, or has been, for a call that went well.
Hooked(q) ==
    /\ stage[q] \in {"hook", "note"} =>
         /\ q \in executed
         /\ (stage[q] = "hook") <=> (Route(q) \in Intercepted /\ IsSuccess(reply[q]))
    /\ hook[q] # "none" => stage[q] = "answered"
    /\ stage[q] = "answered" =>
         ((hook[q] # "none")
          <=> /\ Route(q) \in Intercepted /\ q \in executed
              /\ resp[q].by = "node" /\ resp[q].status \in 200..299)

Refused(q) ==
    /\ Route(q) = "protected"
    /\ ~Authorized(ask[q].header, cfg.service.auth_token)

ReqInv(q) ==
    /\ Came(q)
    /\ Hooked(q)
    /\ stage[q] = "answered" =>
          (resp[q] = [status |-> 401, by |-> "companion"] <=> Refused(q))

\* What health has read so far is all it needs to know of the moments.
HealthInv(q) ==
    /\ Len(got[q]) <= 2
    /\ stage[q] = "new" => got[q] = <<>>
    /\ stage[q] = "health" => HealthNow \in moments[q]
    /\ stage[q] = "health" /\ (\E k \in DOMAIN got[q] : ~got[q][k])
         => "degraded" \in moments[q]
    /\ stage[q] = "health" /\ (\A k \in DOMAIN got[q] : got[q][k])
         => \/ Len(got[q]) = 0
            \/ Len(got[q]) = 1 /\ parked
            \/ "ok" \in moments[q]
    /\ stage[q] = "answered" /\ Route(q) = "health" /\ resp[q].status = 200
         => Told(q) \in moments[q]

PhaseInv ==
    /\ phase \in {"load", "validate", "build", "probe", "bind", "failed"}
         => \A q \in Requests : stage[q] = "new"
    /\ lock \in Requests => Open(lock)
    /\ phase = "stopped" => \A q \in Requests : ~Open(q)
    /\ phase \notin {"load", "validate", "failed"} => Sound(cfg)

Inv ==
    /\ Typed
    /\ PhaseInv
    /\ \A q \in Requests : ReqInv(q) /\ HealthInv(q)

-----------------------------------------------------------------------------
(* What does not concern a request leaves it alone *)

SameRequest(q) ==
    /\ ask'[q] = ask[q] /\ stage'[q] = stage[q]
    /\ q \in inflight' => q \in inflight
    /\ (q \in executed') <=> (q \in executed)
    /\ q \in executed => reply'[q] = reply[q]
    /\ hook'[q] = hook[q] /\ resp'[q] = resp[q]

LEMMA RequestKept ==
  ASSUME NEW q \in Requests, ReqInv(q), SameRequest(q),
         cfg' = cfg \/ stage[q] = "new"
  PROVE  ReqInv(q)'
  <1>1. Came(q)'
    BY DEF ReqInv, Came, SameRequest, Route
  <1>2. Hooked(q)'
    <2>1. stage[q] \in {"hook", "note"} => q \in executed
      BY DEF ReqInv, Hooked
    <2> QED BY <2>1 DEF ReqInv, Hooked, SameRequest, Route
  <1>3. stage'[q] = "answered" =>
          (resp'[q] = [status |-> 401, by |-> "companion"] <=> Refused(q)')
    BY DEF ReqInv, SameRequest, Refused, Route
  <1> QED BY <1>1, <1>2, <1>3 DEF ReqInv

\* The mirror of what health reads grows moments, and only while health reads.
SameHealth(q) ==
    /\ ask'[q] = ask[q] /\ resp'[q] = resp[q]
    /\ stage'[q] = "health" => stage[q] = "health"
    /\ stage'[q] = "answered" => stage[q] = "answered"
    /\ stage'[q] = "new" => stage[q] = "new"
    /\ got'[q] = got[q]
    /\ parked => parked'
    /\ moments[q] \subseteq moments'[q]
    /\ stage'[q] = "health" => HealthNow' \in moments'[q]

LEMMA HealthKept ==
  ASSUME NEW q \in Requests, HealthInv(q), SameHealth(q)
  PROVE  HealthInv(q)'
  <1>1. Told(q)' = Told(q)
    BY DEF SameHealth, Told
  <1>2. Route(q)' = Route(q)
    BY DEF SameHealth, Route
  <1> QED BY <1>1, <1>2 DEF HealthInv, SameHealth

LEMMA QuietHealth ==
  ASSUME NEW q \in Requests, HealthInv(q), UNCHANGED mirrorVars,
         ask'[q] = ask[q], resp'[q] = resp[q], got'[q] = got[q], moments'[q] = moments[q],
         stage'[q] \in {"new", "health", "answered"} => stage[q] = stage'[q]
  PROVE  HealthInv(q)'
  <1>1. HealthNow' = HealthNow
    BY DEF HealthNow, mirrorVars
  <1>2. SameHealth(q)
    BY <1>1 DEF SameHealth, HealthInv, mirrorVars
  <1> QED BY <1>2, HealthKept

\* A step of one request that leaves the settings and the other requests alone.
LEMMA OneRequest ==
  ASSUME Inv, NEW q \in Requests, cfg' = cfg, Typed', PhaseInv',
         \A p \in Requests \ {q} : SameRequest(p),
         \A p \in Requests \ {q} : SameHealth(p),
         ReqInv(q)', HealthInv(q)'
  PROVE  Inv'
  <1>1. ASSUME NEW p \in Requests \ {q} PROVE ReqInv(p)'
    BY RequestKept DEF Inv
  <1>2. ASSUME NEW p \in Requests \ {q} PROVE HealthInv(p)'
    BY HealthKept DEF Inv
  <1> QED BY <1>1, <1>2 DEF Inv

\* The others do not notice as long as nobody writes what health reads.
LEMMA OthersQuiet ==
  ASSUME Inv, NEW q \in Requests, UNCHANGED mirrorVars,
         \A p \in Requests \ {q} : SameRequest(p),
         \A p \in Requests \ {q} : got'[p] = got[p] /\ moments'[p] = moments[p]
  PROVE  \A p \in Requests \ {q} : SameHealth(p)
  <1>1. HealthNow' = HealthNow
    BY DEF HealthNow, mirrorVars
  <1> QED BY <1>1 DEF Inv, SameRequest, SameHealth, HealthInv, mirrorVars

\* A handler that answers lets go of the lock.
LEMMA Answering ==
  ASSUME Typed, PhaseInv, NEW q \in Requests, Open(q),
         NEW status \in Nat, NEW by \in {"companion", "node"}, Respond(q, status, by),
         phase' = phase, cfg' = cfg
  PROVE  /\ stage' \in [Requests -> Stage] /\ stage'[q] = "answered"
         /\ resp' \in [Requests -> [status : Nat, by : {"nobody", "companion", "node"}]]
         /\ resp'[q] = [status |-> status, by |-> by]
         /\ lock' \in Requests \cup {Background, NULL}
         /\ \A p \in Requests \ {q} : stage'[p] = stage[p] /\ resp'[p] = resp[p]
         /\ PhaseInv'
  <1>1. stage' = [stage EXCEPT ![q] = "answered"]
    BY DEF Respond, MoveTo
  <1>2. resp' = [resp EXCEPT ![q] = [status |-> status, by |-> by]]
    BY DEF Respond
  <1>3. lock' = IF lock = q THEN NULL ELSE lock
    BY DEF Respond, DropGuard
  <1>4. stage \in [Requests -> Stage]
    BY DEF Typed
  <1>5. resp \in [Requests -> [status : Nat, by : {"nobody", "companion", "node"}]]
    BY DEF Typed
  <1>6. stage' \in [Requests -> Stage] /\ stage'[q] = "answered"
    BY <1>1, <1>4 DEF Stage
  <1>7. resp' \in [Requests -> [status : Nat, by : {"nobody", "companion", "node"}]]
    <2>1. [status |-> status, by |-> by] \in [status : Nat, by : {"nobody", "companion", "node"}]
      OBVIOUS
    <2> QED BY <1>2, <1>5, <2>1
  <1>8. resp'[q] = [status |-> status, by |-> by]
    BY <1>2, <1>5
  <1>9. lock' \in Requests \cup {Background, NULL}
    BY <1>3 DEF Typed
  <1>10. \A p \in Requests \ {q} : stage'[p] = stage[p] /\ resp'[p] = resp[p]
    BY <1>1, <1>2, <1>4, <1>5
  <1>11. PhaseInv'
    <2>1. phase' \in {"load", "validate", "build", "probe", "bind", "failed"}
            => \A p \in Requests : stage'[p] = "new"
      BY DEF PhaseInv, Open
    <2>2. lock' \in Requests => Open(lock)'
      <3>1. ASSUME lock' \in Requests PROVE lock' = lock /\ lock' # q
        BY <1>3, <3>1, CompanionAssumption
      <3> QED BY <3>1, <1>10 DEF PhaseInv, Open
    <2>3. phase' = "stopped" => \A p \in Requests : ~Open(p)'
      BY <1>6, <1>10 DEF PhaseInv, Open
    <2>4. phase' \notin {"load", "validate", "failed"} => Sound(cfg')
      BY DEF PhaseInv
    <2> QED BY <2>1, <2>2, <2>3, <2>4 DEF PhaseInv
  <1> QED BY <1>6, <1>7, <1>8, <1>9, <1>10, <1>11

-----------------------------------------------------------------------------
(* Requests *)

\* What is typed of every step of a request.
TypedRest ==
    /\ phase' = phase /\ cfg' = cfg /\ faults' \in 0..MaxFaults

LEMMA ArriveKeeps ==
  ASSUME Inv, NEW q \in Requests, Arrive(q)
  PROVE  Inv'
  <1>1. PICK a \in Asks[q] :
          /\ ask' = [ask EXCEPT ![q] = a]
          /\ IF RouteOf(a.path) = "health" /\ Allows(RouteOf(a.path), a.method)
             THEN MoveTo(q, "health") /\ moments' = [moments EXCEPT ![q] = {HealthNow}]
             ELSE /\ MoveTo(q, IF ~Allows(RouteOf(a.path), a.method)
                                  \/ ~Proxied(RouteOf(a.path)) THEN "local"
                               ELSE IF RouteOf(a.path) \in Serialized THEN "queue" ELSE "body")
                  /\ moments' = moments
    BY DEF Arrive
  <1>2. /\ phase = "serving" /\ stage[q] = "new"
        /\ phase' = phase /\ cfg' = cfg /\ faults' = faults
        /\ inflight' = inflight /\ executed' = executed /\ reply' = reply
        /\ hook' = hook /\ resp' = resp /\ lock' = lock /\ got' = got
        /\ UNCHANGED mirrorVars
    BY DEF Arrive
  <1> DEFINE route == RouteOf(a.path)
  <1>t. Typed
    BY DEF Inv
  <1>3. a \in Asked /\ a # NULL
    BY CompanionAssumption DEF Asked
  <1>4. ask' \in [Requests -> Asked \cup {NULL}] /\ ask'[q] = a
    BY <1>1, <1>3, <1>t DEF Typed
  <1>5. Route(q)' = route
    BY <1>4 DEF Route
  <1>6. PICK to \in {"health", "local", "queue", "body"} :
          /\ stage' = [stage EXCEPT ![q] = to]
          /\ to = "health" => /\ route = "health"
                              /\ moments' = [moments EXCEPT ![q] = {HealthNow}]
          /\ to # "health" => moments' = moments
          /\ to = "local" => ~Allows(route, a.method) \/ route \in {"protected", "notfound"}
          /\ to \in {"queue", "body"} => Proxied(route)
    BY <1>1 DEF MoveTo, Proxied
  <1> HIDE DEF route
  <1>7. /\ stage' \in [Requests -> Stage] /\ stage'[q] = to
        /\ \A p \in Requests \ {q} : stage'[p] = stage[p] /\ ask'[p] = ask[p]
    BY <1>1, <1>6, <1>t DEF Typed, Stage
  <1>8. HealthNow \in {"ok", "degraded"} /\ HealthNow' = HealthNow
    BY <1>2 DEF HealthNow, mirrorVars
  <1>9. /\ moments' \in [Requests -> SUBSET {"ok", "degraded"}]
        /\ \A p \in Requests \ {q} : moments'[p] = moments[p]
        /\ to = "health" => moments'[q] = {HealthNow}
    <2>1. moments \in [Requests -> SUBSET {"ok", "degraded"}]
      BY <1>t DEF Typed
    <2> QED BY <1>6, <1>8, <2>1
  <1>10. Typed'
    BY <1>2, <1>4, <1>7, <1>9, <1>t DEF Typed, mirrorVars
  <1>11. PhaseInv'
    <2>1. PhaseInv
      BY DEF Inv
    <2> QED BY <1>2, <1>7, <2>1 DEF PhaseInv, Open
  <1>12. \A p \in Requests \ {q} : SameRequest(p)
    BY <1>2, <1>7 DEF SameRequest
  <1>13. \A p \in Requests \ {q} : SameHealth(p)
    BY <1>2, <1>9, <1>12, OthersQuiet
  <1>r. ReqInv(q) /\ HealthInv(q)
    BY DEF Inv
  <1>14. ReqInv(q)'
    <2>1. Came(q)'
      BY <1>r, <1>2, <1>3, <1>4, <1>5, <1>6, <1>7 DEF ReqInv, Came, Proxying
    <2>2. Hooked(q)'
      BY <1>r, <1>2, <1>7 DEF ReqInv, Hooked
    <2> QED BY <1>7, <2>1, <2>2 DEF ReqInv
  <1>15. HealthInv(q)'
    <2>1. got'[q] = <<>>
      BY <1>r, <1>2 DEF HealthInv
    <2>2. stage'[q] \notin {"new", "answered"}
      BY <1>7
    <2> QED BY <1>7, <1>8, <1>9, <2>1, <2>2 DEF HealthInv
  <1> QED BY <1>2, <1>10, <1>11, <1>12, <1>13, <1>14, <1>15, OneRequest

\* An answer of the companion's own.
LEMMA CompanionAnswers ==
  ASSUME Inv, NEW q \in Requests, NEW status \in Nat,
         Open(q), Respond(q, status, "companion"),
         phase' = phase, cfg' = cfg, ask' = ask, executed' = executed, reply' = reply,
         hook' = hook, faults' = faults, UNCHANGED <<mirrorVars, healthVars>>,
         inflight' \subseteq inflight, inflight \ {q} \subseteq inflight',
         status = 401 <=> Refused(q),
         Route(q) = "health" /\ status = 200 => Told(q) \in moments[q]
  PROVE  Inv'
  <1>t. Typed /\ PhaseInv /\ ReqInv(q) /\ HealthInv(q)
    BY DEF Inv
  <1>1. /\ stage' \in [Requests -> Stage] /\ stage'[q] = "answered"
        /\ resp' \in [Requests -> [status : Nat, by : {"nobody", "companion", "node"}]]
        /\ resp'[q] = [status |-> status, by |-> "companion"]
        /\ lock' \in Requests \cup {Background, NULL}
        /\ \A p \in Requests \ {q} : stage'[p] = stage[p] /\ resp'[p] = resp[p]
        /\ PhaseInv'
    BY <1>t, Answering
  <1>2. resp'[q] # NoAnswer /\ resp'[q].by = "companion" /\ resp'[q].status = status
    BY <1>1 DEF NoAnswer
  <1>3. Typed'
    BY <1>t, <1>1 DEF Typed, mirrorVars, healthVars
  <1>4. \A p \in Requests \ {q} : SameRequest(p)
    BY <1>1 DEF SameRequest
  <1>5. \A p \in Requests \ {q} : SameHealth(p)
    BY <1>4, OthersQuiet DEF healthVars
  <1>6. Route(q)' = Route(q) /\ Told(q)' = Told(q) /\ Refused(q)' = Refused(q)
    BY DEF Route, Told, Refused, healthVars
  <1>7. ReqInv(q)'
    <2>1. Came(q)'
      <3>1. stage[q] # "new" /\ stage[q] # "answered"
        BY DEF Open
      <3>2. q \in executed => reply[q] \in Replies
        BY <1>t DEF ReqInv, Came
      <3> QED BY <1>t, <1>1, <1>2, <1>6, <3>1, <3>2 DEF ReqInv, Came, Proxying
    <2>2. Hooked(q)'
      <3>1. hook'[q] = "none"
        BY <1>t DEF ReqInv, Hooked, Open, Typed
      <3> QED BY <1>1, <1>2, <3>1 DEF Hooked
    <2>3. resp'[q] = [status |-> 401, by |-> "companion"] <=> Refused(q)'
      BY <1>1, <1>6
    <2> QED BY <2>1, <2>2, <2>3 DEF ReqInv
  <1>8. HealthInv(q)'
    BY <1>t, <1>1, <1>2, <1>6 DEF HealthInv, healthVars
  <1> QED BY <1>3, <1>1, <1>4, <1>5, <1>7, <1>8, OneRequest

LEMMA LocalKeeps ==
  ASSUME Inv, NEW q \in Requests, Local(q)
  PROVE  Inv'
  <1>1. PICK status \in LocalAnswers(Route(q), ask[q]) : Respond(q, status, "companion")
    BY DEF Local
  <1>2. Open(q)
    BY DEF Local, Open
  <1>3. ~Allows(Route(q), ask[q].method) \/ Route(q) \in {"protected", "notfound"}
    BY DEF Local, Inv, ReqInv, Came
  <1>4. status \in Nat
    BY <1>1 DEF LocalAnswers, EndpointAnswers
  <1>5. status = 401 <=> Refused(q)
    BY <1>1 DEF LocalAnswers, EndpointAnswers, Refused
  <1>6. Route(q) = "health" => status # 200
    <2>1. SUFFICES ASSUME Route(q) = "health" PROVE status # 200
      OBVIOUS
    <2>2. Route(q) = "health" => Allows(Route(q), ask[q].method) \/ status = 405
      BY <1>1, <2>1 DEF LocalAnswers
    <2>3. ~Allows(Route(q), ask[q].method)
      BY <1>3, <2>1
    <2> QED BY <2>1, <2>2, <2>3
  <1>7. /\ phase' = phase /\ cfg' = cfg /\ ask' = ask /\ executed' = executed
        /\ reply' = reply /\ hook' = hook /\ faults' = faults /\ inflight' = inflight
        /\ UNCHANGED <<mirrorVars, healthVars>>
    BY DEF Local
  <1> QED BY <1>1, <1>2, <1>4, <1>5, <1>6, <1>7, CompanionAnswers

LEMMA HealthReadKeeps ==
  ASSUME Inv, NEW q \in Requests, HealthRead(q)
  PROVE  Inv'
  <1> DEFINE b == HealthReads[Len(got[q]) + 1]
  <1>t. Typed /\ PhaseInv /\ ReqInv(q) /\ HealthInv(q)
    BY DEF Inv
  <1>1. /\ stage[q] = "health" /\ Len(got[q]) < 2
        /\ got' = [got EXCEPT ![q] = Append(@, b)]
        /\ phase' = phase /\ cfg' = cfg /\ ask' = ask /\ stage' = stage
        /\ inflight' = inflight /\ executed' = executed /\ reply' = reply
        /\ hook' = hook /\ resp' = resp /\ lock' = lock /\ faults' = faults
        /\ moments' = moments /\ UNCHANGED mirrorVars
    BY DEF HealthRead, HealthReads
  <1>2. got \in [Requests -> Seq(BOOLEAN)] /\ Len(got[q]) \in {0, 1}
    <2>1. got \in [Requests -> Seq(BOOLEAN)]
      BY <1>t DEF Typed
    <2>2. Len(got[q]) \in Nat
      BY <2>1, LenProperties
    <2>3. Len(got[q]) < 2
      BY <1>1
    <2>4. Len(got[q]) \in {0, 1}
      <3>1. \A n \in Nat : n < 2 => n \in {0, 1}
        OBVIOUS
      <3> QED BY <2>2, <2>3, <3>1
    <2> QED BY <2>1, <2>4
  <1>3. /\ b \in BOOLEAN
        /\ Len(got[q]) = 0 => b = believed
        /\ Len(got[q]) = 1 => b = ~parked
    <2>1. HealthReads[1] = believed /\ HealthReads[2] = (~parked)
      BY DEF HealthReads
    <2>2. believed \in BOOLEAN /\ parked \in BOOLEAN
      BY <1>t DEF Typed
    <2>3. CASE Len(got[q]) = 0
      <3>1. b = HealthReads[1]
        BY <2>3
      <3> QED BY <2>1, <2>2, <2>3, <3>1
    <2>4. CASE Len(got[q]) = 1
      <3>1. b = HealthReads[2]
        BY <2>4
      <3> QED BY <2>1, <2>2, <2>4, <3>1
    <2> QED BY <1>2, <2>3, <2>4
  <1> HIDE DEF b
  <1>4. /\ got'[q] \in Seq(BOOLEAN) /\ Len(got'[q]) = Len(got[q]) + 1
        /\ \A k \in 1..Len(got[q]) : got'[q][k] = got[q][k]
        /\ got'[q][Len(got[q]) + 1] = b
        /\ DOMAIN got'[q] = 1..(Len(got[q]) + 1)
        /\ DOMAIN got[q] = 1..Len(got[q])
    <2>1. got'[q] = Append(got[q], b)
      BY <1>1, <1>2
    <2>2. got[q] \in Seq(BOOLEAN)
      BY <1>2
    <2>3. /\ Append(got[q], b) \in Seq(BOOLEAN)
          /\ Len(Append(got[q], b)) = Len(got[q]) + 1
          /\ \A k \in 1..Len(got[q]) : Append(got[q], b)[k] = got[q][k]
          /\ Append(got[q], b)[Len(got[q]) + 1] = b
      BY <1>3, <2>2, AppendProperties
    <2>4. /\ DOMAIN got[q] = 1..Len(got[q])
          /\ DOMAIN Append(got[q], b) = 1..Len(Append(got[q], b))
      BY <2>2, <2>3, LenProperties
    <2> QED BY <2>1, <2>3, <2>4
  <1>5. /\ got' \in [Requests -> Seq(BOOLEAN)]
        /\ \A p \in Requests \ {q} : got'[p] = got[p]
    <2>1. got'[q] = Append(got[q], b)
      BY <1>1, <1>2
    <2> QED BY <1>1, <1>2, <1>4, <2>1
  <1>6. Typed'
    BY <1>t, <1>1, <1>5 DEF Typed, mirrorVars
  <1>7. PhaseInv'
    BY <1>t, <1>1 DEF PhaseInv, Open
  <1>8. \A p \in Requests : SameRequest(p)
    BY <1>1 DEF SameRequest
  <1>9. \A p \in Requests \ {q} : SameHealth(p)
    BY <1>1, <1>5, <1>8, OthersQuiet
  <1>10. ReqInv(q)'
    BY <1>t, <1>1, <1>8, RequestKept
  <1>11. HealthInv(q)'
    <2>1. HealthNow' = HealthNow /\ HealthNow \in moments[q]
      BY <1>t, <1>1 DEF HealthNow, mirrorVars, HealthInv
    <2>2. Len(got'[q]) <= 2 /\ stage'[q] = "health"
      BY <1>1, <1>2, <1>4
    <2>3. (\E k \in DOMAIN got'[q] : ~got'[q][k]) => "degraded" \in moments[q]
      <3>1. SUFFICES ASSUME NEW k \in 1..(Len(got[q]) + 1), ~got'[q][k]
                     PROVE  "degraded" \in moments[q]
        BY <1>4
      <3>2. CASE k \in 1..Len(got[q])
        BY <1>t, <1>1, <1>4, <3>1, <3>2 DEF HealthInv
      <3>3. CASE k = Len(got[q]) + 1
        <4>1. ~b
          BY <1>4, <3>1, <3>3
        <4>2. ~believed \/ parked
          BY <1>2, <1>3, <4>1
        <4> QED BY <2>1, <4>2 DEF HealthNow
      <3> QED BY <1>2, <3>2, <3>3
    <2>4. (\A k \in DOMAIN got'[q] : got'[q][k])
             => (Len(got'[q]) = 1 /\ parked) \/ "ok" \in moments[q]
      <3>1. SUFFICES ASSUME \A k \in 1..(Len(got[q]) + 1) : got'[q][k]
                     PROVE  (Len(got'[q]) = 1 /\ parked) \/ "ok" \in moments[q]
        BY <1>4
      <3>2. b
        BY <1>2, <1>4, <3>1
      <3>3. CASE Len(got[q]) = 0
        <4>1. believed
          BY <1>3, <3>2, <3>3
        <4>2. Len(got'[q]) = 1
          BY <1>4, <3>3
        <4>3. ~parked => "ok" \in moments[q]
          BY <2>1, <4>1 DEF HealthNow
        <4> QED BY <4>2, <4>3
      <3>4. CASE Len(got[q]) = 1
        <4>1. ~parked
          BY <1>3, <3>2, <3>4
        <4>2. \A k \in DOMAIN got[q] : got[q][k]
          BY <1>4, <3>1, <3>4
        <4> QED BY <1>t, <1>1, <3>4, <4>1, <4>2 DEF HealthInv
      <3> QED BY <1>2, <3>3, <3>4
    <2>5. parked' = parked /\ moments' = moments
      BY <1>1 DEF mirrorVars
    <2> QED BY <2>1, <2>2, <2>3, <2>4, <2>5 DEF HealthInv
  <1> QED BY <1>1, <1>6, <1>7, <1>8, <1>9, <1>10, <1>11, OneRequest

LEMMA HealthAnswerKeeps ==
  ASSUME Inv, NEW q \in Requests, HealthAnswer(q)
  PROVE  Inv'
  <1>1. PICK status \in {200, 500} :
          /\ Respond(q, status, "companion")
          /\ status = 200 => Len(got[q]) = 2
    BY DEF HealthAnswer, HealthReads
  <1>2. Open(q) /\ stage[q] = "health"
    BY DEF HealthAnswer, Open
  <1>3. Route(q) = "health"
    BY <1>2 DEF Inv, ReqInv, Came
  <1>4. ~Refused(q)
    BY <1>3 DEF Refused
  <1>5. status = 200 => Told(q) \in moments[q]
    <2>1. HealthInv(q)
      BY DEF Inv
    <2>2. SUFFICES ASSUME status = 200 PROVE Told(q) \in moments[q]
      OBVIOUS
    <2>3. Len(got[q]) = 2
      BY <1>1, <2>2
    <2>4. CASE \A k \in DOMAIN got[q] : got[q][k]
      <3>1. "ok" \in moments[q]
        BY <1>2, <2>1, <2>3, <2>4 DEF HealthInv
      <3> QED BY <2>4, <3>1 DEF Told
    <2>5. CASE ~(\A k \in DOMAIN got[q] : got[q][k])
      <3>1. "degraded" \in moments[q]
        BY <1>2, <2>1, <2>5 DEF HealthInv
      <3> QED BY <2>5, <3>1 DEF Told
    <2> QED BY <2>4, <2>5
  <1>6. /\ phase' = phase /\ cfg' = cfg /\ ask' = ask /\ executed' = executed
        /\ reply' = reply /\ hook' = hook /\ faults' = faults /\ inflight' = inflight
        /\ UNCHANGED <<mirrorVars, healthVars>>
    BY DEF HealthAnswer
  <1> QED BY <1>1, <1>2, <1>4, <1>5, <1>6, CompanionAnswers

\* Proxied requests concern neither the token nor health.
LEMMA ProxyingFacts ==
  ASSUME Inv, NEW q \in Requests, stage[q] \in Proxying
  PROVE  Route(q) # "health" /\ ~Refused(q) /\ Open(q)
  <1>1. Proxied(Route(q))
    BY DEF Inv, ReqInv, Came
  <1> QED BY <1>1 DEF Proxied, Refused, Open, Proxying

\* A step of a proxied request that does not end it.
LEMMA ProxyStep ==
  ASSUME Inv, NEW q \in Requests, stage[q] \in Proxying,
         NEW to \in {"body", "sent", "hook", "note"}, MoveTo(q, to),
         phase' = phase, cfg' = cfg, ask' = ask, executed' = executed, reply' = reply,
         hook' = hook, resp' = resp, faults' = faults, UNCHANGED <<mirrorVars, healthVars>>,
         lock' \in {lock, q},
         inflight' = inflight \/ (to = "sent" /\ inflight' = inflight \cup {q}),
         q \in inflight \cup executed => to \in {"sent", "hook", "note"},
         to = "sent" => q \notin executed,
         to \in {"hook", "note"} =>
           /\ q \in executed
           /\ (to = "hook") <=> (Route(q) \in Intercepted /\ IsSuccess(reply[q]))
  PROVE  Inv'
  <1>t. Typed /\ PhaseInv /\ ReqInv(q) /\ HealthInv(q)
    BY DEF Inv
  <1>1. /\ stage' \in [Requests -> Stage] /\ stage'[q] = to
        /\ \A p \in Requests \ {q} : stage'[p] = stage[p]
    BY <1>t DEF Typed, Stage, MoveTo
  <1>2. /\ inflight' \subseteq Requests /\ inflight' \cap executed = {}
        /\ lock' \in Requests \cup {Background, NULL}
    BY <1>t DEF Typed
  <1>3. Typed'
    BY <1>t, <1>1, <1>2 DEF Typed, mirrorVars, healthVars
  <1>4. PhaseInv'
    <2>1. Open(q) /\ Open(q)'
      BY <1>1, ProxyingFacts DEF Open
    <2>2. \A p \in Requests \ {q} : Open(p)' = Open(p)
      BY <1>1 DEF Open
    <2>3. phase \notin {"load", "validate", "build", "probe", "bind", "failed", "stopped"}
      BY <1>t, <2>1 DEF PhaseInv, Open, Typed
    <2>4. lock' \in Requests => Open(lock)'
      BY <1>t, <2>1, <2>2 DEF PhaseInv
    <2> QED BY <1>t, <2>3, <2>4 DEF PhaseInv
  <1>5. \A p \in Requests \ {q} : SameRequest(p)
    BY <1>1 DEF SameRequest
  <1>6. \A p \in Requests \ {q} : SameHealth(p)
    BY <1>5, OthersQuiet DEF healthVars
  <1>7. Route(q)' = Route(q)
    BY DEF Route
  <1>8. ReqInv(q)'
    <2>0. stage[q] \notin {"new", "answered"}
      BY DEF Proxying
    <2>1. Came(q)'
      BY <1>t, <1>1, <1>7, <2>0 DEF ReqInv, Came, Proxying
    <2>2. Hooked(q)'
      <3>1. hook'[q] = "none"
        BY <1>t, <2>0 DEF ReqInv, Hooked, Typed
      <3> QED BY <1>1, <1>7, <3>1 DEF Hooked
    <2> QED BY <1>1, <2>1, <2>2 DEF ReqInv
  <1>9. HealthInv(q)'
    <2>1. stage'[q] \notin {"new", "health", "answered"}
      BY <1>1
    <2> QED BY <1>t, <2>1, QuietHealth DEF healthVars
  <1> QED BY <1>3, <1>4, <1>5, <1>6, <1>8, <1>9, OneRequest

LEMMA TakeLockKeeps ==
  ASSUME Inv, NEW q \in Requests, TakeLock(q)
  PROVE  Inv'
  <1>1. stage[q] = "queue" /\ MoveTo(q, "body") /\ lock' = q
    BY DEF TakeLock
  <1>2. q \notin inflight \cup executed
    BY <1>1 DEF Inv, ReqInv, Came
  <1>3. /\ phase' = phase /\ cfg' = cfg /\ ask' = ask /\ executed' = executed
        /\ reply' = reply /\ hook' = hook /\ resp' = resp /\ faults' = faults
        /\ inflight' = inflight /\ UNCHANGED <<mirrorVars, healthVars>>
    BY DEF TakeLock
  <1> QED BY <1>1, <1>2, <1>3, ProxyStep DEF Proxying

LEMMA ForwardKeeps ==
  ASSUME Inv, NEW q \in Requests, Forward(q)
  PROVE  Inv'
  <1>1. /\ stage[q] = "body"
        /\ phase' = phase /\ cfg' = cfg /\ ask' = ask /\ executed' = executed
        /\ reply' = reply /\ hook' = hook /\ faults' = faults
        /\ UNCHANGED <<mirrorVars, healthVars>>
    BY DEF Forward
  <1>2. Route(q) # "health" /\ ~Refused(q) /\ Open(q)
    BY <1>1, ProxyingFacts DEF Proxying
  <1>3. q \notin inflight \cup executed
    BY <1>1 DEF Inv, ReqInv, Came
  <1>4. CASE \E status \in {400, 413} : Respond(q, status, "companion") /\ inflight' = inflight
    BY <1>1, <1>2, <1>4, CompanionAnswers
  <1>5. CASE /\ MoveTo(q, "sent") /\ inflight' = inflight \cup {q}
             /\ resp' = resp /\ lock' = lock
    BY <1>1, <1>3, <1>5, ProxyStep DEF Proxying
  <1>6. \/ Respond(q, 413, "companion") /\ inflight' = inflight
        \/ Respond(q, 400, "companion") /\ inflight' = inflight
        \/ /\ MoveTo(q, "sent") /\ inflight' = inflight \cup {q}
           /\ resp' = resp /\ lock' = lock
    BY DEF Forward
  <1> QED BY <1>4, <1>5, <1>6

LEMMA ExecuteKeeps ==
  ASSUME Inv, NEW q \in Requests, Execute(q)
  PROVE  Inv'
  <1>t. Typed /\ PhaseInv /\ ReqInv(q) /\ HealthInv(q)
    BY DEF Inv
  <1>1. /\ q \in inflight /\ inflight' = inflight \ {q} /\ executed' = executed \cup {q}
        /\ phase' = phase /\ cfg' = cfg /\ ask' = ask /\ stage' = stage
        /\ hook' = hook /\ resp' = resp /\ lock' = lock /\ faults' = faults
        /\ UNCHANGED <<mirrorVars, healthVars>>
    BY DEF Execute
  <1>2. PICK r \in Replies : reply' = [reply EXCEPT ![q] = r]
    BY DEF Execute
  <1>3. /\ reply' \in [Requests -> Replies \cup {NoReply}] /\ reply'[q] = r
        /\ \A p \in Requests \ {q} : reply'[p] = reply[p]
    BY <1>2, <1>t DEF Typed
  <1>4. Typed'
    BY <1>t, <1>1, <1>3 DEF Typed, mirrorVars, healthVars
  <1>5. PhaseInv'
    BY <1>t, <1>1 DEF PhaseInv, Open
  <1>6. \A p \in Requests \ {q} : SameRequest(p)
    BY <1>1, <1>3 DEF SameRequest
  <1>7. \A p \in Requests \ {q} : SameHealth(p)
    BY <1>1, <1>6, OthersQuiet DEF healthVars
  <1>8. q \notin executed
    BY <1>t, <1>1 DEF Typed
  <1>9. Route(q)' = Route(q) /\ Refused(q)' = Refused(q)
    BY <1>1 DEF Route, Refused
  <1>10. ReqInv(q)'
    <2>1. Came(q)'
      BY <1>t, <1>1, <1>3, <1>9 DEF ReqInv, Came
    <2>2. Hooked(q)'
      <3>1. stage[q] \notin {"hook", "note"} /\ resp[q].by # "node"
        BY <1>t, <1>8 DEF ReqInv, Hooked, Came
      <3> QED BY <1>t, <1>1, <1>8, <1>9, <3>1 DEF ReqInv, Hooked
    <2> QED BY <1>t, <1>1, <1>9, <2>1, <2>2 DEF ReqInv
  <1>11. HealthInv(q)'
    BY <1>t, <1>1, QuietHealth DEF healthVars
  <1> QED BY <1>1, <1>4, <1>5, <1>6, <1>7, <1>10, <1>11, OneRequest

LEMMA UnansweredKeeps ==
  ASSUME Inv, NEW q \in Requests, Unanswered(q)
  PROVE  Inv'
  <1>1. /\ stage[q] = "sent"
        /\ phase' = phase /\ cfg' = cfg /\ ask' = ask /\ executed' = executed
        /\ reply' = reply /\ hook' = hook /\ faults' = faults
        /\ inflight' \subseteq inflight /\ inflight \ {q} \subseteq inflight'
        /\ UNCHANGED <<mirrorVars, healthVars>>
    BY DEF Unanswered
  <1>2. PICK status \in {502, 504} : Respond(q, status, "companion")
    BY DEF Unanswered
  <1>3. Route(q) # "health" /\ ~Refused(q) /\ Open(q)
    BY <1>1, ProxyingFacts DEF Proxying
  <1> QED BY <1>1, <1>2, <1>3, CompanionAnswers

LEMMA RepliedKeeps ==
  ASSUME Inv, NEW q \in Requests, Replied(q)
  PROVE  Inv'
  <1>1. /\ stage[q] = "sent" /\ q \in executed
        /\ phase' = phase /\ cfg' = cfg /\ ask' = ask /\ executed' = executed
        /\ reply' = reply /\ hook' = hook /\ resp' = resp /\ faults' = faults
        /\ inflight' = inflight /\ lock' = lock /\ UNCHANGED <<mirrorVars, healthVars>>
    BY DEF Replied
  <1>2. PICK to \in {"hook", "note"} :
          /\ MoveTo(q, to)
          /\ (to = "hook") <=> (Route(q) \in Intercepted /\ IsSuccess(reply[q]))
    BY DEF Replied
  <1> QED BY <1>1, <1>2, ProxyStep DEF Proxying

\* An answer of the node's, after a hook or a note that may write what health
\* reads.
LEMMA NodeAnswers ==
  ASSUME Inv, NEW q \in Requests, stage[q] \in {"hook", "note"},
         Respond(q, reply[q].status, "node"),
         phase' = phase, cfg' = cfg, ask' = ask, inflight' = inflight,
         executed' = executed, reply' = reply, faults' = faults,
         NEW unlocked \in BOOLEAN, Becomes(unlocked, parked),
         NEW result \in {"none", "ran", "failed"}, hook' = [hook EXCEPT ![q] = result],
         (result # "none") <=> (stage[q] = "hook")
  PROVE  Inv'
  <1>t. Typed /\ PhaseInv /\ ReqInv(q) /\ HealthInv(q)
    BY DEF Inv
  <1>0. q \in executed /\ reply[q] \in Replies
    BY <1>t DEF ReqInv, Hooked, Came
  <1>1. reply[q].status \in Nat
    <2>1. reply[q].status \in 100..599
      <3>1. \A r \in Replies : r.status \in 100..599
        BY CompanionAssumption
      <3> QED BY <1>0, <3>1, Zenon
    <2> QED BY <2>1
  <1>2. Route(q) # "health" /\ ~Refused(q) /\ Open(q)
    BY ProxyingFacts DEF Proxying
  <1>3. /\ stage' \in [Requests -> Stage] /\ stage'[q] = "answered"
        /\ resp' \in [Requests -> [status : Nat, by : {"nobody", "companion", "node"}]]
        /\ resp'[q] = [status |-> reply[q].status, by |-> "node"]
        /\ lock' \in Requests \cup {Background, NULL}
        /\ \A p \in Requests \ {q} : stage'[p] = stage[p] /\ resp'[p] = resp[p]
        /\ PhaseInv'
    BY <1>t, <1>1, <1>2, Answering
  <1>4. /\ resp'[q] # NoAnswer /\ resp'[q].by = "node"
        /\ resp'[q].status = reply[q].status
    BY <1>3 DEF NoAnswer
  <1>5. /\ hook' \in [Requests -> {"none", "ran", "failed"}] /\ hook'[q] = result
        /\ \A p \in Requests \ {q} : hook'[p] = hook[p]
    BY <1>t DEF Typed
  <1>6. /\ believed' \in BOOLEAN /\ parked' = parked /\ got' = got
        /\ HealthNow' \in {"ok", "degraded"}
        /\ moments' = [p \in Requests |->
              IF stage[p] = "health" THEN moments[p] \cup {HealthNow'} ELSE moments[p]]
    BY DEF Becomes, HealthNow
  <1>7. /\ moments' \in [Requests -> SUBSET {"ok", "degraded"}]
        /\ \A p \in Requests : moments[p] \subseteq moments'[p]
        /\ \A p \in Requests : stage[p] = "health" => HealthNow' \in moments'[p]
    <2> HIDE DEF HealthNow
    <2> QED BY <1>6, <1>t DEF Typed
  <1>8. Typed'
    <2>1. parked \in BOOLEAN /\ got \in [Requests -> Seq(BOOLEAN)]
      BY <1>t DEF Typed
    <2> QED BY <1>t, <1>3, <1>5, <1>6, <1>7, <2>1 DEF Typed
  <1>9. \A p \in Requests \ {q} : SameRequest(p)
    BY <1>3, <1>5 DEF SameRequest
  <1>10. \A p \in Requests \ {q} : SameHealth(p)
    BY <1>3, <1>6, <1>7 DEF SameHealth
  <1>11. Route(q)' = Route(q) /\ Refused(q)' = Refused(q)
    BY DEF Route, Refused
  <1>12. ReqInv(q)'
    <2>1. Came(q)'
      <3>1. ask'[q] \in Asks[q] \cup {NULL} /\ ask'[q] # NULL
        BY <1>t DEF ReqInv, Came
      <3> QED BY <1>0, <1>3, <1>4, <3>1 DEF Came, Proxying
    <2>2. Hooked(q)'
      <3>1. (stage[q] = "hook") <=> (Route(q) \in Intercepted /\ IsSuccess(reply[q]))
        BY <1>t DEF ReqInv, Hooked
      <3>2. (result # "none") <=> (Route(q) \in Intercepted /\ reply[q].status \in 200..299)
        BY <3>1 DEF IsSuccess
      <3> QED BY <1>0, <1>3, <1>4, <1>5, <1>11, <3>2 DEF Hooked
    <2>3. resp'[q].by # "companion" /\ ~Refused(q)'
      BY <1>2, <1>4, <1>11
    <2> QED BY <2>1, <2>2, <2>3 DEF ReqInv
  <1>13. HealthInv(q)'
    <2>1. Route(q)' # "health"
      BY <1>2, <1>11
    <2> QED BY <1>t, <1>3, <1>6, <2>1 DEF HealthInv
  <1> QED BY <1>3, <1>8, <1>9, <1>10, <1>12, <1>13, OneRequest

LEMMA HookKeeps ==
  ASSUME Inv, NEW q \in Requests, Hook(q)
  PROVE  Inv'
  <1>1. PICK result \in {"ran", "failed"} :
          /\ hook' = [hook EXCEPT ![q] = result]
          /\ Becomes(IF result = "ran" THEN StateAfter(Route(q)) ELSE believed, parked)
    BY DEF Hook
  <1>2. (IF result = "ran" THEN StateAfter(Route(q)) ELSE believed) \in BOOLEAN
    <2>1. believed \in BOOLEAN
      BY DEF Inv, Typed
    <2>2. StateAfter(Route(q)) \in BOOLEAN
      BY <2>1 DEF StateAfter
    <2> QED BY <2>1, <2>2
  <1>3. /\ stage[q] = "hook" /\ Respond(q, reply[q].status, "node")
        /\ phase' = phase /\ cfg' = cfg /\ ask' = ask /\ inflight' = inflight
        /\ executed' = executed /\ reply' = reply /\ faults' = faults
    BY DEF Hook
  <1> QED BY <1>1, <1>2, <1>3, NodeAnswers

LEMMA NoteKeeps ==
  ASSUME Inv, NEW q \in Requests, Note(q)
  PROVE  Inv'
  <1> DEFINE unlocked ==
        IF Reveals(reply[q]) = "Nothing" THEN believed ELSE Reveals(reply[q]) = "Unlocked"
  <1>1. /\ stage[q] = "note" /\ Respond(q, reply[q].status, "node")
        /\ phase' = phase /\ cfg' = cfg /\ ask' = ask /\ inflight' = inflight
        /\ executed' = executed /\ reply' = reply /\ faults' = faults /\ hook' = hook
        /\ Becomes(unlocked, parked)
    BY DEF Note
  <1>2. unlocked \in BOOLEAN
    BY DEF Inv, Typed
  <1> HIDE DEF unlocked
  <1>3. hook' = [hook EXCEPT ![q] = "none"]
    <2>1. hook \in [Requests -> {"none", "ran", "failed"}]
      BY DEF Inv, Typed
    <2>2. hook[q] = "none"
      BY <1>1 DEF Inv, ReqInv, Hooked
    <2> QED BY <1>1, <2>1, <2>2
  <1> QED BY <1>1, <1>2, <1>3, NodeAnswers

\* Who leaves gives the lock back.
LEMMA DisconnectKeeps ==
  ASSUME Inv, NEW q \in Requests, Disconnect(q)
  PROVE  Inv'
  <1>t. Typed /\ PhaseInv /\ ReqInv(q) /\ HealthInv(q)
    BY DEF Inv
  <1>1. /\ Open(q) /\ stage' = [stage EXCEPT ![q] = "gone"]
        /\ lock' = (IF lock = q THEN NULL ELSE lock)
        /\ phase' = phase /\ cfg' = cfg /\ ask' = ask /\ inflight' = inflight
        /\ executed' = executed /\ reply' = reply /\ hook' = hook /\ resp' = resp
        /\ faults < MaxFaults /\ faults' = faults + 1
        /\ UNCHANGED <<mirrorVars, healthVars>>
    BY DEF Disconnect, MoveTo, DropGuard, Fault
  <1>2. /\ stage' \in [Requests -> Stage] /\ stage'[q] = "gone"
        /\ \A p \in Requests \ {q} : stage'[p] = stage[p]
    BY <1>1, <1>t DEF Typed, Stage
  <1>3. faults' \in 0..MaxFaults
    BY <1>1, <1>t, CompanionAssumption DEF Typed
  <1>4. Typed'
    <2>1. lock' \in Requests \cup {Background, NULL}
      BY <1>1, <1>t DEF Typed
    <2> QED BY <1>t, <1>1, <1>2, <1>3, <2>1 DEF Typed, mirrorVars, healthVars
  <1>5. PhaseInv'
    <2>1. ASSUME lock' \in Requests PROVE lock' = lock /\ lock' # q
      BY <1>1, <2>1, CompanionAssumption
    <2>2. lock' \in Requests => Open(lock)'
      BY <1>t, <1>2, <2>1 DEF PhaseInv, Open
    <2>3. /\ phase \notin {"load", "validate", "build", "probe", "bind", "failed"}
          /\ phase # "stopped"
      BY <1>t, <1>1 DEF PhaseInv, Open
    <2> QED BY <1>t, <1>1, <2>2, <2>3 DEF PhaseInv
  <1>6. \A p \in Requests \ {q} : SameRequest(p)
    BY <1>1, <1>2 DEF SameRequest
  <1>7. \A p \in Requests \ {q} : SameHealth(p)
    BY <1>1, <1>6, OthersQuiet DEF healthVars
  <1>8. ReqInv(q)'
    <2>1. stage[q] \notin {"new", "answered"} /\ hook[q] = "none"
      BY <1>1, <1>t DEF Open, ReqInv, Hooked, Typed
    <2>2. Came(q)'
      BY <1>t, <1>1, <1>2, <2>1 DEF ReqInv, Came, Proxying
    <2>3. Hooked(q)'
      BY <1>1, <1>2, <2>1 DEF Hooked
    <2> QED BY <1>2, <2>2, <2>3 DEF ReqInv
  <1>9. HealthInv(q)'
    <2>1. stage'[q] \notin {"new", "health", "answered"}
      BY <1>2
    <2> QED BY <1>t, <1>1, <2>1, QuietHealth DEF healthVars
  <1> QED BY <1>1, <1>4, <1>5, <1>6, <1>7, <1>8, <1>9, OneRequest

-----------------------------------------------------------------------------
(* The process *)

\* A step that concerns no request.
LEMMA NoRequest ==
  ASSUME Inv, Typed', PhaseInv',
         UNCHANGED <<ask, stage, inflight, executed, reply, hook, resp, got>>,
         \/ moments' = moments /\ UNCHANGED mirrorVars
         \/ /\ parked => parked'
            /\ \A q \in Requests :
                 /\ moments[q] \subseteq moments'[q]
                 /\ stage[q] = "health" => HealthNow' \in moments'[q],
         cfg' = cfg \/ \A q \in Requests : stage[q] = "new"
  PROVE  Inv'
  <1>1. ASSUME NEW q \in Requests PROVE ReqInv(q)'
    BY RequestKept DEF Inv, SameRequest
  <1>2. ASSUME NEW q \in Requests PROVE HealthInv(q)'
    <2>1. CASE moments' = moments /\ UNCHANGED mirrorVars
      BY <2>1, QuietHealth DEF Inv
    <2>2. CASE /\ parked => parked'
               /\ moments[q] \subseteq moments'[q]
               /\ stage[q] = "health" => HealthNow' \in moments'[q]
      <3>1. SameHealth(q)
        BY <2>2 DEF SameHealth
      <3> QED BY <3>1, HealthKept DEF Inv
    <2> QED BY <2>1, <2>2
  <1> QED BY <1>1, <1>2 DEF Inv

LEMMA StartupKeeps ==
  ASSUME Inv, Startup \/ StartFails \/ Signal \/ Drained
  PROVE  Inv'
  <1>t. Typed /\ PhaseInv
    BY DEF Inv
  <1>1. /\ UNCHANGED requestVars
        /\ UNCHANGED <<ask, stage, inflight, executed, reply, hook, resp, lock, got, moments>>
        /\ UNCHANGED mirrorVars
        /\ faults' \in 0..MaxFaults
        /\ cfg' = cfg \/ (phase = "load" /\ phase' = "validate" /\ cfg' \in Config)
    <2>1. CASE Load
      <3>1. PICK file \in Files \cup {Default}, args \in CommandLines :
              cfg' = ApplyOverrides(file, args)
        BY <2>1 DEF Load
      <3>2. file \in Config /\ args \in Overrides
        BY CompanionAssumption, DefaultTyped
      <3>3. cfg' \in Config
        BY <3>1, <3>2, Overridden
      <3> QED BY <1>t, <2>1, <3>3 DEF Load, Go, requestVars, healthVars, Typed
    <2>2. CASE ValidateSettings \/ Build \/ Probe \/ Bind \/ Signal \/ Drained
      BY <1>t, <2>2
         DEF ValidateSettings, Build, Probe, Bind, Signal, Drained, Go, requestVars,
             healthVars, Typed
    <2>3. CASE StartFails
      BY <1>t, <2>3, CompanionAssumption
         DEF StartFails, Fault, requestVars, healthVars, Typed
    <2> QED BY <2>1, <2>2, <2>3 DEF Startup
  <1>2. \/ phase = "load" /\ phase' \in {"validate", "failed"}
        \/ phase = "validate" /\ phase' = "failed"
        \/ phase = "validate" /\ phase' = "build" /\ Validate(cfg) = "Ok"
        \/ phase = "build" /\ phase' \in {"probe", "failed"}
        \/ phase = "probe" /\ phase' \in {"bind", "failed"}
        \/ phase = "bind" /\ phase' \in {"serving", "failed"}
        \/ phase = "serving" /\ phase' = "draining"
        \/ phase = "draining" /\ phase' = "stopped" /\ \A q \in Requests : ~Open(q)
    BY DEF Startup, Load, ValidateSettings, Build, Probe, Bind, StartFails, Signal,
           Drained, Go
  <1>3. Typed'
    <2>1. cfg' \in Config
      BY <1>t, <1>1 DEF Typed
    <2>2. phase' \in {"load", "validate", "build", "probe", "bind", "serving",
                      "draining", "stopped", "failed"}
      BY <1>2
    <2> QED BY <1>t, <1>1, <2>1, <2>2 DEF Typed, mirrorVars
  <1>4. PhaseInv'
    <2>1. phase' \in {"load", "validate", "build", "probe", "bind", "failed"}
            => \A q \in Requests : stage'[q] = "new"
      BY <1>t, <1>1, <1>2 DEF PhaseInv
    <2>2. lock' \in Requests => Open(lock)'
      BY <1>t, <1>1 DEF PhaseInv, Open
    <2>3. phase' = "stopped" => \A q \in Requests : ~Open(q)'
      BY <1>1, <1>2 DEF Open
    <2>4. phase' \notin {"load", "validate", "failed"} => Sound(cfg')
      <3>1. CASE phase = "validate"
        BY <1>t, <1>1, <1>2, <3>1, Validated DEF Typed
      <3>2. CASE phase # "validate"
        BY <1>t, <1>1, <1>2, <3>2 DEF PhaseInv
      <3> QED BY <3>1, <3>2
    <2> QED BY <2>1, <2>2, <2>3, <2>4 DEF PhaseInv
  <1>5. cfg' = cfg \/ \A q \in Requests : stage[q] = "new"
    BY <1>t, <1>1 DEF PhaseInv
  <1> QED BY <1>1, <1>3, <1>4, <1>5, NoRequest

LEMMA BackgroundKeeps ==
  ASSUME Inv, BackgroundLock \/ BackgroundWrite
  PROVE  Inv'
  <1>t. Typed /\ PhaseInv
    BY DEF Inv
  <1>1. CASE BackgroundLock
    <2>1. /\ UNCHANGED <<phase, cfg, ask, stage, inflight, executed, reply, hook, resp, got>>
          /\ UNCHANGED mirrorVars /\ moments' = moments /\ faults' = faults
          /\ lock' \in {Background, NULL}
      BY <1>1 DEF BackgroundLock, healthVars
    <2>2. Typed'
      BY <1>t, <2>1 DEF Typed, mirrorVars
    <2>3. PhaseInv'
      BY <1>t, <2>1, CompanionAssumption DEF PhaseInv, Open
    <2> QED BY <2>1, <2>2, <2>3, NoRequest
  <1>2. CASE BackgroundWrite
    <2>1. /\ UNCHANGED <<phase, cfg, ask, stage, inflight, executed, reply, hook, resp, lock>>
          /\ faults < MaxFaults /\ faults' = faults + 1
      BY <1>2 DEF BackgroundWrite, Fault
    <2>2. /\ got' = got
          /\ believed' \in BOOLEAN /\ parked' \in BOOLEAN /\ (parked => parked')
          /\ moments' = [p \in Requests |->
                IF stage[p] = "health" THEN moments[p] \cup {HealthNow'} ELSE moments[p]]
      BY <1>2, <1>t DEF BackgroundWrite, Becomes, Typed
    <2>3. /\ moments' \in [Requests -> SUBSET {"ok", "degraded"}]
          /\ \A p \in Requests : moments[p] \subseteq moments'[p]
          /\ \A p \in Requests : stage[p] = "health" => HealthNow' \in moments'[p]
      <3>1. HealthNow' \in {"ok", "degraded"}
        BY DEF HealthNow
      <3> HIDE DEF HealthNow
      <3> QED BY <1>t, <2>2, <3>1 DEF Typed
    <2>4. faults' \in 0..MaxFaults
      BY <1>t, <2>1, CompanionAssumption DEF Typed
    <2>5. Typed'
      BY <1>t, <2>1, <2>2, <2>3, <2>4 DEF Typed
    <2>6. PhaseInv'
      BY <1>t, <2>1 DEF PhaseInv, Open
    <2> QED BY <2>1, <2>2, <2>3, <2>5, <2>6, NoRequest
  <1> QED BY <1>1, <1>2

-----------------------------------------------------------------------------
(* The theorems *)

LEMMA InvInit == Init => Inv
  <1> SUFFICES ASSUME Init PROVE Inv
    OBVIOUS
  <1>1. Typed
    <2>1. NoAnswer \in [status : Nat, by : {"nobody", "companion", "node"}]
      BY DEF NoAnswer
    <2>2. <<>> \in Seq(BOOLEAN)
      OBVIOUS
    <2>3. 0 \in 0..MaxFaults
      BY CompanionAssumption
    <2> QED BY <2>1, <2>2, <2>3, DefaultTyped DEF Init, Typed, Stage
  <1>2. PhaseInv
    BY CompanionAssumption DEF Init, PhaseInv
  <1>3. ASSUME NEW q \in Requests PROVE ReqInv(q)
    BY <1>3 DEF Init, ReqInv, Came, Hooked, Proxying, NoAnswer
  <1>4. ASSUME NEW q \in Requests PROVE HealthInv(q)
    <2>1. stage[q] = "new" /\ got[q] = <<>> /\ Len(<<>>) = 0
      BY <1>4 DEF Init
    <2> QED BY <2>1 DEF HealthInv
  <1> QED BY <1>1, <1>2, <1>3, <1>4 DEF Inv

LEMMA InvNext == Inv /\ [Next]_vars => Inv'
  <1> SUFFICES ASSUME Inv, [Next]_vars PROVE Inv'
    OBVIOUS
  <1>1. CASE Startup \/ StartFails \/ Signal \/ Drained
    BY <1>1, StartupKeeps
  <1>2. CASE BackgroundLock \/ BackgroundWrite
    BY <1>2, BackgroundKeeps
  <1>3. ASSUME NEW q \in Requests, Arrive(q) \/ Handle(q) \/ Execute(q) \/ Disconnect(q)
        PROVE  Inv'
    <2>1. CASE Arrive(q)
      BY <2>1, ArriveKeeps
    <2>2. CASE Local(q) \/ HealthRead(q) \/ HealthAnswer(q)
      BY <2>2, LocalKeeps, HealthReadKeeps, HealthAnswerKeeps
    <2>3. CASE TakeLock(q) \/ Forward(q) \/ Unanswered(q) \/ Replied(q)
      BY <2>3, TakeLockKeeps, ForwardKeeps, UnansweredKeeps, RepliedKeeps
    <2>4. CASE Hook(q) \/ Note(q)
      BY <2>4, HookKeeps, NoteKeeps
    <2>5. CASE Execute(q) \/ Disconnect(q)
      BY <2>5, ExecuteKeeps, DisconnectKeeps
    <2> QED BY <1>3, <2>1, <2>2, <2>3, <2>4, <2>5 DEF Handle
  <1>4. CASE UNCHANGED vars
    <2>1. /\ UNCHANGED <<phase, cfg, ask, stage, inflight, executed, reply, hook, resp, lock,
                         got, moments, faults>>
          /\ UNCHANGED mirrorVars
      BY <1>4 DEF vars, requestVars, healthVars
    <2>2. Typed' /\ PhaseInv'
      BY <2>1 DEF Inv, Typed, PhaseInv, Open, mirrorVars
    <2> QED BY <2>1, <2>2, NoRequest
  <1> QED BY <1>1, <1>2, <1>3, <1>4 DEF Next

LEMMA Invariant == Spec => []Inv
  BY InvInit, InvNext, PTL DEF Spec

\* Every variable has its type, a request is answered once and sent to the node at
\* most once, for any requests, settings and faults.
THEOREM TypeCorrect == Spec => []TypeOK
  <1>1. Inv => TypeOK
    BY DEF Inv, Typed, ReqInv, Came, HealthInv, TypeOK, Stage, HealthReads
  <1> QED BY <1>1, Invariant, PTL

\* For every configuration file and command line, nothing happens with settings
\* that are not sound.
THEOREM StartsSound == Spec => []SoundBeforeStart
  <1>1. Inv => SoundBeforeStart
    BY DEF Inv, PhaseInv, Sound, SoundBeforeStart
  <1> QED BY <1>1, Invariant, PTL

\* An intercepted call that its client is told went well has had its hook, and no
\* other call has, whatever the node, the clients and the network do.
THEOREM HooksMatch == Spec => []HookMatchesAnswer
  <1>1. Inv => HookMatchesAnswer
    BY DEF Inv, ReqInv, Hooked, HookMatchesAnswer
  <1> QED BY <1>1, Invariant, PTL

\* The companion answers 401 to exactly those who ask for a guarded endpoint and do
\* not bring the token, whatever the node replies to others.
THEOREM TokenGuards == Spec => []Guarded
  <1>1. ASSUME NEW header, NEW expected
        PROVE  ~Authorized(header, expected) <=>
                 /\ expected # None
                 /\ \/ header.scheme \notin {"Bearer", "bEaReR"}
                    \/ header.token \in {Unset, None}
                    \/ header.token # expected
    BY DEF Authorized, BearerToken, None, Unset
  <1>2. Inv => Guarded
    BY <1>1 DEF Inv, ReqInv, Refused, Guarded
  <1> QED BY <1>2, Invariant, PTL

\* What health answered was true at some moment while it was being made.
THEOREM HealthTrue == Spec => []HealthWasTrue
  <1>1. Inv => HealthWasTrue
    BY DEF Inv, HealthInv, HealthWasTrue
  <1> QED BY <1>1, Invariant, PTL

\* No client takes the engine lock along, and the process stops with every request
\* answered or gone.
THEOREM NothingLeft == Spec => []NothingLeftBehind
  <1>1. Inv => NothingLeftBehind
    BY DEF Inv, PhaseInv, NothingLeftBehind
  <1> QED BY <1>1, Invariant, PTL

-----------------------------------------------------------------------------
(* Paths *)

\* What holds of 0 and of the successor of whatever it holds of, holds of all.
LEMMA Induction ==
  ASSUME NEW S, S \subseteq Nat, 0 \in S, \A n \in S : n + 1 \in S
  PROVE  S = Nat
  <1> SUFFICES ASSUME S # Nat PROVE FALSE
    OBVIOUS
  <1>1. IsWellFoundedOn(OpToRel(<, Nat), Nat)
    BY NatLessThanWellFounded
  <1>2. PICK n \in Nat \ S : \A m \in Nat \ S : <<m, n>> \notin OpToRel(<, Nat)
    <2>1. Nat \ S \subseteq Nat /\ Nat \ S # {}
      OBVIOUS
    <2> HIDE DEF OpToRel
    <2> QED BY <1>1, <2>1, WFMin
  <1>3. \A m \in Nat \ S : ~(m < n)
    BY <1>2 DEF OpToRel
  <1>4. n - 1 \in S
    BY <1>3
  <1> QED BY <1>4

\* A segment the path check lets pass is taken as it is, but for a backslash.
LEMMA Taken ==
  ASSUME NEW path, NEW segment,
         segment \notin Encoded \cup {"", ".", ".."}, segment \notin Backslashed
  PROVE  Take(path, segment) = Append(path, segment)
  BY DEF Take, Step

\* Functions that agree at 0 and stay in agreement agree.
LEMMA Agreement ==
  ASSUME NEW n \in Nat, NEW f, NEW g, f[0] = g[0],
         \A k \in 0..(n - 1) : f[k] = g[k] => f[k + 1] = g[k + 1]
  PROVE  \A k \in 0..n : f[k] = g[k]
  <1> DEFINE S == {k \in Nat : k <= n => f[k] = g[k]}
  <1>1. S \subseteq Nat /\ 0 \in S
    OBVIOUS
  <1>2. ASSUME NEW k \in S PROVE k + 1 \in S
    OBVIOUS
  <1>3. S = Nat
    <2> HIDE DEF S
    <2> QED BY <1>1, <1>2, Induction
  <1> QED BY <1>3

\* The HTTP client and the node leave a path alone that passes the check and has no
\* backslash.
LEMMA CheckedPath ==
  ASSUME NEW path \in Seq(STRING), CheckPath(path),
         \A k \in DOMAIN path : path[k] \notin Backslashed
  PROVE  NodePath(path) = path
  <1> DEFINE n == Len(path)
             Fold(f) == [k \in 0..n |-> IF k = 0 THEN <<>> ELSE Take(f[k - 1], path[k])]
             prefix == [k \in 0..n |-> SubSeq(path, 1, k)]
             upto == CHOOSE f : f = Fold(f)
  <1>0. n \in Nat /\ DOMAIN path = 1..n
    BY LenProperties
  <1>1. ASSUME NEW k \in 1..n, NEW f PROVE Take(f, path[k]) = Append(f, path[k])
    BY <1>0, Taken DEF CheckPath
  <1>2. /\ prefix[0] = <<>> /\ prefix[n] = path
        /\ \A k \in 1..n : prefix[k] = Append(prefix[k - 1], path[k])
    <2>1. SubSeq(path, 1, 0) = <<>> /\ SubSeq(path, 1, n) = path
      BY <1>0
    <2>2. ASSUME NEW k \in 1..n
          PROVE  SubSeq(path, 1, k) = Append(SubSeq(path, 1, k - 1), path[k])
      BY <1>0
    <2> QED BY <1>0, <2>1, <2>2
  <1>3. prefix = Fold(prefix)
    <2>1. ASSUME NEW k \in 0..n
          PROVE  prefix[k] = IF k = 0 THEN <<>> ELSE Take(prefix[k - 1], path[k])
      <3> HIDE DEF prefix
      <3>1. CASE k = 0
        BY <1>2, <3>1
      <3>2. CASE k \in 1..n
        <4>1. k # 0
          BY <1>0, <3>2
        <4>2. Take(prefix[k - 1], path[k]) = Append(prefix[k - 1], path[k])
          BY <1>1, <3>2
        <4> QED BY <1>2, <3>2, <4>1, <4>2
      <3> QED BY <1>0, <3>1, <3>2
    <2>2. prefix = [k \in 0..n |-> prefix[k]]
      OBVIOUS
    <2> HIDE DEF prefix
    <2> QED BY <2>1, <2>2
  <1>4. upto = Fold(upto)
    <2> HIDE DEF Fold, prefix
    <2> QED BY <1>3
  <1>5. /\ upto[0] = <<>>
        /\ \A k \in 0..(n - 1) : upto[k + 1] = Append(upto[k], path[k + 1])
    <2> HIDE DEF upto
    <2>1. upto[0] = <<>>
      BY <1>0, <1>4
    <2>2. ASSUME NEW k \in 0..(n - 1) PROVE upto[k + 1] = Append(upto[k], path[k + 1])
      <3>1. k + 1 \in 1..n /\ k + 1 \in 0..n /\ k + 1 # 0 /\ (k + 1) - 1 = k
        BY <1>0
      <3>2. upto[k + 1] = Take(upto[k], path[k + 1])
        BY <1>4, <3>1
      <3> QED BY <1>1, <3>1, <3>2
    <2> QED BY <2>1, <2>2
  <1>6. upto[n] = prefix[n]
    <2> HIDE DEF upto, prefix
    <2>1. \A k \in 0..(n - 1) : k + 1 \in 1..n /\ (k + 1) - 1 = k
      BY <1>0
    <2>2. \A k \in 0..(n - 1) : prefix[k + 1] = Append(prefix[k], path[k + 1])
      BY <1>2, <2>1
    <2>3. \A k \in 0..(n - 1) : upto[k] = prefix[k] => upto[k + 1] = prefix[k + 1]
      BY <1>5, <2>2
    <2>4. upto[0] = prefix[0]
      BY <1>2, <1>5
    <2>5. \A k \in 0..n : upto[k] = prefix[k]
      BY <1>0, <2>3, <2>4, Agreement
    <2> QED BY <1>0, <2>5
  <1>7. NodePath(path) = upto[n]
    BY DEF NodePath
  <1> QED BY <1>2, <1>6, <1>7

\* What was forwarded has passed the path check.
Checked == \A q \in executed \cup inflight : ask[q] \in Asks[q] /\ CheckPath(ask[q].path)

LEMMA CheckedNext == Inv /\ Checked /\ [Next]_vars => Checked'
  <1> SUFFICES ASSUME Inv, Checked, [Next]_vars PROVE Checked'
    OBVIOUS
  <1>1. ASSUME UNCHANGED ask, executed' \cup inflight' \subseteq executed \cup inflight
        PROVE  Checked'
    BY <1>1 DEF Checked
  <1>2. CASE Startup \/ StartFails \/ Signal \/ Drained \/ BackgroundLock \/ BackgroundWrite
    BY <1>1, <1>2 DEF Startup, StartFails, Signal, Drained, BackgroundLock, BackgroundWrite,
      requestVars, Load, ValidateSettings, Build, Probe, Bind, Go
  <1>3. ASSUME NEW q \in Requests,
               \/ Local(q) \/ HealthRead(q) \/ HealthAnswer(q) \/ TakeLock(q)
               \/ Unanswered(q) \/ Replied(q) \/ Hook(q) \/ Note(q) \/ Execute(q)
               \/ Disconnect(q)
        PROVE  Checked'
    BY <1>1, <1>3 DEF Local, HealthRead, HealthAnswer, TakeLock, Unanswered, Replied, Hook,
      Note, Execute, Disconnect
  <1>4. ASSUME NEW q \in Requests, Arrive(q) PROVE Checked'
    <2>1. /\ stage[q] = "new" /\ executed' = executed /\ inflight' = inflight
          /\ \A p \in Requests \ {q} : ask'[p] = ask[p]
      BY <1>4 DEF Arrive, Inv, Typed
    <2>2. executed \cup inflight \subseteq Requests \ {q}
      BY <2>1 DEF Inv, Typed, ReqInv, Came
    <2> QED BY <2>1, <2>2 DEF Checked
  <1>5. ASSUME NEW q \in Requests, Forward(q) PROVE Checked'
    <2>1. /\ ask' = ask /\ executed' = executed
          /\ \/ inflight' = inflight
             \/ inflight' = inflight \cup {q} /\ CheckPath(ask[q].path)
      BY <1>5 DEF Forward
    <2>2. ask[q] \in Asks[q]
      BY <1>5 DEF Forward, Inv, ReqInv, Came
    <2> QED BY <2>1, <2>2 DEF Checked
  <1>6. CASE UNCHANGED vars
    BY <1>1, <1>6 DEF vars, requestVars
  <1> QED BY <1>2, <1>3, <1>4, <1>5, <1>6 DEF Next, Handle

\* The node executes nothing past its interceptor or under /companion, whatever
\* path without a backslash a client asks for, and whatever client and node read
\* into encoded segments: the path the node makes of it is the one that was routed.
THEOREM NoBypass == Spec => []NeverBypassed
  <1>1. Init => Checked
    BY DEF Init, Checked
  <1>2. Inv /\ Checked => NeverBypassed
    <2> SUFFICES ASSUME Inv, Checked, NEW q \in executed \cup inflight,
                        \A k \in DOMAIN ask[q].path : ask[q].path[k] \notin Backslashed
                 PROVE  RouteOf(NodePath(ask[q].path)) = Route(q)
      BY DEF NeverBypassed
    <2>1. q \in Requests
      BY DEF Inv, Typed
    <2>2. ask[q].path \in Seq(STRING) /\ CheckPath(ask[q].path)
      BY <2>1, CompanionAssumption DEF Checked
    <2> QED BY <2>2, CheckedPath DEF Route
  <1> QED BY <1>1, <1>2, Invariant, CheckedNext, PTL DEF Spec
=============================================================================
