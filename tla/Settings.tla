------------------------------ MODULE Settings ------------------------------
(***************************************************************************)
(* The configuration (config.rs): its sections with their defaults, what   *)
(* the command line overrides (main.rs) and what validation refuses.  A    *)
(* URL is what parsing it yields; an address is one of the classes         *)
(* std::net tells apart.                                                   *)
(***************************************************************************)
EXTENDS Naturals, Sequences, FiniteSetsExt

CONSTANT Text   \* what a setting that is a text may hold

None == "none"

\* What a text setting is that was not set.
Unset == ""

ASSUME TextAssumption == {None, Unset, "companion.sqlite"} \subseteq Text

\* The two schemes that are taken, one that is not, and none.
Scheme == {"http", "https", "ftp", None}

Address4 == {"loopback", "private", "public"}

Address6 == {"loopback", "unique_local", "link_local", "mapped_loopback",
             "mapped_private", "mapped_public", "public"}

Name == {"localhost", "bare", "dotted"}

Host == [family : {"v4"}, is : Address4] \cup [family : {"v6"}, is : Address6]
          \cup [family : {"name"}, is : Name]

Url(scheme, family, is) ==
    [text |-> TRUE, parses |-> TRUE, scheme |-> scheme,
     host |-> [family |-> family, is |-> is]]

NoUrl ==
    [text |-> FALSE, parses |-> FALSE, scheme |-> None,
     host |-> [family |-> None, is |-> None]]

Garbage == [NoUrl EXCEPT !.text = TRUE]

\* What a URL in a setting can be.
Urls ==
    [text : BOOLEAN, parses : BOOLEAN, scheme : Scheme, host : Host \cup {NoUrl.host}]

-----------------------------------------------------------------------------
Service == [listen_port |-> 3101, auth_token |-> None]

Rln ==
    [base_url |-> Url("http", "v4", "loopback"), token |-> None, network |-> None,
     request_timeout_secs |-> 120, proxy_timeout_secs |-> 600,
     proxy_max_body_mb |-> 64, allow_public_url |-> FALSE]

Engine ==
    [refresh_interval_secs |-> 10, skip_sync |-> FALSE, reap_interval_secs |-> 300,
     payments_poll_interval_secs |-> 3, reconcile_backoff_secs |-> 5,
     reconcile_max_wait_secs |-> 600]

Sync == [full_interval_secs |-> 600, page_size |-> 100]

Webhook ==
    [url |-> NoUrl, secret |-> Unset, max_attempts |-> 10, backoff_base_secs |-> 2,
     backoff_cap_secs |-> 300, dispatch_interval_secs |-> 2]

Database == [path |-> "companion.sqlite"]

\* Config::default: what load returns without a file.
Default ==
    [service |-> Service, rln |-> Rln, engine |-> Engine, sync |-> Sync,
     webhook |-> Webhook, database |-> Database]

\* Every configuration there is; None stands for an optional setting left out.
Config ==
    [service : [listen_port : Nat, auth_token : Text],
     rln : [base_url : Urls, token : Text, network : Text,
            request_timeout_secs : Nat, proxy_timeout_secs : Nat,
            proxy_max_body_mb : Nat, allow_public_url : BOOLEAN],
     engine : [refresh_interval_secs : Nat, skip_sync : BOOLEAN,
               reap_interval_secs : Nat, payments_poll_interval_secs : Nat,
               reconcile_backoff_secs : Nat, reconcile_max_wait_secs : Nat],
     sync : [full_interval_secs : Nat, page_size : Nat],
     webhook : [url : Urls, secret : Text, max_attempts : Nat,
                backoff_base_secs : Nat, backoff_cap_secs : Nat,
                dispatch_interval_secs : Nat],
     database : [path : Text]]

\* The arguments of the command line that override settings.
Overrides ==
    [listen_port : SUBSET Nat, rln_url : SUBSET Urls, db_path : SUBSET Text]

\* An argument is the set of what was given for it: nothing or one value.
Given(argument, setting) ==
    IF argument = {} THEN setting ELSE CHOOSE value \in argument : TRUE

\* apply_overrides
ApplyOverrides(cfg, args) ==
    [cfg EXCEPT
        !.service.listen_port = Given(args.listen_port, @),
        !.rln.base_url        = Given(args.rln_url, @),
        !.database.path       = Given(args.db_path, @)]

-----------------------------------------------------------------------------
IsHttp(url) == url.scheme \in {"http", "https"}

\* Mutant of IsPrivateHost: a mapped address is taken for a local one.
IsPrivateHostMapped(host) == host.is \notin {"public", "dotted"}

IsPrivateHost(host) ==
    CASE host.family = "v4"   -> host.is \in {"loopback", "private"}
      [] host.family = "v6"   -> host.is \in {"loopback", "unique_local", "link_local",
                                              "mapped_loopback", "mapped_private"}
      [] host.family = "name" -> host.is \in {"localhost", "bare"}
      [] OTHER                -> FALSE

Intervals(cfg) ==
    <<cfg.engine.refresh_interval_secs, cfg.engine.reap_interval_secs,
      cfg.engine.payments_poll_interval_secs, cfg.engine.reconcile_backoff_secs,
      cfg.sync.full_interval_secs, cfg.webhook.dispatch_interval_secs>>

\* The checks of validate, in their order, and whether each complains.
Checks(cfg) ==
    <<[error |-> "MissingWebhook",
       complains |-> ~cfg.webhook.url.text \/ cfg.webhook.secret = Unset],
      [error |-> "InvalidWebhookUrl",
       complains |-> ~cfg.webhook.url.parses \/ ~IsHttp(cfg.webhook.url)],
      [error |-> "InvalidPort", complains |-> cfg.service.listen_port = 0],
      [error |-> "ZeroInterval",
       complains |-> \E k \in DOMAIN Intervals(cfg) : Intervals(cfg)[k] = 0],
      \* An http or https URL has a host, so that it may lack one is left out.
      [error |-> "InvalidRlnUrl",
       complains |-> ~cfg.rln.base_url.parses \/ ~IsHttp(cfg.rln.base_url)],
      [error |-> "PublicRlnUrl",
       complains |-> /\ ~cfg.rln.allow_public_url
                     /\ ~IsPrivateHost(cfg.rln.base_url.host)]>>

\* validate: the first complaint, or "Ok".
Validate(cfg) ==
    LET failed == {k \in DOMAIN Checks(cfg) : Checks(cfg)[k].complains} IN
    IF failed = {} THEN "Ok" ELSE Checks(cfg)[Min(failed)].error
=============================================================================
