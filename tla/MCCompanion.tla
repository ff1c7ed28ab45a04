---------------------------- MODULE MCCompanion -----------------------------
(***************************************************************************)
(* A small instance of Companion: settings that are sound and settings     *)
(* that fail each check, one client that asks anything and one that asks   *)
(* what others may wait for.                                               *)
(***************************************************************************)
EXTENDS Companion, TLC

CONSTANTS client, operator

Hooked ==
    [Default EXCEPT !.webhook.url = Url("https", "name", "dotted"), !.webhook.secret = "s"]

At(url) == [Hooked EXCEPT !.rln.base_url = url]

MCFiles ==
    {Hooked,
     [Hooked EXCEPT !.service.auth_token = "token"],
     [Hooked EXCEPT !.webhook.secret = ""],
     [Hooked EXCEPT !.webhook.url = Garbage],
     [Hooked EXCEPT !.webhook.url.scheme = "ftp"],
     [Hooked EXCEPT !.service.listen_port = 0],
     [Hooked EXCEPT !.engine.reconcile_backoff_secs = 0],
     [Hooked EXCEPT !.webhook.dispatch_interval_secs = 0],
     [Hooked EXCEPT !.rln.base_url.scheme = "ftp"],
     At(Garbage)}
    \cup {At(Url("http", h.family, h.is)) :
            h \in {g \in Host : g.is \in {"mapped_public", "public", "dotted"}}}

NoArgs == [listen_port |-> {}, rln_url |-> {}, db_path |-> {}]

MCCommandLines ==
    {NoArgs,
     [NoArgs EXCEPT !.rln_url = {Url("http", "v4", "public")}],
     [NoArgs EXCEPT !.rln_url = {Url("http", "v4", "loopback")}],
     [NoArgs EXCEPT !.listen_port = {0}, !.db_path = {"other.sqlite"}]}

Plain(method, path) ==
    [method |-> method, path |-> path, header |-> NoHeader, big |-> FALSE]

\* A success, one whose body does not parse, and refusals over the client's token
\* and over the node's own state.
MCReplies ==
    {Success, [Success EXCEPT !.readable = FALSE],
     Refusal(401, "Unauthorized"), Refusal(403, "LockedNode")}

MCEncoded == {"%2e%2e", "%75nlock"}

MCBackslashed == {"node\\.\\info"}

MCReading ==
    ("%2e%2e" :> <<"..">>) @@ ("%75nlock" :> <<"unlock">>)
    @@ ("node\\.\\info" :> <<"node", ".", "info">>)

Headers ==
    {NoHeader, [scheme |-> "bEaReR", token |-> "token"],
     [scheme |-> "Bearer", token |-> "wrong"], [scheme |-> "Basic", token |-> "token"]}

MCAsks ==
    (client :>
        {Plain("POST", p) : p \in
            {<<"rgbinvoice">>, <<"failtransfers">>, <<"unlock">>,
             <<"">>, <<"", "unlock">>, <<"unlock", "">>, <<".", "unlock">>, <<"x", "..", "unlock">>,
             <<"x", "%2e%2e", "unlock">>, <<"%75nlock">>, <<"node\\.\\info">>, <<"companion">>,
             <<"companion", "">>, <<"companion", "nodeinfo">>,
             <<"companion", "..", "unlock">>, <<"x", "..", "companion", "payments">>}}
        \cup {Plain("GET", p) : p \in {<<"rgbinvoice">>, <<"companion", "health">>}}
        \cup {[Plain("GET", p) EXCEPT !.header = h] : h \in Headers,
                p \in {<<"companion", "payments">>, <<"companion", "transfers", "id">>}}
        \cup {[Plain(m, p) EXCEPT !.big = TRUE] : m \in {"GET", "POST"},
                p \in {<<"rgbinvoice">>, <<"companion", "payments">>}})
    @@ (operator :>
        {Plain("POST", <<"refreshtransfers">>), Plain("POST", <<"lock">>),
         Plain("POST", <<"unlock">>)})
=============================================================================
