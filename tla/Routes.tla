------------------------------- MODULE Routes -------------------------------
(***************************************************************************)
(* Who answers a request: the routes of the companion's own endpoints      *)
(* (api.rs), of the interceptors (intercept.rs) and the fallback, which    *)
(* forwards; the path check of the proxy (proxy.rs) and the bearer token   *)
(* of the endpoints.  A path is the sequence of its segments, matched      *)
(* literally; a segment "" comes from a doubled or a trailing slash.       *)
(***************************************************************************)
EXTENDS Naturals, Sequences, SequencesExt

CONSTANTS
    Encoded,      \* segments with a percent sign
    Backslashed,  \* the other segments with a backslash, and no percent sign
    Reading       \* the segments the HTTP client and the node take each of them for

ASSUME RoutesAssumption ==
    /\ \A s \in Encoded \cup Backslashed : s \in STRING \ {"", ".", ".."}
    /\ Encoded \cap Backslashed = {}
    /\ Reading \in [Encoded \cup Backslashed -> Seq(STRING)]

Recorders ==
    {"rgbinvoice", "sendrgb", "keysend", "sendpayment", "lninvoice",
     "issueassetnia", "issueassetcfa", "issueassetuda", "issueassetifa",
     "inflate", "assetlink"}

Serialized == {"refreshtransfers", "failtransfers"}

Lifecycle == {"init", "unlock", "restore", "lock", "shutdown"}

\* interceptor_routes
Intercepted == Recorders \cup Serialized \cup Lifecycle

\* /companion/*rest needs at least one character after the slash.
IsCompanion(path) ==
    Len(path) > 1 /\ path[1] = "companion" /\ path # <<"companion", "">>

\* The endpoints behind require_token.
IsProtected(path) ==
    \/ path \in {<<"companion", "transfers">>, <<"companion", "payments">>,
                 <<"companion", "openapi.yaml">>}
    \/ /\ Len(path) = 3 /\ path[3] # ""
       /\ path[1] = "companion" /\ path[2] = "transfers"

\* routes, merged with interceptor_routes over the fallback.
RouteOf(path) ==
    CASE path = <<"companion", "health">>         -> "health"
      [] IsProtected(path)                        -> "protected"
      [] /\ IsCompanion(path) /\ ~IsProtected(path)
         /\ path # <<"companion", "health">>      -> "notfound"
      [] Len(path) = 1 /\ path[1] \in Intercepted -> path[1]
      [] OTHER                                    -> "fallback"

Proxied(route) == route \notin {"health", "protected", "notfound"}

\* The method each route is registered with; axum answers 405 to another.
Allows(route, method) ==
    CASE route \in {"health", "protected"}   -> method = "GET"
      [] route \in Intercepted               -> method = "POST"
      [] OTHER                               -> TRUE

-----------------------------------------------------------------------------
\* Mutant of CheckPath: percent-encoding passes.
CheckPathEncoded(path) ==
    \A k \in DOMAIN path : path[k] \notin {"", ".", ".."}

\* check_path: no percent sign anywhere, no empty segment, no dots.
CheckPath(path) ==
    \A k \in DOMAIN path : path[k] \notin Encoded \cup {"", ".", ".."}

\* What the HTTP client makes of a path before the node sees it (the comment at
\* proxy.rs:153, and the client's own rule for backslashes): empty and dot
\* segments go, a double dot takes the segment before it along.
Step(path, segment) ==
    CASE segment \in {"", "."} -> path
      [] segment = ".."        -> IF path = <<>> THEN path ELSE Front(path)
      [] OTHER                 -> Append(path, segment)

Walk(path, segments) ==
    LET upto[k \in 0..Len(segments)] ==
            IF k = 0 THEN path ELSE Step(upto[k - 1], segments[k])
    IN upto[Len(segments)]

\* An escape is undone and a backslash is a slash before the segments are looked at.
Take(path, segment) ==
    IF segment \in Encoded \cup Backslashed THEN Walk(path, Reading[segment])
    ELSE Step(path, segment)

NodePath(path) ==
    LET upto[k \in 0..Len(path)] ==
            IF k = 0 THEN <<>> ELSE Take(upto[k - 1], path[k])
    IN upto[Len(path)]

-----------------------------------------------------------------------------
\* An Authorization header as split_once finds it: a scheme, white space or
\* none, and a token, trimmed.
NoHeader == [scheme |-> "", token |-> ""]

\* Mutant of BearerToken: the scheme is not looked at.
BearerTokenAny(header) ==
    IF header.token # "" THEN header.token ELSE "none"

BearerToken(header) ==
    IF header.scheme \in {"Bearer", "bEaReR"} /\ header.token # ""
    THEN header.token ELSE "none"

\* require_token, with service.auth_token.
Authorized(header, expected) ==
    \/ expected = "none"
    \/ BearerToken(header) # "none" /\ BearerToken(header) = expected
=============================================================================
