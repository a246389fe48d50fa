---------------------------- MODULE AccountRequests ----------------------------
(***************************************************************************)
(* A request for an account's usage or workspaces: the endpoints it may be *)
(* asked at (usage.rs, account_network.rs), the order and the fall-back    *)
(* (endpoint.rs), the retry of workspaces (workspaces.rs); and the way it  *)
(* goes: the account's own proxy, held in a cached session                 *)
(* (proxy_session.rs, utils.rs), or the system's for each host             *)
(* (system_proxy.rs), whose answers are kept and renewed in the background.*)
(***************************************************************************)
EXTENDS Naturals, Sequences, FiniteSets, SequencesExt

CONSTANTS
  Slots,         \* requests under way at once
  Proxies,       \* proxies an account may have of its own
  MaxSessions,   \* of the cache (32 in the code)
  MaxFetches,    \* bound: requests
  MaxSettings    \* bound: changes of the system's settings, and ends of a TTL

ASSUME NetworkBounds ==
  /\ MaxSessions \in Nat \ {0} /\ MaxFetches \in Nat /\ MaxSettings \in Nat
  /\ Proxies \cap {"", "direct", "system"} = {}    \* each is a URL

VARIABLES
  origin,      \* chatgpt_base_url: whose host, and whether it ends in /backend-api
  system,      \* the environment's proxy, the hosts it exempts, the settings, the PAC file
  resolved,    \* each host: the proxy found, whether it is due, and its renewal
  script,      \* the PAC file as last fetched
  sessions,    \* the sessions kept for accounts' proxies: the way each goes
  preferred,   \* the endpoint that last answered a request for usage
  request,     \* the request of each slot
  fetches, settings

networkVars == <<origin, system, resolved, script, sessions, preferred, request,
                 fetches, settings>>
systemVars == <<origin, system, script, settings>>

Hosts == {"official", "relay"}
Endpoints == [host : Hosts, path : {"backend", "wham", "codex", "credits"}]
At(host, path) == [host |-> host, path |-> path]

Unknown == [nothing |-> TRUE]
NoRequest == [pc |-> "idle"]
Settings == {"", "direct", "invalid"} \cup Proxies
SystemWays == {"direct", "system", "script"}
Ways == {"direct", "system", "script", "environment"} \cup Proxies
Failures == {"message", "other", "forbidden"}

-----------------------------------------------------------------------------
(* usage_urls and Network::workspaces.                                     *)

UsageUrls ==
  LET h == origin.host
      given == IF origin.suffixed THEN <<At(h, "backend"), At(h, "codex")>>
               ELSE <<At(h, "backend"), At(h, "wham"), At(h, "codex")>>
      official == <<At("official", "backend"), At("official", "codex")>>
  IN  IF h = "official" THEN given ELSE given \o official
WorkspaceUrls ==
  IF origin.host = "official" THEN <<At("official", "backend")>>
  ELSE <<At(origin.host, "backend"), At("official", "backend")>>
Urls(kind) == IF kind = "usage" THEN UsageUrls ELSE WorkspaceUrls

\* The endpoint that answered last comes first.
PreferredFirst(urls) ==
  IF preferred \in ToSet(urls)
  THEN <<preferred>> \o RemoveAt(urls, CHOOSE i \in DOMAIN urls : urls[i] = preferred)
  ELSE urls

-----------------------------------------------------------------------------
(* The system's proxy for a host.                                          *)

Loopback(host) == host = "relay" /\ origin.loopback

\* The settings: entries in order of preference, and the hosts they exempt.
Entries == {"none", "proxy", "unusable", "script"}
UsableWay(entry) ==
  CASE entry = "none" -> "direct" [] entry = "proxy" -> "system" [] OTHER -> "script"
FirstUsable(entries) ==
  LET usable == SelectSeq(entries, LAMBDA e : e # "unusable")
  IN  IF usable = <<>> THEN "direct" ELSE UsableWay(Head(usable))

\* choose: a PAC file's own entries come first, those that are usable.
MacWay(host, pac) ==
  IF host \in system.ignored THEN "direct"
  ELSE FirstUsable([i \in 1..Len(system.entries) |->
         IF system.entries[i] # "script" THEN system.entries[i]
         ELSE IF pac = "missing" THEN "unusable" ELSE pac])
\* Fixed settings alone, in GNOME and in Windows: a PAC file is not evaluated.
FixedWay(host) ==
  IF host \in system.ignored \/ Head(system.entries) = "script" THEN "direct"
  ELSE FirstUsable(system.entries)

FetchesScript == system.mac /\ "script" \in ToSet(system.entries)
                 /\ (script = Unknown \/ script.due)
ScriptNow == IF FetchesScript THEN [pac |-> system.pac, due |-> FALSE] ELSE script
ResolvedWay(host) ==
  IF system.mac THEN MacWay(host, IF ScriptNow = Unknown THEN "missing" ELSE ScriptNow.pac)
  ELSE FixedWay(host)

\* The environment decides, if it names a proxy; else what was found last.
FromEnvironment == system.environment # "unset"
EnvironmentWay(host) ==
  IF host \in system.exempt \/ system.environment = "invalid" THEN "direct" ELSE "environment"
KeptWay(host) == IF resolved[host] = Unknown THEN ResolvedWay(host) ELSE resolved[host].way
SystemWay(host) ==
  IF Loopback(host) THEN "direct"
  ELSE IF FromEnvironment THEN EnvironmentWay(host) ELSE KeptWay(host)

\* A host's first lookup waits; one that is due is answered, and renewed meanwhile.
Found(way) == [way |-> way, due |-> FALSE, renewal |-> "no"]
Looked(hosts) ==
  [h \in Hosts |->
     IF h \notin hosts \/ Loopback(h) \/ FromEnvironment THEN resolved[h]
     ELSE IF resolved[h] = Unknown THEN Found(ResolvedWay(h))
     ELSE IF resolved[h].due /\ resolved[h].renewal = "no"
     THEN [resolved[h] EXCEPT !.renewal = "reads"] ELSE resolved[h]]
LooksUp(hosts) ==
  /\ resolved' = Looked(hosts)
  /\ script' = IF \E h \in hosts : resolved[h] = Unknown /\ Looked(hosts)[h] # Unknown
               THEN ScriptNow ELSE script

RenewalReads(host) ==
  /\ resolved[host] # Unknown /\ resolved[host].renewal = "reads"
  /\ resolved' = [resolved EXCEPT ![host] = [@ EXCEPT !.renewal = ResolvedWay(host)]]
  /\ script' = ScriptNow
  /\ UNCHANGED <<origin, system, sessions, preferred, request, fetches, settings>>
RenewalStores(host) ==
  /\ resolved[host] # Unknown /\ resolved[host].renewal \in SystemWays
  /\ resolved' = [resolved EXCEPT ![host] = Found(@.renewal)]
  /\ UNCHANGED <<origin, system, script, sessions, preferred, request, fetches, settings>>

\* The TTL of what was found ends; the user changes the settings, a PAC file its answer.
SystemChanges ==
  /\ settings < MaxSettings /\ settings' = settings + 1
  /\ \/ \E h \in Hosts : /\ resolved[h] # Unknown /\ ~resolved[h].due
                         /\ resolved' = [resolved EXCEPT ![h] = [@ EXCEPT !.due = TRUE]]
        /\ UNCHANGED <<system, script>>
     \/ /\ script # Unknown /\ ~script.due /\ script' = [script EXCEPT !.due = TRUE]
        /\ UNCHANGED <<system, resolved>>
     \/ /\ \E e \in {"none", "script"} : system' = [system EXCEPT !.entries = <<e>>]
        /\ UNCHANGED <<script, resolved>>
     \/ /\ \E p \in {"unusable", "missing"} : system' = [system EXCEPT !.pac = p]
        /\ UNCHANGED <<script, resolved>>
  /\ UNCHANGED <<origin, sessions, preferred, request, fetches>>

-----------------------------------------------------------------------------
(* Sessions.                                                               *)

\* The way of a session made for an account's setting.
SessionWay(proxy) == IF proxy = "" THEN "system" ELSE proxy
KeptAny(proxy) == sessions # <<>>    \* variant: whatever the setting
Kept(proxy) == proxy \in DOMAIN sessions
SessionOf(proxy) ==
  IF ~Kept(proxy) THEN SessionWay(proxy)
  ELSE sessions[CHOOSE p \in DOMAIN sessions : proxy \in DOMAIN sessions => p = proxy]

\* A full cache lets any session go.
Cached(proxy) ==
  IF proxy = "" \/ Kept(proxy) THEN {sessions}
  ELSE LET left == IF Cardinality(DOMAIN sessions) < MaxSessions THEN {DOMAIN sessions}
                   ELSE {DOMAIN sessions \ {p} : p \in DOMAIN sessions}
       IN  {[p \in kept \cup {proxy} |-> IF p = proxy THEN SessionWay(proxy) ELSE sessions[p]]
              : kept \in left}

Way(route, host) ==
  IF route = "system" THEN SystemWay(host)
  ELSE IF route # "direct" /\ Loopback(host) THEN "direct" ELSE route

-----------------------------------------------------------------------------
(* EndpointRequests::fetch and workspaces' Client::fetch.                  *)

Start(s, kind, proxy) ==
  LET urls == IF kind = "usage" THEN PreferredFirst(UsageUrls) ELSE WorkspaceUrls
      begun == [pc |-> "sending", kind |-> kind, proxy |-> proxy, route |-> "direct",
                urls |-> urls, waiting |-> {}, errors |-> <<>>, said |-> Unknown, retried |-> FALSE,
                by |-> <<>>, result |-> Unknown]
  IN
  /\ request[s] = NoRequest /\ fetches < MaxFetches /\ fetches' = fetches + 1
  /\ IF proxy = "invalid"
     THEN /\ request' = [request EXCEPT ![s] =
               [begun EXCEPT !.pc = "ended", !.result = [refused |-> TRUE]]]
          /\ UNCHANGED sessions
     ELSE /\ request' = [request EXCEPT ![s] = [begun EXCEPT !.route = SessionOf(proxy)]]
          /\ sessions' \in Cached(proxy)
  /\ UNCHANGED <<systemVars, resolved, preferred>>

\* One endpoint is asked first; when it fails, all the others at once.
ToAsk(r) == IF r.errors = <<>> THEN {Head(r.urls)} ELSE ToSet(Tail(r.urls))
SentTo(r, endpoints) ==
  [e \in endpoints \cup DOMAIN r.by |->
     IF e \in endpoints THEN Way(r.route, e.host) ELSE r.by[e]]
Send(s) ==
  LET r == request[s]
      asked == ToAsk(r)
  IN
  /\ r.pc = "sending"
  /\ request' = [request EXCEPT ![s] =
       [r EXCEPT !.pc = "waiting", !.waiting = asked, !.by = SentTo(r, asked)]]
  /\ IF r.route = "system" THEN LooksUp({e.host : e \in asked})
     ELSE UNCHANGED <<resolved, script>>
  /\ UNCHANGED <<origin, system, sessions, preferred, fetches, settings>>

Answers(s, e) ==
  LET r == request[s] IN
  /\ r.pc = "waiting" /\ e \in r.waiting
  /\ request' = [request EXCEPT ![s] =
       [r EXCEPT !.pc = IF r.kind = "usage" THEN "credits" ELSE "ended", !.waiting = {},
                 !.result = [from |-> e]]]
  /\ preferred' = IF r.kind = "usage" THEN e ELSE preferred
  /\ UNCHANGED <<systemVars, resolved, sessions, fetches>>

\* What a server said is told, rather than what went wrong on the way.
AllErrorsTold(r) == DOMAIN r.errors    \* variant: told with the others
ErrorsTold(r) == IF r.said # Unknown THEN {r.said} ELSE DOMAIN r.errors
Unexplained(r) == r.said = Unknown /\ \E e \in DOMAIN r.errors : r.errors[e] = "forbidden"
FailedAt(r, e, failure) ==
  [r EXCEPT !.waiting = @ \ {e}, !.errors = [x \in DOMAIN @ \cup {e} |->
                                              IF x = e THEN failure ELSE @[x]],
            !.said = IF @ = Unknown /\ failure = "message" THEN e ELSE @]
AfterFailure(r) ==
  IF r.waiting # {} THEN r
  ELSE IF DOMAIN r.errors # ToSet(r.urls) THEN [r EXCEPT !.pc = "sending"]
  ELSE IF r.kind = "workspaces" /\ ~r.retried /\ Unexplained(r)
  THEN [r EXCEPT !.pc = "sending", !.retried = TRUE, !.errors = <<>>]
  ELSE [r EXCEPT !.pc = "ended", !.result = [told |-> ErrorsTold(r)]]
Fails(s, e, failure) ==
  LET r == request[s] IN
  /\ r.pc = "waiting" /\ e \in r.waiting /\ (failure = "forbidden" => r.kind = "workspaces")
  /\ request' = [request EXCEPT ![s] = AfterFailure(FailedAt(r, e, failure))]
  /\ UNCHANGED <<systemVars, resolved, sessions, preferred, fetches>>

\* Reset credits are asked for beside the endpoint that answered, and may be missing.
Credits(s) ==
  LET r == request[s]
      at == At(r.result.from.host, "credits")
  IN
  /\ r.pc = "credits"
  /\ request' = [request EXCEPT ![s] = [r EXCEPT !.pc = "ended", !.by = SentTo(r, {at})]]
  /\ IF r.route = "system" THEN LooksUp({at.host}) ELSE UNCHANGED <<resolved, script>>
  /\ UNCHANGED <<origin, system, sessions, preferred, fetches, settings>>

Return(s) ==
  /\ request[s].pc = "ended"
  /\ request' = [request EXCEPT ![s] = NoRequest]
  /\ UNCHANGED <<systemVars, resolved, sessions, preferred, fetches>>

-----------------------------------------------------------------------------
NetworkInit ==
  /\ origin \in {[host |-> "official", suffixed |-> FALSE, loopback |-> FALSE]}
       \cup [host : {"relay"}, suffixed : BOOLEAN, loopback : BOOLEAN]
  /\ system \in [mac : BOOLEAN, environment : {"unset", "invalid", "proxy"},
                 exempt : SUBSET {"official"}, ignored : SUBSET {"relay"},
                 entries : {<<"proxy">>, <<"script", "proxy">>, <<"unusable", "none">>},
                 pac : {"proxy"}]
  /\ resolved = [h \in Hosts |-> Unknown]
  /\ script = Unknown /\ sessions = <<>> /\ preferred = Unknown
  /\ request = [s \in Slots |-> NoRequest]
  /\ fetches = 0 /\ settings = 0

NetworkNext ==
  \/ \E s \in Slots, kind \in {"usage", "workspaces"}, proxy \in Settings : Start(s, kind, proxy)
  \/ \E s \in Slots : Send(s) \/ Credits(s) \/ Return(s)
  \/ \E s \in Slots, e \in Endpoints : Answers(s, e) \/ \E f \in Failures : Fails(s, e, f)
  \/ \E h \in Hosts : RenewalReads(h) \/ RenewalStores(h)
  \/ SystemChanges

NetworkSpec == NetworkInit /\ [][NetworkNext]_networkVars

Results == {Unknown, [refused |-> TRUE]} \cup [from : Endpoints]
NetworkTypeOK ==
  /\ \A h \in Hosts : resolved[h] \in {Unknown}
       \cup [way : SystemWays, due : BOOLEAN, renewal : SystemWays \cup {"no", "reads"}]
  /\ DOMAIN sessions \subseteq Settings /\ Cardinality(DOMAIN sessions) <= MaxSessions
  /\ preferred \in Endpoints \cup {Unknown}
  /\ \A s \in Slots : request[s] = NoRequest \/
       /\ request[s].pc \in {"sending", "waiting", "credits", "ended"}
       /\ request[s].waiting \subseteq Endpoints
       /\ request[s].result \in Results \/ "told" \in DOMAIN request[s].result
       /\ \A e \in DOMAIN request[s].by : request[s].by[e] \in Ways

-----------------------------------------------------------------------------
(* What is promised.                                                       *)

\* Whatever sessions are kept, renewed or let go, each request goes its account's way:
\* through the account's own proxy and no other, directly where the account or the
\* environment says so, and by the system's way otherwise; a relay on this computer
\* is always reached directly.
RightWay(proxy, host) ==
  IF Loopback(host) \/ proxy = "direct" THEN {"direct"}
  ELSE IF proxy # "" THEN {proxy}
  ELSE IF system.environment = "unset" THEN SystemWays
  ELSE IF system.environment = "invalid" \/ host \in system.exempt THEN {"direct"}
  ELSE {"environment"}
OwnWay ==
  \A s \in Slots : request[s] # NoRequest =>
    \A e \in DOMAIN request[s].by : request[s].by[e] \in RightWay(request[s].proxy, e.host)

\* A request fails only once each of its endpoints, asked once, has, the one that
\* answered last before the others; what a server said is told, not hidden in a list of
\* errors; and a refusal of the list of workspaces that none explained is asked again.
FailsOnceAllDid ==
  \A s \in Slots : request[s] # NoRequest =>
    LET r == request[s] IN
    "told" \in DOMAIN r.result =>
      /\ DOMAIN r.errors = ToSet(Urls(r.kind))
      /\ IF \E e \in DOMAIN r.errors : r.errors[e] = "message"
         THEN \E e \in DOMAIN r.errors : r.errors[e] = "message" /\ r.result.told = {e}
         ELSE /\ r.result.told = DOMAIN r.errors
              /\ (\E e \in r.result.told : r.errors[e] = "forbidden") => r.retried

\* Whatever was cached, renewed late or changed in between, an account's requests go its
\* own way, and fail only once every endpoint did.
RequestsGoTheirWay == OwnWay /\ FailsOnceAllDid
=============================================================================
