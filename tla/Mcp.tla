-------------------------------- MODULE Mcp ---------------------------------
(* The MCP manager: discovery, connection, login, calls and shutdown          *)
(* (wizolt/mcp/manager.py, mcp/tokens.py, tools/mcp.py and the /mcp modal).   *)
(*                                                                            *)
(* Every operation is a coroutine on the runtime's loop; between two awaits   *)
(* nothing else runs.  The start-up discovery is a background task and goes   *)
(* on beside everything; of the others either one turn, one /mcp command or   *)
(* the modal is active, and the modal starts one toggle per server.  An       *)
(* operation works on each of its servers in a flow of its own.               *)
EXTENDS Integers, FiniteSets

CONSTANTS Servers,     \* the configured servers
          AutoConnect, \* those with auto_connect
          Workers,     \* MAX_DISCOVERY_WORKERS
          Fickle,      \* bound: the servers with a login already, whose token expires, and that answer late
          MaxOps       \* bound: operations begun

ASSUME McpAssumption ==
  /\ AutoConnect \subseteq Servers /\ Fickle \subseteq Servers
  /\ Workers \in Nat \ {0} /\ MaxOps \in Nat \ {0}

VARIABLES setup,    \* parse_configs: plain, auth = "oauth", refused, or naming an unset variable
          op,       \* the operations begun: what each is and where its flows are
          disc,     \* _discovering_servers, _discovery_failed, discovery_status
          srv,      \* the catalog, server_errors, server_skips, _auto_read_done
          cred,     \* the token store: the registered client and the token
          gate,     \* _oauth_lock: the flow that holds it
          closed    \* _closed

vars == <<setup, op, disc, srv, cred, gate, closed>>

Ops == 1..MaxOps
Kinds == {"none", "auto", "orphans", "connect", "toggle", "disconnect", "mention", "call", "over"}
Out == [at |-> "out", first |-> FALSE, stop |-> "no"]
At(at) == [Out EXCEPT !.at = at]
NoOp == [kind |-> "none", cut |-> FALSE, flow |-> [s \in Servers |-> Out]]
Unknown == [tools |-> FALSE, issue |-> "none", tried |-> FALSE]
Erased == [client |-> 0, token |-> 0]
Older == [client |-> MaxOps + 1, token |-> MaxOps + 1]

\* Where a flow holds the login gate, and where it has an operation in _tasks.
LoginAt == {"auth", "registered", "granted"}
TaskAt == LoginAt \cup {"fetch", "doc", "calling"}
Ended == {"out", "done"}
FlowAt == TaskAt \cup Ended \cup {"queued", "probe", "check", "gate", "clear", "drop", "read", "resolve"}

Oauth == {s \in Servers : setup[s] = "oauth"}

Init == /\ setup \in {f \in [Servers -> {"plain", "oauth", "invalid", "unset"}] : \A s \in Fickle : f[s] = "oauth"}
        /\ op = [o \in Ops |-> NoOp]
        /\ disc = [count |-> [s \in Servers |-> 0], failed |-> FALSE, status |-> "stale"]
        /\ srv = [s \in Servers |-> Unknown]
        /\ cred = [s \in Servers |-> IF s \in Fickle THEN Older ELSE Erased]
        /\ gate = {}
        /\ closed = FALSE

-----------------------------------------------------------------------------
(* The catalog and the _discovery region                                      *)

Enter(d, names) ==
  [count |-> [s \in Servers |-> d.count[s] + (IF s \in names THEN 1 ELSE 0)],
   failed |-> d.failed /\ \E s \in Servers : d.count[s] > 0,
   status |-> "discovering"]
\* Mutant: the name is popped although another discovery still counts it.
Leave_Pops(d, names, bad) ==
  LET count == [s \in Servers |-> IF s \in names THEN 0 ELSE d.count[s]]
  IN [count |-> count, failed |-> d.failed \/ bad,
      status |-> IF \E s \in Servers : count[s] > 0 THEN d.status ELSE "ready"]

Leave(d, names, bad) ==
  LET count == [s \in Servers |-> d.count[s] - (IF s \in names THEN 1 ELSE 0)]
      failed == d.failed \/ bad
      settled == IF failed THEN "error" ELSE "ready"
  IN [count |-> count, failed |-> failed,
      status |-> IF \E s \in Servers : count[s] > 0 THEN d.status ELSE settled]

Discovering(s) == disc.count[s] > 0
Connected(s) == srv[s].tools
Admitted(s) == Connected(s) /\ srv[s].issue = "none"

\* set_server_error and set_server_skip forget the server first.
Failed(issue) == [Unknown EXCEPT !.issue = issue]
Found(s) == [srv[s] EXCEPT !.tools = TRUE, !.issue = "none"]
ErrorPopped(s) == [srv[s] EXCEPT !.issue = IF @ = "skip" THEN @ ELSE "none"]

Record(s, info) == srv' = [srv EXCEPT ![s] = info]

-----------------------------------------------------------------------------
(* Flows.  `ops` is the value of op before the step, or with the operation    *)
(* the step begins.                                                           *)

Flow(o, s) == op[o].flow[s]
Goes(ops, o, s, f) == op' = [ops EXCEPT ![o].flow[s] = f]
IsLast(ops, o, s) == \A t \in Servers \ {s} : ops[o].flow[t].at \in Ended

\* The flow ends; with the last one its operation, and the region of discover_auto.
Ends(ops, o, s, d) ==
  LET last == IsLast(ops, o, s)
  IN /\ op' = IF last THEN [ops EXCEPT ![o] = [NoOp EXCEPT !.kind = "over"]] ELSE [ops EXCEPT ![o].flow[s] = At("done")]
     /\ disc' = IF last /\ ops[o].kind = "auto" THEN Leave(d, AutoConnect, ops[o].cut) ELSE d

\* discover_server has a region of its own, discover_auto one for all its servers.
OwnRegion(ops, o) == ops[o].kind \notin {"auto", "orphans"}
Entered(ops, o, s) == IF OwnRegion(ops, o) THEN Enter(disc, {s}) ELSE disc
Exited(o, s, bad) == IF OwnRegion(op, o) THEN Leave(disc, {s}, bad) ELSE disc

\* _discover_one up to its first await.
Discover(ops, o, s, first) ==
  LET d == Entered(ops, o, s)
      left == IF OwnRegion(ops, o) THEN Leave(d, {s}, FALSE) ELSE d
      fails(issue) == Record(s, Failed(issue)) /\ Ends(ops, o, s, left)
  IN IF setup[s] = "invalid" THEN fails("error")
     ELSE IF setup[s] = "unset" THEN fails("skip")
     ELSE IF s \notin Oauth /\ closed THEN fails("error")
     ELSE /\ Goes(ops, o, s, [At(IF s \in Oauth THEN "check" ELSE "fetch") EXCEPT !.first = first])
          /\ disc' = d
          /\ UNCHANGED srv

\* The end of _discover_one: connect_server decides whether to log in again.
Discovered(o, s, info) ==
  /\ Record(s, info)
  /\ IF Flow(o, s).first /\ info.issue = "auth"
     THEN Goes(op, o, s, At("gate")) /\ disc' = Exited(o, s, FALSE)
     ELSE Ends(op, o, s, Exited(o, s, FALSE))

\* _resolve_server and _bounded, up to their first await: of call_tool, and of read_resource.
CallAt(s) == IF s \in Oauth THEN "resolve" ELSE IF Admitted(s) /\ ~closed THEN "calling" ELSE "done"
ReadAt(s) == IF s \in Oauth THEN "read" ELSE IF Admitted(s) /\ ~closed THEN "doc" ELSE CallAt(s)
Reaches(ops, o, s, at) == IF at = "done" THEN Ends(ops, o, s, disc) ELSE Goes(ops, o, s, At(at)) /\ UNCHANGED disc

-----------------------------------------------------------------------------
(* Beginnings                                                                 *)

Fresh(o) == op[o].kind = "none" /\ \A p \in Ops : p < o => op[p].kind # "none"
Begun(o, kind, names, at) ==
  [op EXCEPT ![o] = [kind |-> kind, cut |-> FALSE, flow |-> [s \in Servers |-> IF s \in names THEN At(at) ELSE Out]]]

\* A cancelled batch returns before its last flow has unwound.
Foreground == {o \in Ops : op[o].kind \in {"toggle", "disconnect", "mention", "call"} \/ (op[o].kind = "connect" /\ ~op[o].cut)}

DiscoverAuto ==
  /\ AutoConnect # {} /\ Fresh(1)
  /\ op' = Begun(1, "auto", AutoConnect, "queued")
  /\ disc' = Enter(disc, AutoConnect)
  /\ UNCHANGED <<srv, cred, gate, closed, setup>>

\* /mcp connect with several names; with one it is what a toggle does, with nothing beside it.
ConnectServers(o, names) ==
  /\ Fresh(o) /\ Foreground = {} /\ Cardinality(names) > 1
  /\ op' = Begun(o, "connect", names, "queued")
  /\ UNCHANGED <<disc, srv, cred, gate, closed, setup>>

\* disconnect_server up to its await.
Disconnects(o, s, kind) ==
  /\ IF s \in Oauth THEN op' = Begun(o, kind, {s}, "drop") /\ UNCHANGED srv
                    ELSE op' = Begun(o, "over", {}, "out") /\ Record(s, Unknown)
  /\ UNCHANGED <<disc, cred, gate, closed, setup>>

DisconnectServer(o, s) == Fresh(o) /\ Foreground = {} /\ Disconnects(o, s, "disconnect")

\* Enter in the modal: one transition per server, several servers at once.
Toggle(o, s) ==
  /\ Fresh(o)
  /\ \A p \in Foreground : op[p].kind = "toggle" /\ op[p].flow[s].at = "out"
  /\ IF Connected(s) THEN Disconnects(o, s, "toggle")
     ELSE op' = Begun(o, "toggle", {s}, "queued") /\ UNCHANGED <<disc, srv, cred, gate, closed, setup>>

\* A turn whose message names the server; one already there or on its way is only rendered.
Mention(o, s) ==
  /\ Fresh(o) /\ Foreground = {}
  /\ ~Connected(s) /\ ~Discovering(s)
  /\ Discover(Begun(o, "mention", {s}, "queued"), o, s, FALSE)
  /\ UNCHANGED <<cred, gate, closed, setup>>

\* MCPTool.call: the document its description names first, once, then the call.
Call(o, s) ==
  LET ops == Begun(o, "call", {s}, "queued")
      reading == Connected(s) /\ ~srv[s].tried
      at == IF reading THEN ReadAt(s) ELSE CallAt(s)
  IN /\ Fresh(o) /\ Foreground = {}
     /\ setup[s] \in {"plain", "oauth"}
     /\ Reaches(ops, o, s, at)
     /\ srv' = [srv EXCEPT ![s].tried = @ \/ reading]
     /\ UNCHANGED <<cred, gate, closed, setup>>

-----------------------------------------------------------------------------
(* Steps of a flow                                                            *)

Runs(o, s, at) == Flow(o, s).at = at /\ ~op[o].cut /\ Flow(o, s).stop = "no"
HasTokens(s) == cred[s].token # 0

\* A worker of _gather_bounded is free, or the task of a toggle starts.
Start(o, s) ==
  /\ Runs(o, s, "queued")
  /\ Cardinality({t \in Servers : Flow(o, t).at \notin Ended \cup {"queued"}}) < Workers
  /\ IF op[o].kind # "auto" /\ s \in Oauth
     THEN Goes(op, o, s, At("probe")) /\ UNCHANGED disc /\ UNCHANGED srv
     ELSE Discover(op, o, s, FALSE)
  /\ UNCHANGED <<cred, gate, closed, setup>>

\* connect_server, interactive: a stored token is tried before a login.
Probed(o, s) ==
  /\ Runs(o, s, "probe")
  /\ IF HasTokens(s) THEN Discover(op, o, s, TRUE)
     ELSE Goes(op, o, s, At("gate")) /\ UNCHANGED disc /\ UNCHANGED srv
  /\ UNCHANGED <<cred, gate, closed, setup>>

Checked(o, s) ==
  /\ Runs(o, s, "check")
  /\ IF ~HasTokens(s) THEN Discovered(o, s, Failed("auth"))
     ELSE IF closed THEN Discovered(o, s, Failed("error"))
     ELSE Goes(op, o, s, [Flow(o, s) EXCEPT !.at = "fetch"]) /\ UNCHANGED disc /\ UNCHANGED srv
  /\ UNCHANGED <<cred, gate, closed, setup>>

Issues(s) == IF s \in Oauth THEN {"auth", "error"} ELSE {"error"}

Fetched(o, s) ==
  /\ Runs(o, s, "fetch")
  /\ \E info \in {Found(s)} \cup {Failed(i) : i \in Issues(s)} : Discovered(o, s, info)
  /\ UNCHANGED <<cred, gate, closed, setup>>

TakeGate(o, s) ==
  /\ Runs(o, s, "gate")
  /\ gate = {}
  /\ gate' = {<<o, s>>}
  /\ Goes(op, o, s, At("clear"))
  /\ UNCHANGED <<disc, srv, cred, closed, setup>>

\* MCPFileTokenStore.clear_server: the token and the client it was issued to.
Cleared(s) == cred' = [cred EXCEPT ![s] = Erased]

LoginFails(o, s, info) == Record(s, info) /\ Ends(op, o, s, disc) /\ gate' = {}

Authenticate(o, s) ==
  /\ Runs(o, s, "clear")
  /\ Cleared(s)
  /\ IF closed THEN LoginFails(o, s, Failed("error"))
     ELSE Goes(op, o, s, At("auth")) /\ UNCHANGED <<disc, gate>> /\ UNCHANGED srv
  /\ UNCHANGED <<closed, setup>>

\* The OAuth client registers the port of this login unless a client is stored, ...
Register(o, s) ==
  /\ Runs(o, s, "auth")
  /\ cred' = [cred EXCEPT ![s].client = IF @ = 0 THEN o ELSE @]
  /\ Goes(op, o, s, At("registered"))
  /\ UNCHANGED <<disc, srv, gate, closed, setup>>

\* ... and stores the token the browser came back with on that port.
Grant(o, s) ==
  /\ Runs(o, s, "registered")
  /\ cred' = [cred EXCEPT ![s].token = o]
  /\ Goes(op, o, s, At("granted"))
  /\ UNCHANGED <<disc, srv, gate, closed, setup>>

LoggedIn(o, s) ==
  /\ Runs(o, s, "granted")
  /\ gate' = {}
  /\ disc' = Enter(disc, {s})
  /\ Goes(op, o, s, At("check"))
  /\ Record(s, ErrorPopped(s))
  /\ UNCHANGED <<cred, closed, setup>>

LoginRefused(o, s) ==
  /\ Flow(o, s).at \in LoginAt /\ Runs(o, s, Flow(o, s).at)
  /\ \E i \in Issues(s) : LoginFails(o, s, Failed(i))
  /\ UNCHANGED <<cred, closed, setup>>

Dropped(o, s) ==
  /\ Runs(o, s, "drop")
  /\ Cleared(s)
  /\ Record(s, Unknown)
  /\ Ends(op, o, s, disc)
  /\ UNCHANGED <<gate, closed, setup>>

\* _resolve_server after its await: the server is looked at again.
ReadResolved(o, s) ==
  LET ready == HasTokens(s) /\ Admitted(s) /\ ~closed
  IN /\ Runs(o, s, "read")
     /\ Goes(op, o, s, At(IF ready THEN "doc" ELSE "resolve"))
     /\ UNCHANGED <<disc, srv, cred, gate, closed, setup>>

\* Mutant: the server is not looked at again after the token store answered.
CallResolved_Stale(o, s) ==
  /\ Runs(o, s, "resolve")
  /\ Reaches(op, o, s, IF HasTokens(s) /\ ~closed THEN "calling" ELSE "done")
  /\ UNCHANGED <<srv, cred, gate, closed, setup>>

CallResolved(o, s) ==
  /\ Runs(o, s, "resolve")
  /\ Reaches(op, o, s, IF HasTokens(s) /\ Admitted(s) /\ ~closed THEN "calling" ELSE "done")
  /\ UNCHANGED <<srv, cred, gate, closed, setup>>

\* The document arrived or could not be read: either way the call follows.
DocRead(o, s) == Runs(o, s, "doc") /\ Reaches(op, o, s, CallAt(s)) /\ UNCHANGED <<srv, cred, gate, closed, setup>>
Called(o, s) == Runs(o, s, "calling") /\ Ends(op, o, s, disc) /\ UNCHANGED <<srv, cred, gate, closed, setup>>

-----------------------------------------------------------------------------
(* Deadlines, cancellation and shutdown                                       *)

\* _bounded's deadline passes: the task is cancelled and its client awaited.
Deadline(o, s) ==
  /\ s \in Fickle /\ Flow(o, s).at \in TaskAt /\ Runs(o, s, Flow(o, s).at)
  /\ Goes(op, o, s, [Flow(o, s) EXCEPT !.stop = "timeout"])
  /\ UNCHANGED <<disc, srv, cred, gate, closed, setup>>

TimedOut(o, s) ==
  /\ ~op[o].cut /\ Flow(o, s).stop = "timeout"
  /\ CASE Flow(o, s).at = "fetch" -> Discovered(o, s, Failed("error")) /\ UNCHANGED gate
       [] Flow(o, s).at \in LoginAt -> LoginFails(o, s, Failed("error"))
       [] Flow(o, s).at = "doc" -> Reaches(op, o, s, CallAt(s)) /\ UNCHANGED srv /\ UNCHANGED gate
       [] OTHER -> Ends(op, o, s, disc) /\ UNCHANGED srv /\ UNCHANGED gate
  /\ UNCHANGED <<cred, closed, setup>>

\* Ctrl-C or shutdown cancels the task of an operation.
Cancel(o) ==
  /\ op[o].kind \notin {"none", "over"} /\ ~op[o].cut
  /\ op' = [op EXCEPT ![o].cut = TRUE]
  /\ UNCHANGED <<disc, srv, cred, gate, closed, setup>>

\* close(): refuse what comes, cancel what is in flight.
Close ==
  /\ ~closed
  /\ closed' = TRUE
  /\ op' = [o \in Ops |-> [op[o] EXCEPT !.flow = [s \in Servers |->
              [Flow(o, s) EXCEPT !.stop = IF Flow(o, s).at \in TaskAt /\ @ = "no" THEN "cancel" ELSE @]]]]
  /\ UNCHANGED <<disc, srv, cred, gate, setup>>

\* gather raises with its first cancelled child: the region of discover_auto is left,
\* the children that are still unwinding go on without it.
Abandon(o, s) ==
  IF op[o].kind = "auto"
  THEN /\ op' = IF IsLast(op, o, s) THEN [op EXCEPT ![o] = [NoOp EXCEPT !.kind = "over"]]
                ELSE [op EXCEPT ![o].kind = "orphans", ![o].flow[s] = At("done")]
       /\ disc' = Leave(disc, AutoConnect, TRUE)
  ELSE Ends(op, o, s, disc)

\* What is left of a cancelled flow when its worker thread or its client has ended.
Unwound(o, s) ==
  LET at == Flow(o, s).at
  IN /\ at \notin Ended /\ (op[o].cut \/ Flow(o, s).stop = "cancel")
     /\ CASE at = "fetch" -> Record(s, ErrorPopped(s)) /\ Ends(op, o, s, Exited(o, s, FALSE))
          [] at = "check" /\ OwnRegion(op, o) -> Ends(op, o, s, Exited(o, s, TRUE)) /\ UNCHANGED srv
          [] OTHER -> Abandon(o, s) /\ UNCHANGED srv
     /\ gate' = gate \ {<<o, s>>}
     /\ IF at \in {"clear", "drop"} THEN Cleared(s) ELSE UNCHANGED cred
     /\ UNCHANGED <<closed, setup>>

\* A stored token expires; one granted in the run outlives it.
Expire(s) ==
  /\ s \in Fickle /\ cred[s].token = Older.token
  /\ cred' = [cred EXCEPT ![s].token = 0]
  /\ UNCHANGED <<op, disc, srv, gate, closed, setup>>

Advance(o, s) ==
  \/ Start(o, s) \/ Probed(o, s) \/ Checked(o, s) \/ Fetched(o, s)
  \/ TakeGate(o, s) \/ Authenticate(o, s) \/ Register(o, s) \/ Grant(o, s) \/ LoggedIn(o, s) \/ LoginRefused(o, s)
  \/ Dropped(o, s) \/ ReadResolved(o, s) \/ CallResolved(o, s) \/ DocRead(o, s) \/ Called(o, s)
  \/ TimedOut(o, s) \/ Unwound(o, s)

Next == \/ DiscoverAuto
        \/ \E o \in Ops : \E names \in SUBSET Servers : ConnectServers(o, names)
        \/ \E o \in Ops, s \in Servers : DisconnectServer(o, s) \/ Toggle(o, s) \/ Mention(o, s) \/ Call(o, s)
        \/ \E o \in Ops, s \in Servers : Advance(o, s) \/ Deadline(o, s)
        \/ \E o \in Ops : Cancel(o)
        \/ Close
        \/ \E s \in Servers : Expire(s)

Spec == Init /\ [][Next]_vars

-----------------------------------------------------------------------------
(* Properties                                                                 *)

\* Every variable holds a value of its type.
TypeOK == /\ op \in [Ops -> [kind : Kinds, cut : BOOLEAN,
                             flow : [Servers -> [at : FlowAt, first : BOOLEAN, stop : {"no", "timeout", "cancel"}]]]]
          /\ disc \in [count : [Servers -> 0..MaxOps], failed : BOOLEAN, status : {"stale", "discovering", "ready", "error"}]
          /\ srv \in [Servers -> [tools : BOOLEAN, issue : {"none", "error", "auth", "skip"}, tried : BOOLEAN]]
          /\ cred \in [Servers -> [client : 0..MaxOps+1, token : 0..MaxOps+1]]
          /\ gate \subseteq (Ops \X Servers)
          /\ closed \in BOOLEAN

\* Logins happen one at a time, whichever operations asked for them: a login opens a browser and
\* a callback server, and the gate that serialises them is released however a login ends.
OneLogin ==
  LET logins == {x \in Ops \X Servers : Flow(x[1], x[2]).at \in LoginAt \cup {"clear"}}
  IN gate = logins /\ Cardinality(logins) <= 1

\* The servers being discovered, and the status line, are those of the operations inside a
\* _discovery region: neither an exception nor a cancellation leaves one counted, and an operation
\* that ends first does not declare the others settled.
DiscoveryAccounted ==
  LET within(s) == {o \in Ops : \/ op[o].kind = "auto" /\ s \in AutoConnect
                                \/ OwnRegion(op, o) /\ Flow(o, s).at \in {"check", "fetch"}}
  IN /\ \A s \in Servers : disc.count[s] = Cardinality(within(s))
     /\ disc.status = "discovering" <=> \E s \in Servers : within(s) # {}

\* A server with a catalog has no error and no skip on record, so its tools are never rendered
\* into the index beside an issue that refuses their calls; and a document counts as injected only
\* while its server is known, so that it is injected again after a reconnection.
CatalogOrIssue == \A s \in Servers : /\ Connected(s) => srv[s].issue = "none"
                                     /\ srv[s].tried => Connected(s)

\* A token is stored only with the client it was issued to: "the token and registered OAuth client
\* form one credential set" through rejections, retries, disconnects and cancelled logins.
CredentialSet == \A s \in Servers : HasTokens(s) => cred[s].token = cred[s].client

\* An operation is opened only by a manager that is not closed, and a call or a read only for a
\* server that is connected and without an issue at that moment, not when it was looked up.
OpensAdmitted ==
  [][\A o \in Ops, s \in Servers :
       LET was == Flow(o, s).at
           is == Flow(o, s)'.at
       IN was # is => /\ was \notin TaskAt /\ is \in TaskAt => ~closed
                      /\ is \in {"doc", "calling"} => ~closed /\ Admitted(s)]_vars

\* One login at a time, every operation counted while it discovers and only then, and no contradiction
\* in what is on record about a server and its login.
ServersSound == TypeOK /\ OneLogin /\ DiscoveryAccounted /\ CatalogOrIssue /\ CredentialSet
=============================================================================
