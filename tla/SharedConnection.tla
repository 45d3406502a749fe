-------------------------- MODULE SharedConnection --------------------------
(***************************************************************************)
(* packages/server/src/workspaces/opencode-service.ts:                     *)
(* OpenCodeSharedService, the one connection to the OpenCode daemon that   *)
(* every workspace shares.                                                 *)
(*                                                                         *)
(* A caller joins the startup in progress, or the health check in          *)
(* progress, or uses the connection.  Either may be overtaken by           *)
(* invalidate(), shutdown() or the failure of another caller's request:    *)
(* the generation and the identity of the connection object tell.          *)
(*                                                                         *)
(* A task is a promise: that of a caller's connect(), of a startup, or of  *)
(* a health check.  A connection object bears the number of the attempt    *)
(* that created it.                                                        *)
(***************************************************************************)
EXTENDS Naturals

CONSTANTS
  Callers,         (* calls that need the connection, each made once         *)
  Identities,      (* identities of the configured lifecycle                 *)
  NoIdentity,      (* a call without options, or nothing pinned              *)
  MaxAttempts,     (* bound: startups and health checks                      *)
  MaxEndpoints,    (* bound: daemons that are started, one after another     *)
  MaxCommands      (* bound: calls of invalidate() and shutdown()            *)

Attempts  == 1..MaxAttempts
Tasks     == Callers \cup Attempts
Endpoints == 1..MaxEndpoints

ASSUME TaskAssumption == Callers \cap Nat = {}
ASSUME IdentityAssumption == NoIdentity \notin Identities
ASSUME BoundAssumption ==
  MaxAttempts \in Nat \ {0} /\ MaxEndpoints \in Nat \ {0} /\ MaxCommands \in Nat

VARIABLES
  pin,          (* serviceIdentity, and serviceOptions with it               *)
  validated,    (* hasValidatedConnection                                    *)
  generation,   (* generation                                                *)
  connection,   (* connection: the startup in progress, or 0                 *)
  connected,    (* connected, or 0                                           *)
  fresh,        (* connectionValidatedAt is within the recheck interval      *)
  healthCheck,  (* healthCheck, or 0                                         *)
  previous,     (* previousConnection, or 0                                  *)
  task,         (* progress of every promise                                 *)
  used,         (* number of attempts made                                   *)
  plugins,      (* pluginPreparations                                        *)
  holds,        (* connections that know of an active compaction             *)
  daemon,       (* endpoint of the running daemon, or 0                      *)
  started,      (* number of daemons started                                 *)
  compacting,   (* history: endpoint whose compaction was last seen to start  *)
  commands      (* history: calls of invalidate() and shutdown()             *)

daemonVars  == <<daemon, started>>
historyVars == <<compacting, commands>>
stateVars   == <<generation, connection, connected, fresh, healthCheck, previous>>
pinVars     == <<pin, validated>>
vars == <<pinVars, stateVars, task, used, plugins, holds, daemonVars, historyVars>>

TaskStates ==
  [stage    : {"idle", "waiting", "discovering", "ensuring", "checking",
               "resolved", "rejected", "preparing", "ready", "done"},
   follows  : 0..MaxAttempts,     \* the promise a waiting task adopts
   result   : 0..MaxAttempts,     \* the connection it resolved to
   generation : Nat,              \* this.generation when the attempt began
   identity : Identities \cup {NoIdentity},   \* its lifecycle
   endpoint : 0..MaxEndpoints,    \* of the connection it created
   of       : 0..MaxAttempts]     \* the connection a health check examines

Idle ==
  [stage |-> "idle", follows |-> 0, result |-> 0, generation |-> 0,
   identity |-> NoIdentity, endpoint |-> 0, of |-> 0]

Starting(a) == task[a].stage \in {"discovering", "ensuring"}

Init ==
  /\ pin = NoIdentity /\ validated = FALSE
  /\ generation = 0 /\ connection = 0 /\ connected = 0 /\ fresh = FALSE
  /\ healthCheck = 0 /\ previous = 0
  /\ task = [t \in Tasks |-> Idle] /\ used = 0
  /\ plugins = [k \in Attempts |-> "none"] /\ holds = {}
  /\ daemon = 0 /\ started = 0
  /\ compacting = 0 /\ commands = 0

-----------------------------------------------------------------------------
(* clear, invalidateConnection, createConnection *)

\* Mutant: the health check in progress is not forgotten.
ClearKeepsCheck ==
  /\ previous' = IF connected # 0 THEN connected ELSE previous
  /\ connection' = 0 /\ connected' = 0 /\ fresh' = FALSE
  /\ UNCHANGED healthCheck

\* Mutant: a second invalidation forgets the last connection.
ClearForgets ==
  /\ previous' = connected
  /\ connection' = 0 /\ connected' = 0 /\ healthCheck' = 0 /\ fresh' = FALSE

Clear ==
  /\ previous' = IF connected # 0 THEN connected ELSE previous
  /\ connection' = 0 /\ connected' = 0 /\ healthCheck' = 0 /\ fresh' = FALSE

\* Mutant: whatever is connected is torn down.
CurrentAnyway(k) == connected # 0

\* this.connected === connection
Current(k) == connected = k

InvalidateConnection(k) ==
  IF Current(k) THEN generation' = generation + 1 /\ Clear
  ELSE UNCHANGED stateVars

\* carryPendingCompactions, if the last connection was to the same daemon.
Carried(k, endpoint, from) ==
  IF from \in holds /\ task[from].endpoint = endpoint THEN {k} ELSE {}

\* The connection object k becomes the connection; what is known of others is never
\* read again.
Install(k, endpoint, from) ==
  /\ validated' = TRUE /\ connected' = k /\ connection' = 0 /\ fresh' = TRUE
  /\ previous' = 0
  /\ holds' = Carried(k, endpoint, from)

\* Mutant: a startup that was overtaken installs its connection too.
FencedNever(a) == TRUE

\* generation === this.generation
Fenced(a) == task[a].generation = generation

-----------------------------------------------------------------------------
(* connectService and startConnection: t is the promise that adopts theirs *)

Adopts(a) == [Idle EXCEPT !.stage = "waiting", !.follows = a]

Resolves(k) == [Idle EXCEPT !.stage = "resolved", !.result = k]

Begin(t, attempt) ==
  /\ used < MaxAttempts /\ used' = used + 1
  /\ task' = [task EXCEPT ![t] = Adopts(used + 1), ![used + 1] = attempt]

\* The first await of startConnection, in generation g.
Startup(g, identity) ==
  [Idle EXCEPT !.stage = "discovering", !.generation = g, !.identity = identity]

Check(identity) ==
  [Idle EXCEPT !.stage = "checking", !.generation = generation,
               !.identity = identity, !.of = connected]

\* this.connection is set: its startup is in progress.
Joinable == connection # 0

ConnectService(t, identity) ==
  \/ /\ connected = 0 /\ Joinable
     /\ task' = [task EXCEPT ![t] = Adopts(connection)]
     /\ UNCHANGED <<stateVars, used>>
  \/ /\ connected = 0 /\ ~Joinable
     /\ Begin(t, Startup(generation, identity))
     /\ connection' = used + 1
     /\ UNCHANGED <<generation, connected, fresh, healthCheck, previous>>
  \/ /\ connected # 0 /\ healthCheck # 0
     /\ task' = [task EXCEPT ![t] = Adopts(healthCheck)]
     /\ UNCHANGED <<stateVars, used>>
  \/ /\ connected # 0 /\ healthCheck = 0 /\ fresh
     /\ task' = [task EXCEPT ![t] = Resolves(connected)]
     /\ UNCHANGED <<stateVars, used>>
  \/ /\ connected # 0 /\ healthCheck = 0 /\ ~fresh
     /\ Begin(t, Check(identity))
     /\ healthCheck' = used + 1
     /\ UNCHANGED <<generation, connection, connected, fresh, previous>>

Rejects(t) == task' = [task EXCEPT ![t] = [Idle EXCEPT !.stage = "rejected"]]

\* The caller has its answer, or an error.
Done == [Idle EXCEPT !.stage = "done"]

Ends(c) == task' = [task EXCEPT ![c] = Done]

\* pinServiceOptions
Wanted(option) == IF option = NoIdentity THEN pin ELSE option

Accepts(option) ==
  Wanted(option) # NoIdentity /\ pin \in {NoIdentity, Wanted(option)}

Connect(c, option) ==
  /\ task[c].stage = "idle"
  /\ \/ /\ Accepts(option)
        /\ pin' = Wanted(option)
        /\ ConnectService(c, Wanted(option))
     \/ /\ ~Accepts(option)
        /\ Ends(c)
        /\ UNCHANGED <<pin, stateVars, used>>
  /\ UNCHANGED <<validated, plugins, holds, daemonVars, historyVars>>

-----------------------------------------------------------------------------
(* A startup: discover, ensure, createConnection *)

Discovered(a) ==
  /\ task[a].stage = "discovering" /\ daemon = 0
  /\ task' = [task EXCEPT ![a].stage = "ensuring"]
  /\ UNCHANGED <<pinVars, stateVars, used, plugins, holds, daemonVars, historyVars>>

CreateConnection(a, endpoint) ==
  /\ task' = [task EXCEPT ![a].stage = "resolved", ![a].result = a,
                          ![a].endpoint = endpoint]
  /\ IF Fenced(a)
     THEN Install(a, endpoint, previous) /\ UNCHANGED <<generation, healthCheck>>
     ELSE UNCHANGED <<validated, stateVars, holds>>
  /\ UNCHANGED <<pin, used, plugins, historyVars>>

StartupDiscovers(a) ==
  /\ task[a].stage = "discovering" /\ daemon # 0
  /\ CreateConnection(a, daemon)
  /\ UNCHANGED daemonVars

\* ensure starts the daemon unless it runs by now.
StartupEnsures(a) ==
  /\ task[a].stage = "ensuring"
  /\ \/ daemon # 0 /\ UNCHANGED daemonVars
     \/ daemon = 0 /\ started < MaxEndpoints
        /\ started' = started + 1 /\ daemon' = started + 1
  /\ CreateConnection(a, daemon')

\* Discovery or startup failed, or the daemon is not one that is supported.
StartupFails(a) ==
  /\ Starting(a)
  /\ Rejects(a)
  /\ IF connection = a
     THEN /\ Clear /\ UNCHANGED generation
          /\ pin' = IF validated THEN pin ELSE NoIdentity
     ELSE UNCHANGED <<stateVars, pin>>
  /\ UNCHANGED <<validated, used, plugins, holds, daemonVars, historyVars>>

-----------------------------------------------------------------------------
(* A health check *)

\* generation !== this.generation || this.connected !== current
Overtaken(h) == ~Fenced(h) \/ ~Current(task[h].of)

CheckRetries(h) ==
  /\ task[h].stage = "checking" /\ Overtaken(h)
  /\ IF pin = NoIdentity
     THEN Rejects(h) /\ UNCHANGED <<stateVars, used>>
     ELSE ConnectService(h, pin)
  /\ UNCHANGED <<pinVars, plugins, holds, daemonVars, historyVars>>

SameDaemon(h) == daemon # 0 /\ daemon = task[task[h].of].endpoint

CheckConfirms(h) ==
  /\ task[h].stage = "checking" /\ ~Overtaken(h) /\ SameDaemon(h)
  /\ task' = [task EXCEPT ![h] = Resolves(connected)]
  /\ fresh' = TRUE /\ healthCheck' = 0
  /\ UNCHANGED <<pinVars, generation, connection, connected, previous, used,
                 plugins, holds, daemonVars, historyVars>>

\* Another daemon runs: invalidateConnection, then createConnection.
CheckReplaces(h) ==
  /\ task[h].stage = "checking" /\ ~Overtaken(h)
  /\ daemon # 0 /\ ~SameDaemon(h)
  /\ generation' = generation + 1 /\ healthCheck' = 0
  /\ Install(h, daemon, connected)
  /\ task' = [task EXCEPT ![h].stage = "resolved", ![h].result = h, ![h].of = 0,
                          ![h].endpoint = daemon,
                          ![h].generation = generation + 1]
  /\ UNCHANGED <<pin, used, plugins, daemonVars, historyVars>>

\* Another daemon runs, but it is not one that is supported.
CheckRefuses(h) ==
  /\ task[h].stage = "checking" /\ ~Overtaken(h)
  /\ daemon # 0 /\ ~SameDaemon(h)
  /\ generation' = generation + 1 /\ Clear
  /\ Rejects(h)
  /\ UNCHANGED <<pinVars, used, plugins, holds, daemonVars, historyVars>>

\* No daemon, or discovery failed: invalidateConnection, then startConnection.
CheckRestarts(h) ==
  /\ task[h].stage = "checking" /\ ~Overtaken(h)
  /\ generation' = generation + 1
  /\ previous' = connected /\ connected' = 0 /\ healthCheck' = 0 /\ fresh' = FALSE
  /\ Begin(h, Startup(generation + 1, pin))
  /\ connection' = used + 1
  /\ UNCHANGED <<pinVars, plugins, holds, daemonVars, historyVars>>

-----------------------------------------------------------------------------
(* Promises that adopt others; connect, withClient, invalidateAfterStream *)

Settled(a) == task[a].stage \in {"resolved", "rejected"}

\* The promise that the health check h adopted has settled.
Adopted(h) ==
  /\ task[h].stage = "waiting" /\ Settled(task[h].follows)
  /\ task' = [task EXCEPT ![h] =
       [Idle EXCEPT !.stage = task[task[h].follows].stage,
                    !.result = task[task[h].follows].result]]
  /\ UNCHANGED <<pinVars, stateVars, used, plugins, holds, daemonVars, historyVars>>

\* What connectService answered to the caller c, once it did.
Answer(c) == IF task[c].stage = "waiting" THEN task[c].follows ELSE c

\* connect: the connection must be the current one, its profile supported, and its
\* plugins are prepared once.
Prepare(c) ==
  LET k == task[Answer(c)].result IN
  /\ task[c].stage \in {"waiting", "resolved"} /\ Settled(Answer(c))
  /\ \/ /\ k # 0 /\ Current(k) /\ plugins[k] = "ready"
        /\ task' = [task EXCEPT ![c] = [Resolves(k) EXCEPT !.stage = "ready"]]
        /\ UNCHANGED plugins
     \/ /\ k # 0 /\ Current(k) /\ plugins[k] # "ready"
        /\ task' = [task EXCEPT ![c] = [Resolves(k) EXCEPT !.stage = "preparing"]]
        /\ plugins' = [plugins EXCEPT ![k] = "pending"]
     \/ Ends(c) /\ UNCHANGED plugins
  /\ UNCHANGED <<pinVars, stateVars, used, holds, daemonVars, historyVars>>

PluginsSettle(k, outcome) ==
  /\ plugins[k] = "pending"
  /\ plugins' = [plugins EXCEPT ![k] = IF outcome = "ready" THEN "ready" ELSE "none"]
  /\ task' = [t \in Tasks |->
       IF t \in Callers /\ task[t].stage = "preparing" /\ task[t].result = k
       THEN IF outcome # "failed" /\ Current(k)
            THEN [task[t] EXCEPT !.stage = "ready"] ELSE Done
       ELSE task[t]]
  /\ UNCHANGED <<pinVars, stateVars, used, holds, daemonVars, historyVars>>

\* The request is answered, or its caller gives up.
RequestEnds(c) ==
  /\ task[c].stage = "ready" /\ Ends(c)
  /\ UNCHANGED <<pinVars, stateVars, used, plugins, holds, daemonVars, historyVars>>

\* The request fails, or the stream ends.
RequestFails(c) ==
  /\ task[c].stage = "ready" /\ Ends(c)
  /\ InvalidateConnection(task[c].result)
  /\ UNCHANGED <<pinVars, used, plugins, holds, daemonVars, historyVars>>

\* The stream tells of a compaction: observePendingDiscovery.
ObserveCompaction(starts) ==
  LET e == task[connected].endpoint IN
  /\ connected # 0
  /\ IF starts THEN holds' = holds \cup {connected} /\ compacting' = e
     ELSE holds' = holds \ {connected} /\ compacting' = 0
  /\ UNCHANGED <<pinVars, stateVars, task, used, plugins, daemonVars, commands>>

-----------------------------------------------------------------------------
(* invalidate, shutdown, the clock and the daemon *)

Invalidate ==
  /\ commands < MaxCommands /\ commands' = commands + 1
  /\ generation' = generation + 1 /\ Clear
  /\ UNCHANGED <<pinVars, task, used, plugins, holds, daemonVars, compacting>>

Shutdown ==
  /\ commands < MaxCommands /\ commands' = commands + 1
  /\ generation' = generation + 1 /\ Clear
  /\ pin' = NoIdentity /\ validated' = FALSE
  /\ UNCHANGED <<task, used, plugins, holds, daemonVars, compacting>>

IntervalPasses ==
  /\ connected # 0 /\ fresh /\ fresh' = FALSE
  /\ UNCHANGED <<pinVars, generation, connection, connected, healthCheck, previous,
                 task, used, plugins, holds, daemonVars, historyVars>>

DaemonStops ==
  /\ daemon # 0 /\ daemon' = 0
  /\ UNCHANGED <<pinVars, stateVars, task, used, plugins, holds, started, historyVars>>

DaemonStarts ==
  /\ daemon = 0 /\ started < MaxEndpoints
  /\ started' = started + 1 /\ daemon' = started + 1
  /\ UNCHANGED <<pinVars, stateVars, task, used, plugins, holds, historyVars>>

AttemptStep(a) ==
  \/ Discovered(a) \/ StartupDiscovers(a) \/ StartupEnsures(a) \/ StartupFails(a)
  \/ CheckRetries(a) \/ CheckConfirms(a) \/ CheckReplaces(a) \/ CheckRefuses(a)
  \/ CheckRestarts(a)

Outcomes == {"ready", "unready", "failed"}

Next ==
  \/ \E c \in Callers : \E option \in Identities \cup {NoIdentity} : Connect(c, option)
  \/ \E c \in Callers :
       Prepare(c) \/ RequestEnds(c) \/ RequestFails(c)
  \/ \E a \in Attempts : AttemptStep(a)
  \/ \E k \in Attempts, outcome \in Outcomes : PluginsSettle(k, outcome)
  \/ \E h \in Attempts : Adopted(h)
  \/ \E starts \in BOOLEAN : ObserveCompaction(starts)
  \/ Invalidate \/ Shutdown \/ IntervalPasses \/ DaemonStops \/ DaemonStarts

Spec == Init /\ [][Next]_vars

-----------------------------------------------------------------------------
TypeOK ==
  /\ pin \in Identities \cup {NoIdentity} /\ validated \in BOOLEAN
  /\ generation \in Nat /\ fresh \in BOOLEAN /\ used \in 0..MaxAttempts
  /\ connection \in 0..MaxAttempts /\ connected \in 0..MaxAttempts
  /\ healthCheck \in 0..MaxAttempts /\ previous \in 0..MaxAttempts
  /\ task \in [Tasks -> TaskStates]
  /\ \A a \in Attempts : Starting(a) => task[a].identity \in Identities
  /\ plugins \in [Attempts -> {"none", "pending", "ready"}]
  /\ holds \subseteq Attempts
  /\ daemon \in 0..MaxEndpoints /\ started \in 0..MaxEndpoints
  /\ compacting \in 0..MaxEndpoints /\ commands \in 0..MaxCommands

\* While a startup of the current generation runs, it is the one that every caller
\* joins, and nothing is connected yet: two startups never race for the connection.
OneStartup ==
  \A a \in Attempts : Starting(a) /\ task[a].generation = generation
    => connection = a /\ connected = 0

\* The connection in use was made by the lifecycle that is pinned, however late the
\* startup of an earlier pin, an overtaken generation or a health check resolves.
ConnectedMatchesPin ==
  connected # 0 =>
    /\ task[connected].identity = pin /\ pin # NoIdentity
    /\ task[connected].generation = generation

\* The health check that callers join is running and examines the connection in
\* use.
CheckIsOfConnected ==
  healthCheck # 0 =>
    /\ task[healthCheck].stage = "checking"
    /\ task[healthCheck].of = connected /\ connected # 0

\* A connection is only given up for a failure of its own or by command: requests
\* and health checks of a connection already replaced spare its successor.
OnlyFaultsDisconnect ==
  [][connected # 0 /\ connected' # connected =>
       \/ commands' # commands
       \/ \E c \in Callers : task[c].result = connected /\ task[c].stage = "ready"
                              /\ task'[c].stage = "done"
       \/ \E h \in Attempts : /\ task[h].of = connected
                              /\ task[h].stage = "checking"
                              /\ task'[h].stage # "checking"]_vars

\* A compaction that was seen to start is remembered over reconnections to the same
\* daemon, so that the discovery of pending requests stays deferred.
CompactionIsCarried ==
  connected # 0 /\ task[connected].endpoint = compacting => connected \in holds

\* Promises that adopt one another never form a circle, although health checks that
\* were overtaken join others: each joins one that began later.
NoCircularWait ==
  \A a \in Attempts : task[a].stage = "waiting" => task[a].follows > a
=============================================================================
