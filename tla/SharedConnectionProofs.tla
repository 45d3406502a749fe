----------------------- MODULE SharedConnectionProofs -----------------------
(***************************************************************************)
(* The safety of SharedConnection for any number of callers, identities,   *)
(* attempts, daemons and invalidations.                                    *)
(***************************************************************************)
EXTENDS SharedConnection, TLAPS

\* A startup or a health check whose continuation is still to come.
Running(a) == Starting(a) \/ task[a].stage = "checking"

\* Attempts are begun in the order of their numbers, and so in the order of the
\* generations.
OrderOK ==
  \A a \in Attempts :
    /\ a > used => task[a].stage = "idle"
    /\ Running(a) =>
         /\ task[a].generation <= generation
         /\ \A b \in Attempts :
              Running(b) /\ a < b => task[a].generation <= task[b].generation

\* A running attempt of the current generation belongs to the pinned lifecycle, and
\* is the startup or the health check that callers join.
FencedOK ==
  \A a \in Attempts : Running(a) /\ task[a].generation = generation =>
    /\ task[a].identity = pin /\ pin # NoIdentity
    /\ Starting(a) => connection = a
    /\ ~Starting(a) => /\ healthCheck = a
                       /\ connected # 0 /\ task[a].of = connected

\* What callers join is running, and of the current generation.
PromiseOK ==
  /\ connection # 0 =>
       connected = 0 /\ Starting(connection) /\ task[connection].generation = generation
  /\ healthCheck # 0 =>
       /\ connected # 0 /\ task[healthCheck].stage = "checking"
       /\ task[healthCheck].generation = generation

\* A connection, in use or the last one, was resolved and does not change.
LastOK ==
  /\ connected # 0 =>
       task[connected].stage = "resolved" /\ task[connected].endpoint \in 1..started
  /\ previous # 0 =>
       task[previous].stage = "resolved" /\ task[previous].endpoint \in 1..started

\* The connection whose compactions the next connection takes over.
Last == IF connected # 0 THEN connected ELSE previous

\* Daemons are numbered as they start, so a compaction is never of a later daemon
\* than the last connection, which knows of it if it is of the same.
CompactionOK ==
  /\ daemon \in {0, started}
  /\ compacting # 0 => Last # 0 /\ compacting <= task[Last].endpoint
  /\ Last # 0 /\ task[Last].endpoint = compacting => Last \in holds

IInv ==
  /\ TypeOK /\ OrderOK /\ FencedOK /\ PromiseOK /\ LastOK /\ CompactionOK
  /\ ConnectedMatchesPin /\ NoCircularWait

-----------------------------------------------------------------------------
(* What the records hold *)

\* Callers are not attempts, and attempts are numbers.
LEMMA TaskFacts ==
  /\ Attempts \subseteq Tasks /\ Callers \subseteq Tasks
  /\ Callers \cap Attempts = {}
  /\ \A a \in Attempts : a \in Nat \ {0} /\ a \in 0..MaxAttempts
  /\ MaxAttempts \in Nat /\ MaxEndpoints \in Nat /\ MaxCommands \in Nat
  /\ \A k \in 0..MaxAttempts : k # 0 => k \in Attempts
BY TaskAssumption, BoundAssumption DEF Attempts, Tasks

\* The fields of a record of TaskStates.
LEMMA FieldTypes ==
  ASSUME NEW s \in TaskStates
  PROVE  /\ s.follows \in 0..MaxAttempts /\ s.result \in 0..MaxAttempts
         /\ s.generation \in Nat /\ s.identity \in Identities \cup {NoIdentity}
         /\ s.endpoint \in 0..MaxEndpoints /\ s.of \in 0..MaxAttempts
BY DEF TaskStates

\* The records that actions make are of TaskStates.
LEMMA Records ==
  ASSUME TypeOK
  PROVE  /\ Idle \in TaskStates /\ Done \in TaskStates
         /\ [Idle EXCEPT !.stage = "rejected"] \in TaskStates
         /\ \A k \in 0..MaxAttempts : Adopts(k) \in TaskStates /\ Resolves(k) \in TaskStates
         /\ \A g \in Nat, i \in Identities : Startup(g, i) \in TaskStates
         /\ \A i \in Identities : Check(i) \in TaskStates
<1>. USE TaskFacts
<1>1. /\ Idle \in TaskStates /\ Done \in TaskStates
      /\ [Idle EXCEPT !.stage = "rejected"] \in TaskStates
  BY DEF TaskStates, Idle, Done
<1>2. ASSUME NEW k \in 0..MaxAttempts
      PROVE  Adopts(k) \in TaskStates /\ Resolves(k) \in TaskStates
  <2>1. Idle \in TaskStates
    BY <1>1
  <2>. QED  BY <2>1 DEF TaskStates, Adopts, Resolves
<1>3. ASSUME NEW g \in Nat, NEW i \in Identities
      PROVE  Startup(g, i) \in TaskStates
  BY <1>1 DEF TaskStates, Startup
<1>4. ASSUME NEW i \in Identities
      PROVE  Check(i) \in TaskStates
  <2>1. generation \in Nat /\ connected \in 0..MaxAttempts
    BY DEF TypeOK
  <2>. QED  BY <1>1, <2>1 DEF TaskStates, Check
<1>. QED  BY <1>1, <1>2, <1>3, <1>4

\* The invariant spells out these two.
LEMMA Consequences == IInv => OneStartup /\ CheckIsOfConnected /\ CompactionIsCarried
<1>. SUFFICES ASSUME IInv PROVE OneStartup /\ CheckIsOfConnected /\ CompactionIsCarried
  OBVIOUS
<1>. USE DEF IInv
<1>1. OneStartup
  BY TaskFacts DEF OneStartup, FencedOK, PromiseOK, Running
<1>2. CheckIsOfConnected
  <2>. SUFFICES ASSUME healthCheck # 0
                PROVE  /\ task[healthCheck].stage = "checking"
                       /\ task[healthCheck].of = connected /\ connected # 0
    BY DEF CheckIsOfConnected
  <2>1. healthCheck \in Attempts
    BY TaskFacts DEF TypeOK
  <2>. QED  BY <2>1 DEF FencedOK, PromiseOK, Running, Starting
<1>3. CompactionIsCarried
  BY DEF CompactionIsCarried, CompactionOK, Last
<1>. QED  BY <1>1, <1>2, <1>3

-----------------------------------------------------------------------------
(* Every step preserves the invariant *)

LEMMA InitOK == Init => IInv
<1>. SUFFICES ASSUME Init PROVE IInv
  OBVIOUS
<1>. USE TaskFacts DEF Init
<1>1. Idle \in TaskStates /\ Idle.stage = "idle"
  BY DEF TaskStates, Idle
<1>2. \A a \in Attempts : task[a] = Idle
  OBVIOUS
<1>4. \A a \in Attempts : task[a].stage = "idle"
  BY <1>1, <1>2
<1>3. TypeOK
  <2>1. task \in [Tasks -> TaskStates]
    BY <1>1
  <2>2. \A a \in Attempts : ~Starting(a)
    BY <1>4 DEF Starting
  <2>3. plugins \in [Attempts -> {"none", "pending", "ready"}]
    OBVIOUS
  <2>4. /\ pin \in Identities \cup {NoIdentity}
        /\ generation \in Nat /\ used \in 0..MaxAttempts
        /\ connection \in 0..MaxAttempts /\ connected \in 0..MaxAttempts
        /\ healthCheck \in 0..MaxAttempts /\ previous \in 0..MaxAttempts
        /\ holds \subseteq Attempts
    OBVIOUS
  <2>5. /\ daemon \in 0..MaxEndpoints /\ started \in 0..MaxEndpoints
        /\ compacting \in 0..MaxEndpoints /\ commands \in 0..MaxCommands
    OBVIOUS
  <2>6. validated \in BOOLEAN /\ fresh \in BOOLEAN
    OBVIOUS
  <2>. QED  BY ONLY <2>1, <2>2, <2>3, <2>4, <2>5, <2>6 DEF TypeOK
<1>5. OrderOK /\ FencedOK /\ NoCircularWait
  BY <1>4 DEF OrderOK, FencedOK, NoCircularWait, Running, Starting
<1>6. PromiseOK /\ LastOK /\ CompactionOK /\ ConnectedMatchesPin
  BY DEF PromiseOK, LastOK, CompactionOK, Last, ConnectedMatchesPin
<1>. QED  BY <1>3, <1>5, <1>6 DEF IInv

\* A step that leaves the attempts alone, and all that callers join.
LEMMA QuietStep ==
  ASSUME IInv, TypeOK',
         \A a \in Attempts : task'[a] = task[a],
         UNCHANGED <<pin, generation, connection, connected, healthCheck, previous, used,
                     holds, compacting>>,
         daemon' \in {0, started'}, started' >= started
  PROVE  IInv'
<1>. USE TaskFacts DEF IInv
<1>1. \A a \in Attempts : Starting(a)' = Starting(a) /\ Running(a)' = Running(a)
  BY DEF Starting, Running
<1>2. OrderOK' /\ FencedOK' /\ NoCircularWait'
  BY <1>1 DEF OrderOK, FencedOK, NoCircularWait
<1>3. connection \in 0..MaxAttempts /\ connected \in 0..MaxAttempts
      /\ healthCheck \in 0..MaxAttempts /\ previous \in 0..MaxAttempts
      /\ started \in Nat /\ started' \in Nat
  BY DEF TypeOK
<1>4. PromiseOK' /\ ConnectedMatchesPin'
  BY <1>1, <1>3 DEF PromiseOK, ConnectedMatchesPin
<1>5. LastOK'
  BY <1>3 DEF LastOK
<1>6. CompactionOK'
  <2>1. Last' = Last /\ (Last # 0 => task'[Last] = task[Last])
    BY <1>3 DEF Last
  <2>. QED  BY <2>1 DEF CompactionOK
<1>. QED  BY <1>2, <1>4, <1>5, <1>6

\* Putting one record in place of another.
LEMMA Put ==
  ASSUME NEW t \in Tasks, NEW s \in TaskStates, TypeOK
  PROVE  /\ [task EXCEPT ![t] = s] \in [Tasks -> TaskStates]
         /\ [task EXCEPT ![t] = s][t] = s
         /\ \A u \in Tasks : u # t => [task EXCEPT ![t] = s][u] = task[u]
BY DEF TypeOK

LEMMA CallerEnds ==
  ASSUME IInv, NEW c \in Callers, Ends(c),
         UNCHANGED <<pinVars, stateVars, used, plugins, holds, daemonVars, historyVars>>
  PROVE  IInv'
<1>. USE TaskFacts DEF IInv, pinVars, stateVars, daemonVars, historyVars
<1>1. task' \in [Tasks -> TaskStates] /\ \A a \in Attempts : task'[a] = task[a]
  BY Put, Records DEF Ends
<1>2. TypeOK'
  BY <1>1 DEF TypeOK, Starting
<1>. QED  BY <1>1, <1>2, QuietStep DEF CompactionOK, TypeOK

\* What the invariant says of numbers and of the attempts that are named.
LEMMA Names ==
  ASSUME IInv
  PROVE  /\ generation \in Nat /\ used \in 0..MaxAttempts /\ started \in Nat
         /\ compacting \in Nat
         /\ connection \in 0..MaxAttempts /\ connected \in 0..MaxAttempts
         /\ healthCheck \in 0..MaxAttempts /\ previous \in 0..MaxAttempts
         /\ \A a \in Attempts : /\ task[a] \in TaskStates /\ task[a].generation \in Nat
                                /\ task[a].endpoint \in Nat
                                /\ Running(a) => connected # a /\ previous # a
                                /\ task[a].stage = "waiting" => connected # a /\ previous # a
                                /\ a > used => /\ ~Running(a) /\ connected # a
                                               /\ previous # a
<1>. USE TaskFacts DEF IInv
<1>1. /\ generation \in Nat /\ used \in 0..MaxAttempts /\ started \in Nat
      /\ compacting \in Nat
      /\ connection \in 0..MaxAttempts /\ connected \in 0..MaxAttempts
      /\ healthCheck \in 0..MaxAttempts /\ previous \in 0..MaxAttempts
  BY DEF TypeOK
<1>2. ASSUME NEW a \in Attempts
      PROVE  /\ task[a] \in TaskStates /\ task[a].generation \in Nat
             /\ task[a].endpoint \in Nat
  <2>1. task[a] \in TaskStates
    BY DEF TypeOK
  <2>. QED  BY <2>1, FieldTypes
<1>3. ASSUME NEW a \in Attempts
      PROVE  /\ Running(a) => connected # a /\ previous # a
             /\ task[a].stage = "waiting" => connected # a /\ previous # a
             /\ a > used => ~Running(a) /\ connected # a /\ previous # a
  BY DEF LastOK, OrderOK, Running, Starting
<1>. QED  BY <1>1, <1>2, <1>3

\* The connection is given up, and no attempt of the generation remains.
LEMMA ClearStep ==
  ASSUME IInv, TypeOK', Clear, generation' >= generation,
         \A a \in Attempts : \/ task'[a] = task[a]
                             \/ Running(a) /\ task'[a].stage = "rejected",
         \A a \in Attempts : Running(a)' => task'[a].generation # generation',
         UNCHANGED <<used, holds, daemonVars, compacting>>
  PROVE  IInv'
<1>. USE TaskFacts, Names DEF Clear, daemonVars
<1>. USE DEF IInv
<1>1. generation' \in Nat
  BY DEF TypeOK
<1>2. \A a \in Attempts : Running(a)' => Running(a) /\ task'[a] = task[a]
  BY DEF Running, Starting
<1>3. OrderOK'
  <2>1. \A a \in Attempts : a > used' => task'[a].stage = "idle"
    BY DEF OrderOK
  <2>2. ASSUME NEW a \in Attempts, Running(a)'
        PROVE  /\ task'[a].generation <= generation'
               /\ \A b \in Attempts :
                    Running(b)' /\ a < b => task'[a].generation <= task'[b].generation
    BY <1>1, <1>2, <2>2 DEF OrderOK
  <2>. QED  BY <2>1, <2>2 DEF OrderOK
<1>4. FencedOK' /\ PromiseOK' /\ ConnectedMatchesPin'
  BY DEF FencedOK, PromiseOK, ConnectedMatchesPin
<1>5. NoCircularWait'
  BY DEF NoCircularWait
<1>6. previous' = Last /\ (Last # 0 => task'[Last] = task[Last])
  BY DEF Last
<1>7. LastOK'
  BY <1>6 DEF LastOK, Last
<1>8. CompactionOK'
  BY <1>6 DEF CompactionOK, Last
<1>. QED  BY <1>3, <1>4, <1>5, <1>7, <1>8

\* A promise that nobody joins any more settles, or adopts a later one.
LEMMA SettleStep ==
  ASSUME IInv, TypeOK', NEW a \in Attempts,
         Running(a) \/ task[a].stage = "waiting",
         Running(a) => task[a].generation # generation,
         \/ task'[a].stage \in {"resolved", "rejected"}
         \/ task'[a].stage = "waiting" /\ task'[a].follows > a,
         \A b \in Attempts : b # a => task'[b] = task[b],
         UNCHANGED <<pin, generation, connection, connected, healthCheck, previous, used,
                     holds, compacting>>,
         daemon' \in {0, started'}, started' >= started
  PROVE  IInv'
<1>. USE TaskFacts, Names DEF IInv
<1>1. started' \in Nat
  BY DEF TypeOK
<1>2. /\ ~Running(a)' /\ task'[a].stage # "idle"
      /\ task'[a].stage = "waiting" => task'[a].follows > a
      /\ \A b \in Attempts : b # a => Running(b)' = Running(b) /\ Starting(b)' = Starting(b)
  BY DEF Running, Starting
<1>3. OrderOK' /\ FencedOK' /\ NoCircularWait'
  BY <1>2 DEF OrderOK, FencedOK, NoCircularWait, Running, Starting
<1>4. connection # a /\ healthCheck # a /\ connected # a /\ previous # a
  BY DEF PromiseOK, Running, Starting
<1>5. PromiseOK' /\ ConnectedMatchesPin'
  BY <1>2, <1>4 DEF PromiseOK, ConnectedMatchesPin
<1>6. LastOK'
  BY <1>1, <1>4 DEF LastOK
<1>7. CompactionOK'
  BY <1>4 DEF CompactionOK, Last
<1>. QED  BY <1>3, <1>5, <1>6, <1>7

-----------------------------------------------------------------------------
(* Giving up the connection: Invalidate, Shutdown, RequestFails, CheckRefuses *)

\* Clear leaves the variables in their types.
LEMMA ClearType ==
  ASSUME TypeOK, Clear, generation' \in Nat, task' \in [Tasks -> TaskStates],
         \A a \in Attempts : Starting(a)' => task'[a].identity \in Identities,
         pin' \in Identities \cup {NoIdentity}, validated' \in BOOLEAN,
         commands' \in 0..MaxCommands,
         UNCHANGED <<used, plugins, holds, daemonVars, compacting>>
  PROVE  TypeOK'
<1>1. /\ connection' \in 0..MaxAttempts /\ connected' \in 0..MaxAttempts
      /\ healthCheck' \in 0..MaxAttempts /\ previous' \in 0..MaxAttempts
  BY TaskFacts DEF TypeOK, Clear
<1>2. fresh' \in BOOLEAN
  BY DEF Clear
<1>. QED  BY <1>1, <1>2 DEF TypeOK, daemonVars

LEMMA InvalidateStep == ASSUME IInv, Invalidate PROVE IInv'
<1>1. /\ generation' = generation + 1 /\ Clear /\ commands' \in 0..MaxCommands
      /\ UNCHANGED <<pinVars, task, used, plugins, holds, daemonVars, compacting>>
  BY TaskFacts DEF Invalidate, IInv, TypeOK
<1>2. \A a \in Attempts : Starting(a)' = Starting(a) /\ Running(a)' = Running(a)
  BY <1>1 DEF Starting, Running
<1>3. TypeOK'
  <2>1. TypeOK /\ generation' \in Nat
    BY <1>1, Names DEF IInv
  <2>2. /\ task' \in [Tasks -> TaskStates]
        /\ pin' \in Identities \cup {NoIdentity} /\ validated' \in BOOLEAN
        /\ \A a \in Attempts : Starting(a)' => task'[a].identity \in Identities
    BY <1>1, <1>2, <2>1 DEF TypeOK, pinVars
  <2>. QED  BY <1>1, <2>1, <2>2, ClearType
<1>4. \A a \in Attempts : Running(a)' => task'[a].generation # generation'
  BY <1>1, <1>2, Names DEF IInv, OrderOK
<1>. QED  BY <1>1, <1>3, <1>4, Names, ClearStep

LEMMA ShutdownStep == ASSUME IInv, Shutdown PROVE IInv'
<1>1. /\ generation' = generation + 1 /\ Clear /\ commands' \in 0..MaxCommands
      /\ UNCHANGED <<task, used, plugins, holds, daemonVars, compacting>>
      /\ pin' = NoIdentity
  BY TaskFacts DEF Shutdown, IInv, TypeOK
<1>2. \A a \in Attempts : Starting(a)' = Starting(a) /\ Running(a)' = Running(a)
  BY <1>1 DEF Starting, Running
<1>3. TypeOK'
  <2>1. TypeOK /\ generation' \in Nat
    BY <1>1, Names DEF IInv
  <2>2. /\ task' \in [Tasks -> TaskStates]
        /\ pin' \in Identities \cup {NoIdentity}
        /\ \A a \in Attempts : Starting(a)' => task'[a].identity \in Identities
    BY <1>1, <1>2, <2>1 DEF TypeOK
  <2>3. validated' \in BOOLEAN
    BY DEF Shutdown
  <2>. QED  BY <1>1, <2>1, <2>2, <2>3, ClearType
<1>4. \A a \in Attempts : Running(a)' => task'[a].generation # generation'
  BY <1>1, <1>2, Names DEF IInv, OrderOK
<1>. QED  BY <1>1, <1>3, <1>4, Names, ClearStep

\* A request fails on the connection in use, or on one replaced before.
LEMMA RequestFailsStep == ASSUME IInv, NEW c \in Callers, RequestFails(c) PROVE IInv'
<1>1. CASE ~Current(task[c].result)
  BY <1>1, CallerEnds DEF RequestFails, InvalidateConnection, historyVars
<1>2. CASE Current(task[c].result)
  <2>1. /\ generation' = generation + 1 /\ Clear /\ Ends(c)
        /\ UNCHANGED <<pinVars, used, plugins, holds, daemonVars, historyVars>>
    BY <1>2 DEF RequestFails, InvalidateConnection
  <2>2. task' \in [Tasks -> TaskStates] /\ \A a \in Attempts : task'[a] = task[a]
    BY <2>1, Put, Records, TaskFacts DEF Ends, IInv
  <2>3. \A a \in Attempts : Starting(a)' = Starting(a) /\ Running(a)' = Running(a)
    BY <2>2 DEF Starting, Running
  <2>4. TypeOK'
    <3>1. TypeOK /\ generation' \in Nat
      BY <2>1, Names DEF IInv
    <3>2. /\ pin' \in Identities \cup {NoIdentity} /\ validated' \in BOOLEAN
          /\ commands' \in 0..MaxCommands
          /\ \A a \in Attempts : Starting(a)' => task'[a].identity \in Identities
      BY <2>1, <2>2, <2>3, <3>1 DEF TypeOK, pinVars, historyVars
    <3>. QED  BY <2>1, <2>2, <3>1, <3>2, ClearType DEF historyVars
  <2>5. \A a \in Attempts : Running(a)' => task'[a].generation # generation'
    BY <2>1, <2>2, <2>3, Names DEF IInv, OrderOK
  <2>. QED  BY <2>1, <2>2, <2>4, <2>5, Names, ClearStep DEF historyVars
<1>. QED  BY <1>1, <1>2

\* What a rejected promise leaves.
LEMMA RejectsEffect ==
  ASSUME TypeOK, NEW a \in Attempts, Rejects(a)
  PROVE  /\ task' \in [Tasks -> TaskStates] /\ task'[a].stage = "rejected"
         /\ \A b \in Attempts : b # a => task'[b] = task[b]
         /\ \A b \in Attempts : Running(b)' => b # a /\ Running(b)
         /\ \A b \in Attempts : Starting(b)' => task'[b].identity \in Identities
<1>. DEFINE s == [Idle EXCEPT !.stage = "rejected"]
<1>1. s \in TaskStates /\ s.stage = "rejected"
  BY Records DEF Idle
<1>2. task' = [task EXCEPT ![a] = s]
  BY DEF Rejects
<1>. HIDE DEF s
<1>3. /\ task' \in [Tasks -> TaskStates] /\ task'[a] = s
      /\ \A b \in Attempts : b # a => task'[b] = task[b]
  BY <1>1, <1>2, Put, TaskFacts
<1>. QED  BY <1>1, <1>3 DEF Running, Starting, TypeOK

LEMMA CheckRefusesStep == ASSUME IInv, NEW h \in Attempts, CheckRefuses(h) PROVE IInv'
<1>1. /\ generation' = generation + 1 /\ Clear /\ Rejects(h) /\ Running(h) /\ TypeOK
      /\ UNCHANGED <<pinVars, used, plugins, holds, daemonVars, historyVars>>
  BY DEF CheckRefuses, Running, IInv
<1>2. TypeOK'
  <2>1. generation' \in Nat
    BY <1>1, Names
  <2>2. /\ pin' \in Identities \cup {NoIdentity} /\ validated' \in BOOLEAN
        /\ commands' \in 0..MaxCommands
    BY <1>1 DEF TypeOK, pinVars, historyVars
  <2>. QED  BY <1>1, <2>1, <2>2, RejectsEffect, ClearType DEF historyVars
<1>3. \A a \in Attempts : Running(a)' => task'[a].generation # generation'
  BY <1>1, RejectsEffect, Names DEF IInv, OrderOK
<1>4. \A a \in Attempts : \/ task'[a] = task[a]
                          \/ Running(a) /\ task'[a].stage = "rejected"
  BY <1>1, RejectsEffect
<1>. QED  BY <1>1, <1>2, <1>3, <1>4, Names, ClearStep DEF historyVars

-----------------------------------------------------------------------------
(* Startups *)

LEMMA StartupFailsStep == ASSUME IInv, NEW a \in Attempts, StartupFails(a) PROVE IInv'
<1>. USE DEF IInv
<1>1. /\ Running(a) /\ Rejects(a)
      /\ UNCHANGED <<validated, used, plugins, holds, daemonVars, historyVars>>
  BY DEF StartupFails, Running
<1>2. CASE connection = a
  <2>1. Clear /\ generation' = generation /\ pin' \in {pin, NoIdentity}
    BY <1>2 DEF StartupFails
  <2>2. TypeOK'
    <3>1. /\ generation' \in Nat
          /\ pin' \in Identities \cup {NoIdentity} /\ validated' \in BOOLEAN
          /\ commands' \in 0..MaxCommands
      BY <1>1, <2>1 DEF TypeOK, historyVars
    <3>. QED  BY <1>1, <2>1, <3>1, RejectsEffect, ClearType DEF historyVars
  <2>3. \A b \in Attempts : Running(b)' => task'[b].generation # generation'
    <3>. SUFFICES ASSUME NEW b \in Attempts, Running(b)', task'[b].generation = generation'
                  PROVE  FALSE
      OBVIOUS
    <3>1. b # a /\ Running(b) /\ task[b].generation = generation
      BY <1>1, <2>1, RejectsEffect
    <3>2. a # 0 /\ connected = 0
      BY <1>2, TaskFacts DEF PromiseOK
    <3>. QED  BY <1>2, <3>1, <3>2 DEF FencedOK
  <2>4. \A b \in Attempts : \/ task'[b] = task[b]
                            \/ Running(b) /\ task'[b].stage = "rejected"
    BY <1>1, RejectsEffect
  <2>. QED  BY <1>1, <2>1, <2>2, <2>3, <2>4, Names, ClearStep DEF historyVars
<1>3. CASE connection # a
  <2>1. UNCHANGED <<pin, stateVars>>
    BY <1>3 DEF StartupFails
  <2>2. TypeOK'
    BY <1>1, <2>1, RejectsEffect DEF TypeOK, stateVars, daemonVars, historyVars
  <2>3. task[a].generation # generation
    BY <1>3 DEF StartupFails, FencedOK, Running
  <2>4. daemon' \in {0, started'} /\ started' >= started
    BY <1>1, Names DEF CompactionOK, daemonVars
  <2>. QED  BY <1>1, <2>1, <2>2, <2>3, <2>4, RejectsEffect, SettleStep
            DEF stateVars, daemonVars, historyVars
<1>. QED  BY <1>2, <1>3

LEMMA DiscoveredStep == ASSUME IInv, NEW a \in Attempts, Discovered(a) PROVE IInv'
<1>. USE DEF IInv
<1>. DEFINE s == [task[a] EXCEPT !.stage = "ensuring"]
<1>1. /\ s \in TaskStates /\ s.stage = "ensuring" /\ s.generation = task[a].generation
      /\ s.identity = task[a].identity
  BY Names DEF TaskStates
<1>2. task' = [task EXCEPT ![a] = s] /\ task[a].stage = "discovering"
      /\ UNCHANGED <<pinVars, stateVars, used, plugins, holds, daemonVars, historyVars>>
  BY DEF Discovered
<1>. HIDE DEF s
<1>3. /\ task' \in [Tasks -> TaskStates] /\ task'[a] = s
      /\ \A b \in Attempts : b # a => task'[b] = task[b]
  BY <1>1, <1>2, Put, TaskFacts
<1>4. \A b \in Attempts :
        /\ Starting(b)' = Starting(b) /\ Running(b)' = Running(b)
        /\ Running(b) => /\ task'[b].generation = task[b].generation
                         /\ task'[b].identity = task[b].identity
                         /\ ~Starting(b) => task'[b] = task[b]
        /\ ~Running(b) => task'[b] = task[b]
        /\ (task'[b].stage = "waiting") = (task[b].stage = "waiting")
        /\ (task'[b].stage = "idle") = (task[b].stage = "idle")
        /\ (task'[b].stage = "checking") = (task[b].stage = "checking")
  BY <1>1, <1>2, <1>3 DEF Starting, Running
<1>5. TypeOK'
  BY <1>2, <1>3, <1>4 DEF TypeOK, pinVars, stateVars, daemonVars, historyVars, Running
<1>6. connected # a /\ previous # a
  BY <1>2, Names DEF Running, Starting
<1>. USE <1>2 DEF pinVars, stateVars, daemonVars, historyVars
<1>7. OrderOK'
  BY <1>4 DEF OrderOK
<1>8. FencedOK'
  BY <1>4 DEF FencedOK, Running
<1>9. PromiseOK'
  BY <1>4, Names, TaskFacts DEF PromiseOK, Running
<1>10. LastOK' /\ ConnectedMatchesPin'
  BY <1>3, <1>6, Names, TaskFacts DEF LastOK, ConnectedMatchesPin
<1>11. CompactionOK'
  BY <1>3, <1>6, Names, TaskFacts DEF CompactionOK, Last
<1>12. NoCircularWait'
  BY <1>4 DEF NoCircularWait, Running, Starting
<1>. QED  BY <1>5, <1>7, <1>8, <1>9, <1>10, <1>11, <1>12

\* A startup ends with a connection to the daemon that runs.
LEMMA CreateStep ==
  ASSUME IInv, NEW a \in Attempts, NEW e \in 1..MaxEndpoints, Starting(a),
         CreateConnection(a, e), daemon' = e, started' = e, started' >= started
  PROVE  IInv'
<1>. USE DEF IInv
<1>. DEFINE s == [task[a] EXCEPT !.stage = "resolved", !.result = a, !.endpoint = e]
<1>1. /\ s \in TaskStates /\ s.stage = "resolved" /\ s.generation = task[a].generation
      /\ s.identity = task[a].identity /\ s.endpoint = e
  <2>1. task[a] \in TaskStates /\ a \in 0..MaxAttempts
    BY Names, TaskFacts
  <2>2. e \in 0..MaxEndpoints
    BY TaskFacts
  <2>. QED  BY ONLY <2>1, <2>2 DEF TaskStates
<1>2. /\ task' = [task EXCEPT ![a] = s]
      /\ UNCHANGED <<pin, used, plugins, historyVars>>
  BY DEF CreateConnection
<1>. HIDE DEF s
<1>3. /\ task' \in [Tasks -> TaskStates] /\ task'[a] = s
      /\ \A b \in Attempts : b # a => task'[b] = task[b]
  BY <1>1, <1>2, Put, TaskFacts
<1>4. /\ Running(a) /\ ~Running(a)'
      /\ \A b \in Attempts : b # a => Running(b)' = Running(b) /\ Starting(b)' = Starting(b)
      /\ \A b \in Attempts : Starting(b)' => b # a /\ Starting(b)
  BY <1>1, <1>3 DEF Running, Starting
<1>5. /\ task' \in [Tasks -> TaskStates]
      /\ \A b \in Attempts : Starting(b)' => task'[b].identity \in Identities
      /\ pin' \in Identities \cup {NoIdentity}
      /\ used' \in 0..MaxAttempts /\ plugins' \in [Attempts -> {"none", "pending", "ready"}]
      /\ compacting' \in 0..MaxEndpoints /\ commands' \in 0..MaxCommands
      /\ daemon' \in 0..MaxEndpoints /\ started' \in 0..MaxEndpoints
  BY <1>2, <1>3, <1>4, TaskFacts DEF TypeOK, historyVars
<1>6. CASE ~Fenced(a)
  <2>1. UNCHANGED <<validated, stateVars, holds>>
    BY <1>6 DEF CreateConnection
  <2>2. TypeOK'
    BY <1>5, <2>1 DEF TypeOK, stateVars
  <2>3. task'[a].stage = "resolved"
    BY <1>1, <1>3
  <2>. QED  BY <1>2, <1>3, <1>4, <1>6, <2>1, <2>2, <2>3, SettleStep
            DEF stateVars, historyVars, Fenced
<1>7. CASE Fenced(a)
  <2>1. /\ Install(a, e, previous) /\ UNCHANGED <<generation, healthCheck>>
    BY <1>7 DEF CreateConnection
  <2>2. /\ connection = a /\ connected = 0 /\ healthCheck = 0
        /\ task[a].identity = pin /\ pin # NoIdentity /\ task[a].generation = generation
    BY <1>4, <1>7, TaskFacts DEF Fenced, FencedOK, PromiseOK
  <2>3. TypeOK'
    <3>1. /\ generation' \in Nat /\ connection' \in 0..MaxAttempts
          /\ connected' \in 0..MaxAttempts /\ healthCheck' \in 0..MaxAttempts
          /\ previous' \in 0..MaxAttempts /\ holds' \subseteq Attempts
      BY <2>1, TaskFacts DEF TypeOK, Install, Carried
    <3>2. validated' \in BOOLEAN /\ fresh' \in BOOLEAN
      BY <2>1 DEF Install
    <3>. QED  BY <1>5, <3>1, <3>2 DEF TypeOK
  <2>4. ASSUME NEW b \in Attempts, Running(b)' PROVE task'[b].generation # generation'
    <3>1. b # a /\ Running(b) /\ task'[b] = task[b] /\ generation' = generation
      BY <1>3, <1>4, <2>1, <2>4
    <3>. QED  BY <2>2, <3>1 DEF FencedOK
  <2>5. FencedOK' /\ PromiseOK'
    <3>1. connection' = 0 /\ healthCheck' = 0
      BY <2>1, <2>2 DEF Install
    <3>. QED  BY <2>4, <3>1 DEF FencedOK, PromiseOK
  <2>6. OrderOK' /\ NoCircularWait'
    <3>1. used' = used /\ generation' = generation /\ task'[a].stage = "resolved"
      BY <1>1, <1>2, <1>3, <2>1
    <3>2. \A b \in Attempts : b > used => task'[b].stage = "idle"
      BY <1>3, <1>4, Names DEF OrderOK
    <3>3. \A b \in Attempts : Running(b)' => Running(b) /\ task'[b] = task[b]
      BY <1>3, <1>4
    <3>4. OrderOK'
      BY <3>1, <3>2, <3>3 DEF OrderOK
    <3>5. NoCircularWait'
      BY <1>3, <3>1 DEF NoCircularWait
    <3>. QED  BY <3>4, <3>5
  <2>7. connected' = a /\ previous' = 0 /\ a # 0 /\ task'[a] = s
    BY <1>3, <2>1, TaskFacts DEF Install
  <2>8. LastOK' /\ ConnectedMatchesPin'
    BY <1>1, <1>2, <2>1, <2>2, <2>7, TaskFacts DEF LastOK, ConnectedMatchesPin
  <2>9. CompactionOK'
    <3>1. Last' = a /\ Last = previous /\ task'[a].endpoint = e /\ compacting' = compacting
      BY <1>1, <1>2, <2>2, <2>7 DEF Last, historyVars
    <3>2. compacting # 0 => /\ previous # 0 /\ compacting <= task[previous].endpoint
                            /\ task[previous].endpoint <= started
      BY <3>1, Names, TaskFacts DEF CompactionOK, LastOK
    <3>3. compacting' # 0 => compacting' <= e
      BY <3>1, <3>2, Names, TaskFacts
    <3>4. ASSUME e = compacting PROVE a \in holds'
      <4>1. previous # 0 /\ task[previous].endpoint = e
        BY <3>2, <3>4, Names, TaskFacts
      <4>2. previous \in holds
        BY <3>1, <3>4, <4>1 DEF CompactionOK
      <4>. QED  BY <2>1, <4>1, <4>2 DEF Install, Carried
    <3>. QED  BY <3>1, <3>3, <3>4, <2>7 DEF CompactionOK
  <2>. QED  BY <2>3, <2>5, <2>6, <2>8, <2>9
<1>. QED  BY <1>6, <1>7

LEMMA StartupSucceedsStep ==
  ASSUME IInv, NEW a \in Attempts, StartupDiscovers(a) \/ StartupEnsures(a)
  PROVE  IInv'
<1>1. daemon \in {0, started} /\ daemon \in 0..MaxEndpoints /\ started \in 0..MaxEndpoints
  BY DEF IInv, CompactionOK, TypeOK
<1>2. CASE daemon # 0
  <2>1. Starting(a) /\ CreateConnection(a, daemon) /\ UNCHANGED daemonVars
    BY <1>2 DEF StartupDiscovers, StartupEnsures, Starting, daemonVars
  <2>2. daemon \in 1..MaxEndpoints /\ daemon' = daemon /\ started' = daemon
    BY <1>1, <1>2, <2>1, TaskFacts DEF daemonVars
  <2>. QED  BY <1>1, <2>1, <2>2, CreateStep, TaskFacts
<1>3. CASE daemon = 0
  <2>1. /\ Starting(a) /\ CreateConnection(a, daemon')
        /\ started < MaxEndpoints /\ started' = started + 1 /\ daemon' = started + 1
    BY <1>3 DEF StartupDiscovers, StartupEnsures, Starting
  <2>2. daemon' \in 1..MaxEndpoints /\ started' >= started
    BY <1>1, <2>1, TaskFacts
  <2>. QED  BY <2>1, <2>2, CreateStep
<1>. QED  BY <1>2, <1>3

-----------------------------------------------------------------------------
(* Health checks *)

\* A promise that adopted another one settles with it.
LEMMA AdoptedStep == ASSUME IInv, NEW h \in Attempts, Adopted(h) PROVE IInv'
<1>. USE DEF IInv
<1>. DEFINE f == task[h].follows
            s == [Idle EXCEPT !.stage = task[f].stage, !.result = task[f].result]
<1>1. /\ task[h].stage = "waiting" /\ Settled(f) /\ task' = [task EXCEPT ![h] = s]
      /\ UNCHANGED <<pinVars, stateVars, used, plugins, holds, daemonVars, historyVars>>
  BY DEF Adopted
<1>2. f \in Attempts
  <2>1. task[h] \in TaskStates
    BY Names
  <2>. QED  BY <1>1, <2>1, FieldTypes, TaskFacts DEF NoCircularWait
<1>3. task[f].stage \in {"resolved", "rejected"} /\ task[f].result \in 0..MaxAttempts
  BY <1>1, <1>2, Names, FieldTypes DEF Settled
<1>4. s \in TaskStates /\ s.stage = task[f].stage
  BY <1>3, Records DEF TaskStates, Idle
<1>. HIDE DEF s, f
<1>5. /\ task' \in [Tasks -> TaskStates] /\ task'[h] = s
      /\ \A b \in Attempts : b # h => task'[b] = task[b]
  BY <1>1, <1>4, Put, TaskFacts
<1>6. \A b \in Attempts : Starting(b)' => Starting(b) /\ task'[b] = task[b]
  BY <1>3, <1>4, <1>5 DEF Starting
<1>7. TypeOK'
  BY <1>1, <1>5, <1>6 DEF TypeOK, pinVars, stateVars, daemonVars, historyVars
<1>8. daemon' \in {0, started'} /\ started' >= started
  BY <1>1, Names DEF CompactionOK, daemonVars
<1>9. ~Running(h)
  BY <1>1 DEF Running, Starting
<1>. QED  BY <1>1, <1>3, <1>4, <1>5, <1>7, <1>8, <1>9, SettleStep
          DEF pinVars, stateVars, daemonVars, historyVars

\* A health check that was not overtaken is the one callers join, and nothing else
\* runs in its generation.
LEMMA CheckIsAlone ==
  ASSUME IInv, NEW h \in Attempts, task[h].stage = "checking", ~Overtaken(h)
  PROVE  /\ Running(h) /\ healthCheck = h /\ connected # 0 /\ connected # h
         /\ connection = 0 /\ connected \in Attempts /\ task[h].of = connected
         /\ task[h].identity = pin /\ pin \in Identities
         /\ \A b \in Attempts :
              Running(b) /\ task[b].generation = generation => b = h
<1>. USE TaskFacts DEF IInv
<1>1. Running(h) /\ ~Starting(h) /\ task[h].generation = generation
  BY DEF Running, Starting, Overtaken, Fenced
<1>2. /\ healthCheck = h /\ connected # 0 /\ task[h].of = connected
      /\ task[h].identity = pin /\ pin # NoIdentity
  BY <1>1 DEF FencedOK
<1>3. connection = 0
  BY <1>2 DEF PromiseOK
<1>4. connected # h /\ connected \in Attempts /\ pin \in Identities
  BY <1>1, <1>2, Names DEF TypeOK
<1>5. ASSUME NEW b \in Attempts, Running(b), task[b].generation = generation PROVE b = h
  <2>1. b # 0
    OBVIOUS
  <2>. QED  BY <1>2, <1>3, <1>5, <2>1 DEF FencedOK
<1>. QED  BY <1>1, <1>2, <1>3, <1>4, <1>5

LEMMA CheckConfirmsStep == ASSUME IInv, NEW h \in Attempts, CheckConfirms(h) PROVE IInv'
<1>. USE DEF IInv
<1>1. /\ task[h].stage = "checking" /\ ~Overtaken(h)
      /\ task' = [task EXCEPT ![h] = Resolves(connected)] /\ healthCheck' = 0
      /\ UNCHANGED <<pinVars, generation, connection, connected, previous, used,
                     plugins, holds, daemonVars, historyVars>>
  BY DEF CheckConfirms
<1>2. /\ task' \in [Tasks -> TaskStates] /\ task'[h] = Resolves(connected)
      /\ \A b \in Attempts : b # h => task'[b] = task[b]
  BY <1>1, CheckIsAlone, Records, Names, Put, TaskFacts
<1>3. task'[h].stage = "resolved"
  BY <1>2 DEF Resolves, Idle
<1>4. \A b \in Attempts : b # h => Running(b)' = Running(b) /\ Starting(b)' = Starting(b)
  BY <1>2 DEF Running, Starting
<1>5. ~Running(h)' /\ ~Starting(h)'
  BY <1>3 DEF Running, Starting
<1>6. TypeOK'
  <2>1. \A a \in Attempts : Starting(a)' => task'[a].identity \in Identities
    BY <1>2, <1>4, <1>5 DEF TypeOK
  <2>2. healthCheck' \in 0..MaxAttempts
    BY <1>1, TaskFacts
  <2>3. fresh' \in BOOLEAN
    BY DEF CheckConfirms
  <2>. QED  BY <1>1, <1>2, <2>1, <2>2, <2>3 DEF TypeOK, pinVars, daemonVars, historyVars
<1>7. /\ h <= used /\ healthCheck = h /\ connection = 0 /\ connected # h /\ previous # h
      /\ \A b \in Attempts : Running(b) /\ task[b].generation = generation => b = h
  BY <1>1, CheckIsAlone, Names, TaskFacts
<1>8. OrderOK' /\ NoCircularWait'
  <2>1. \A b \in Attempts : b > used => task'[b].stage = "idle"
    BY <1>2, <1>7, Names, TaskFacts DEF OrderOK
  <2>2. \A b \in Attempts : Running(b)' => Running(b) /\ task'[b] = task[b]
    BY <1>2, <1>4, <1>5
  <2>3. OrderOK'
    BY <1>1, <2>1, <2>2 DEF OrderOK
  <2>. QED  BY <1>2, <1>3, <2>3 DEF NoCircularWait
<1>9. FencedOK' /\ PromiseOK'
  BY <1>1, <1>2, <1>4, <1>5, <1>7 DEF FencedOK, PromiseOK, pinVars
<1>10. LastOK' /\ ConnectedMatchesPin'
  BY <1>1, <1>2, <1>7, Names, TaskFacts DEF LastOK, ConnectedMatchesPin, pinVars, daemonVars
<1>11. CompactionOK'
  BY <1>1, <1>2, <1>7, Names, TaskFacts DEF CompactionOK, Last, daemonVars, historyVars
<1>. QED  BY <1>6, <1>8, <1>9, <1>10, <1>11

LEMMA CheckReplacesStep == ASSUME IInv, NEW h \in Attempts, CheckReplaces(h) PROVE IInv'
<1>. USE DEF IInv
<1>. DEFINE s == [task[h] EXCEPT !.stage = "resolved", !.result = h, !.of = 0,
                                 !.endpoint = daemon, !.generation = generation + 1]
<1>1. /\ task[h].stage = "checking" /\ ~Overtaken(h)
      /\ daemon # 0 /\ generation' = generation + 1 /\ healthCheck' = 0
      /\ Install(h, daemon, connected) /\ task' = [task EXCEPT ![h] = s]
      /\ UNCHANGED <<pin, used, plugins, daemonVars, historyVars>>
  BY DEF CheckReplaces
<1>2. /\ healthCheck = h /\ connected # 0 /\ connected # h /\ connected \in Attempts
      /\ task[h].identity = pin /\ pin \in Identities /\ h # 0 /\ h <= used
  BY <1>1, CheckIsAlone, Names, TaskFacts
<1>3. /\ s \in TaskStates /\ s.stage = "resolved" /\ s.generation = generation + 1
      /\ s.identity = task[h].identity /\ s.endpoint = daemon
  <2>1. /\ task[h] \in TaskStates /\ h \in 0..MaxAttempts /\ 0 \in 0..MaxAttempts
        /\ daemon \in 0..MaxEndpoints /\ generation + 1 \in Nat
    BY Names, TaskFacts DEF TypeOK
  <2>. QED  BY ONLY <2>1 DEF TaskStates
<1>. HIDE DEF s
<1>4. /\ task' \in [Tasks -> TaskStates] /\ task'[h] = s
      /\ \A b \in Attempts : b # h => task'[b] = task[b]
  BY <1>1, <1>3, Put, TaskFacts
<1>5. \A b \in Attempts : /\ Running(b)' => b # h /\ Running(b) /\ task'[b] = task[b]
                          /\ Starting(b)' => b # h /\ Starting(b)
  BY <1>3, <1>4 DEF Running, Starting
<1>6. TypeOK'
  <2>1. /\ generation' \in Nat /\ connection' \in 0..MaxAttempts
        /\ connected' \in 0..MaxAttempts /\ healthCheck' \in 0..MaxAttempts
        /\ previous' \in 0..MaxAttempts /\ holds' \subseteq Attempts
    BY <1>1, Names, TaskFacts DEF Install, Carried
  <2>2. validated' \in BOOLEAN /\ fresh' \in BOOLEAN
    BY <1>1 DEF Install
  <2>3. \A a \in Attempts : Starting(a)' => task'[a].identity \in Identities
    BY <1>4, <1>5 DEF TypeOK
  <2>. QED  BY <1>1, <1>4, <2>1, <2>2, <2>3 DEF TypeOK, daemonVars, historyVars
<1>7. ASSUME NEW b \in Attempts, Running(b)'
      PROVE  task'[b].generation # generation' /\ task'[b].generation <= generation'
  BY <1>1, <1>5, <1>7, Names DEF OrderOK
<1>8. /\ connected' = h /\ previous' = 0 /\ connection' = 0 /\ healthCheck' = 0
      /\ holds' = Carried(h, daemon, connected)
  BY <1>1 DEF Install
<1>9. FencedOK' /\ PromiseOK'
  BY <1>7, <1>8 DEF FencedOK, PromiseOK
<1>10. OrderOK' /\ NoCircularWait'
  <2>1. \A b \in Attempts : b > used' => task'[b].stage = "idle"
    BY <1>1, <1>2, <1>4, Names, TaskFacts DEF OrderOK
  <2>2. OrderOK'
    BY <1>5, <1>7, <2>1 DEF OrderOK
  <2>3. NoCircularWait'
    BY <1>3, <1>4 DEF NoCircularWait
  <2>. QED  BY <2>2, <2>3
<1>11. daemon \in {0, started} /\ daemon \in 0..MaxEndpoints
  BY DEF TypeOK, CompactionOK
<1>12. LastOK' /\ ConnectedMatchesPin'
  BY <1>1, <1>2, <1>3, <1>4, <1>8, <1>11, TaskFacts
     DEF LastOK, ConnectedMatchesPin, daemonVars
<1>13. CompactionOK'
  <2>1. /\ Last' = h /\ Last = connected /\ task'[h].endpoint = daemon
        /\ compacting' = compacting
    BY <1>1, <1>2, <1>3, <1>4, <1>8 DEF Last, historyVars
  <2>2. compacting # 0 => /\ compacting <= task[connected].endpoint
                          /\ task[connected].endpoint <= started
    BY <1>2, <2>1, Names DEF CompactionOK, LastOK
  <2>3. compacting # 0 => compacting <= daemon
    BY <1>1, <1>11, <1>2, <2>2, Names
  <2>4. ASSUME daemon = compacting PROVE h \in holds'
    <3>1. task[connected].endpoint = daemon
      BY <1>1, <1>2, <1>11, <2>2, <2>4, Names
    <3>2. connected \in holds
      BY <1>2, <2>1, <2>4, <3>1 DEF CompactionOK
    <3>. QED  BY <1>8, <3>1, <3>2 DEF Carried
  <2>5. daemon' = daemon /\ started' = started
    BY <1>1 DEF daemonVars
  <2>. QED  BY <1>2, <1>11, <2>1, <2>3, <2>4, <2>5 DEF CompactionOK
<1>. QED  BY <1>6, <1>9, <1>10, <1>12, <1>13

-----------------------------------------------------------------------------
(* connectService *)

\* A new attempt r begins, which the task t adopts; nobody else runs in its
\* generation.
LEMMA BeginStep ==
  ASSUME IInv, NEW t \in Tasks, NEW r \in TaskStates, Begin(t, r),
         t \in Attempts => Running(t),
         r.generation = generation', r.identity = pin', pin' \in Identities,
         generation' \in Nat, generation' >= generation,
         \A b \in Attempts : Running(b) /\ b # t => task[b].generation # generation',
         \/ /\ r.stage = "discovering"
            /\ connection' = used + 1 /\ connected' = 0 /\ healthCheck' = 0
            /\ previous' = Last
         \/ /\ r.stage = "checking" /\ r.of = connected /\ connected # 0
            /\ connection' = 0 /\ connected' = connected /\ healthCheck' = used + 1
            /\ previous' = previous /\ generation' = generation /\ pin' = pin,
         fresh' \in BOOLEAN,
         UNCHANGED <<validated, plugins, holds, daemonVars, historyVars>>
  PROVE  IInv'
<1>. USE DEF IInv
<1>0. PICK n \in Nat : n = used + 1
  BY Names
<1>. USE <1>0
<1>1. /\ n \in Attempts /\ n \in 0..MaxAttempts /\ n # 0 /\ n \in Tasks
      /\ used' = n /\ used \in Nat
  BY Names, TaskFacts DEF Begin, Attempts
<1>2. t # n /\ (t \in Attempts => t <= used /\ t # 0)
  BY <1>1, Names, TaskFacts DEF Attempts
<1>3. Adopts(n) \in TaskStates
  BY <1>1, Records
<1>4. Adopts(n).stage = "waiting" /\ Adopts(n).follows = n
  BY DEF Adopts, Idle
<1>5. task' = [task EXCEPT ![t] = Adopts(n), ![n] = r]
  BY DEF Begin
<1>6. /\ task' \in [Tasks -> TaskStates] /\ task'[n] = r /\ task'[t] = Adopts(n)
      /\ \A b \in Attempts : b # t /\ b # n => task'[b] = task[b]
  BY <1>1, <1>2, <1>3, <1>5, TaskFacts DEF TypeOK
<1>7. /\ Running(n)' /\ (Starting(n)' <=> r.stage = "discovering")
      /\ \A b \in Attempts : b # n =>
           /\ Running(b)' => b # t /\ Running(b) /\ task'[b] = task[b]
           /\ Starting(b)' => b # t /\ Starting(b) /\ task'[b] = task[b]
  <2>1. Running(n)' /\ (Starting(n)' <=> r.stage = "discovering")
    BY <1>6 DEF Running, Starting
  <2>2. ~Running(t)' /\ ~Starting(t)'
    BY <1>4, <1>6 DEF Running, Starting
  <2>3. \A b \in Attempts : b # n /\ b # t =>
          task'[b] = task[b] /\ Running(b)' = Running(b) /\ Starting(b)' = Starting(b)
    BY <1>6 DEF Running, Starting
  <2>. QED  BY <2>1, <2>2, <2>3
<1>8. TypeOK'
  <2>1. \A a \in Attempts : Starting(a)' => task'[a].identity \in Identities
    BY <1>6, <1>7 DEF TypeOK
  <2>2. /\ connection' \in 0..MaxAttempts /\ connected' \in 0..MaxAttempts
        /\ healthCheck' \in 0..MaxAttempts /\ previous' \in 0..MaxAttempts
        /\ used' \in 0..MaxAttempts
    BY <1>1, Names, TaskFacts DEF Last
  <2>3. /\ pin' \in Identities \cup {NoIdentity} /\ holds' \subseteq Attempts
        /\ plugins' \in [Attempts -> {"none", "pending", "ready"}]
        /\ daemon' \in 0..MaxEndpoints /\ started' \in 0..MaxEndpoints
        /\ compacting' \in 0..MaxEndpoints /\ commands' \in 0..MaxCommands
    BY DEF TypeOK, daemonVars, historyVars
  <2>4. validated' \in BOOLEAN
    BY DEF TypeOK
  <2>. QED  BY ONLY generation' \in Nat, fresh' \in BOOLEAN, <1>6, <2>1, <2>2, <2>3, <2>4
            DEF TypeOK
<1>9. ASSUME NEW b \in Attempts, Running(b)', b # n
      PROVE  /\ b <= used /\ task'[b] = task[b] /\ Running(b)
             /\ task'[b].generation # generation' /\ task'[b].generation <= generation'
             /\ task'[b].generation \in Nat
  BY <1>7, <1>9, Names, TaskFacts DEF OrderOK
<1>10. OrderOK'
  <2>1. \A b \in Attempts : b > used' => task'[b].stage = "idle"
    BY <1>1, <1>2, <1>6, Names, TaskFacts DEF OrderOK
  <2>2. ASSUME NEW a \in Attempts, Running(a)', NEW b \in Attempts, Running(b)', a < b
        PROVE  task'[a].generation <= task'[b].generation
    <3>1. a # n
      BY <1>1, <1>9, <2>2, Names, TaskFacts
    <3>2. CASE b = n
      BY <1>6, <1>9, <2>2, <3>1, <3>2
    <3>3. CASE b # n
      BY <1>9, <2>2, <3>1, <3>3 DEF OrderOK
    <3>. QED  BY <3>2, <3>3
  <2>3. \A a \in Attempts : Running(a)' => task'[a].generation <= generation'
    BY <1>6, <1>9
  <2>. QED  BY <2>1, <2>2, <2>3 DEF OrderOK
<1>11. FencedOK'
  <2>1. pin' # NoIdentity
    BY IdentityAssumption
  <2>2. /\ task'[n].identity = pin'
        /\ Starting(n)' => connection' = n
        /\ ~Starting(n)' => healthCheck' = n /\ connected' # 0 /\ task'[n].of = connected'
    BY <1>6, <1>7
  <2>. QED  BY <1>9, <2>1, <2>2 DEF FencedOK
<1>12. PromiseOK'
  BY <1>1, <1>6, <1>7 DEF PromiseOK
<1>13. NoCircularWait'
  <2>1. t \in Attempts => n > t
    <3>1. ASSUME t \in Attempts PROVE t \in Nat /\ t <= used
      BY <1>2, <3>1, TaskFacts
    <3>. QED  BY <1>1, <3>1
  <2>2. task'[n].stage # "waiting"
    BY <1>6
  <2>3. ASSUME NEW a \in Attempts, task'[a].stage = "waiting" PROVE task'[a].follows > a
    <3>1. CASE a = t
      BY <1>4, <1>6, <2>1, <3>1
    <3>2. CASE a # t
      BY <1>6, <2>2, <2>3, <3>2 DEF NoCircularWait
    <3>. QED  BY <3>1, <3>2
  <2>. QED  BY <2>3 DEF NoCircularWait
<1>14. \A k \in 0..MaxAttempts : k # 0 /\ k \in {connected, previous} =>
         k # t /\ k # n /\ task'[k] = task[k]
  <2>1. n > used
    BY <1>1
  <2>2. t \in Callers \/ t \in Attempts
    BY DEF Tasks
  <2>3. ASSUME NEW k \in Attempts, k \in {connected, previous}
        PROVE  k # t /\ k # n
    BY <1>1, <2>1, <2>2, <2>3, Names, TaskFacts
  <2>. QED  BY <1>6, <2>3, TaskFacts
<1>15. LastOK' /\ ConnectedMatchesPin'
  BY <1>14, Names DEF LastOK, ConnectedMatchesPin, Last, daemonVars
<1>16. CompactionOK'
  BY <1>14, Names DEF CompactionOK, Last, daemonVars, historyVars
<1>. QED  BY <1>8, <1>10, <1>11, <1>12, <1>13, <1>15, <1>16

\* The daemon is gone: the startup that replaces the check begins a generation.
LEMMA CheckRestartsStep == ASSUME IInv, NEW h \in Attempts, CheckRestarts(h) PROVE IInv'
<1>. USE DEF IInv
<1>1. /\ task[h].stage = "checking" /\ ~Overtaken(h)
      /\ generation' = generation + 1 /\ Begin(h, Startup(generation + 1, pin))
      /\ previous' = connected /\ connected' = 0 /\ healthCheck' = 0 /\ fresh' = FALSE
      /\ connection' = used + 1
      /\ UNCHANGED <<pinVars, plugins, holds, daemonVars, historyVars>>
  BY DEF CheckRestarts
<1>2. Running(h) /\ connected # 0 /\ pin \in Identities /\ previous' = Last
  BY <1>1, CheckIsAlone DEF Last
<1>3. generation' \in Nat /\ generation' >= generation
  BY <1>1, Names
<1>4. PICK r \in TaskStates : r = Startup(generation + 1, pin)
  BY <1>1, <1>2, <1>3, Records
<1>5. r.stage = "discovering" /\ r.generation = generation' /\ r.identity = pin'
  BY <1>1, <1>4 DEF Startup, Idle, pinVars
<1>6. \A b \in Attempts : Running(b) => task[b].generation # generation'
  BY <1>1, Names DEF OrderOK
<1>7. fresh' \in BOOLEAN
  BY <1>1
<1>8. Begin(h, r) /\ pin' \in Identities /\ validated' = validated /\ h \in Tasks
  BY <1>1, <1>2, <1>4, TaskFacts DEF pinVars
<1>. QED  BY <1>1, <1>2, <1>3, <1>5, <1>6, <1>7, <1>8, BeginStep

\* A caller, or a health check that was overtaken, joins what is in progress, uses
\* the connection or begins an attempt.
LEMMA ConnectServiceStep ==
  ASSUME IInv, NEW t \in Tasks, NEW i \in Identities, ConnectService(t, i),
         pin' = i, pin \in {NoIdentity, i},
         t \in Attempts => task[t].stage = "checking" /\ Overtaken(t),
         UNCHANGED <<validated, plugins, holds, daemonVars, historyVars>>
  PROVE  IInv'
<1>. USE DEF IInv
<1>1. t \in Attempts => Running(t) /\ task[t].generation # generation
  BY DEF Running, Starting, Overtaken, Fenced, Current, FencedOK
<1>2. connected # 0 \/ connection # 0 => pin' = pin
  <2>1. connected # 0 => pin # NoIdentity
    BY DEF ConnectedMatchesPin
  <2>2. connection # 0 => pin # NoIdentity
    BY Names, TaskFacts DEF PromiseOK, FencedOK, Running
  <2>. QED  BY <2>1, <2>2
<1>3. ASSUME NEW s \in TaskStates, task' = [task EXCEPT ![t] = s],
             UNCHANGED <<stateVars, used>>, connected # 0 \/ connection # 0,
             \/ s.stage = "resolved"
             \/ s.stage = "waiting" /\ (t \in Attempts => s.follows > t)
      PROVE  IInv'
  <2>1. /\ task' \in [Tasks -> TaskStates] /\ task'[t] = s
        /\ \A b \in Attempts : b # t => task'[b] = task[b]
    BY <1>3, Put, TaskFacts
  <2>2. \A b \in Attempts : Starting(b)' => Starting(b) /\ task'[b] = task[b]
    BY <1>3, <2>1 DEF Starting
  <2>3. TypeOK'
    BY <1>2, <1>3, <2>1, <2>2 DEF TypeOK, stateVars, daemonVars, historyVars
  <2>4. daemon' \in {0, started'} /\ started' >= started
    BY Names DEF CompactionOK, daemonVars
  <2>5. CASE t \in Attempts
    BY <1>1, <1>2, <1>3, <2>1, <2>3, <2>4, <2>5, SettleStep DEF stateVars, historyVars
  <2>6. CASE t \notin Attempts
    BY <1>2, <1>3, <2>1, <2>3, <2>4, <2>6, QuietStep DEF stateVars, historyVars
  <2>. QED  BY <2>5, <2>6
<1>4. ASSUME NEW k \in Attempts, Running(k), task[k].generation = generation,
             task' = [task EXCEPT ![t] = Adopts(k)],
             UNCHANGED <<stateVars, used>>, connected # 0 \/ connection # 0
      PROVE  IInv'
  <2>1. t \in Attempts => k > t
    <3>. SUFFICES ASSUME t \in Attempts PROVE k > t
      OBVIOUS
    <3>1. Running(t) /\ t # k /\ task[t].generation < generation
      BY <1>1, <1>4, Names DEF OrderOK
    <3>2. ~(k < t)
      BY <1>4, <3>1, Names DEF OrderOK
    <3>. QED  BY <3>1, <3>2, TaskFacts
  <2>2. /\ Adopts(k) \in TaskStates
        /\ Adopts(k).stage = "waiting" /\ Adopts(k).follows = k
    BY Records, TaskFacts DEF Adopts, Idle
  <2>. QED  BY <1>3, <1>4, <2>1, <2>2
<1>5. ASSUME NEW r \in TaskStates, Begin(t, r),
             r.generation = generation, r.identity = i,
             UNCHANGED <<generation, fresh, previous, connected>>,
             connected = 0 => connection = 0,
             \/ /\ r.stage = "discovering" /\ connected = 0
                /\ connection' = used + 1 /\ healthCheck' = healthCheck
             \/ /\ r.stage = "checking" /\ r.of = connected /\ connected # 0
                /\ healthCheck = 0
                /\ connection' = connection /\ healthCheck' = used + 1
      PROVE  IInv'
  <2>1. generation' \in Nat /\ generation' >= generation /\ generation' = generation
    BY <1>5, Names
  <2>2. fresh' \in BOOLEAN
    BY <1>5 DEF TypeOK
  <2>3. \A b \in Attempts : Running(b) /\ b # t => task[b].generation # generation'
    <3>. SUFFICES ASSUME NEW b \in Attempts, Running(b), task[b].generation = generation
                  PROVE  FALSE
      BY <2>1
    <3>1. b # 0
      BY TaskFacts
    <3>2. IF Starting(b) THEN connection = b ELSE healthCheck = b /\ connected # 0
      BY DEF FencedOK
    <3>. QED  BY <1>5, <3>1, <3>2 DEF PromiseOK
  <2>4. connected = 0 => healthCheck = 0 /\ previous = Last
    BY DEF PromiseOK, Last
  <2>5. connected # 0 => connection = 0
    BY DEF PromiseOK
  <2>. QED  BY <1>1, <1>2, <1>5, <2>1, <2>2, <2>3, <2>4, <2>5, BeginStep
<1>6. CASE connected = 0 /\ Joinable
  <2>1. connection \in Attempts /\ Running(connection)
        /\ task[connection].generation = generation /\ connection # 0
    BY <1>6, Names, TaskFacts DEF Joinable, PromiseOK, Running
  <2>2. task' = [task EXCEPT ![t] = Adopts(connection)] /\ UNCHANGED <<stateVars, used>>
    BY <1>6 DEF ConnectService
  <2>. QED  BY <1>4, <2>1, <2>2
<1>7. CASE connected = 0 /\ ~Joinable
  <2>1. PICK r \in TaskStates : r = Startup(generation, i)
    BY Names, Records
  <2>2. r.stage = "discovering" /\ r.generation = generation /\ r.identity = i
    BY <2>1 DEF Startup, Idle
  <2>. QED  BY <1>5, <1>7, <2>1, <2>2 DEF ConnectService, Joinable
<1>8. CASE connected # 0 /\ healthCheck # 0
  <2>1. healthCheck \in Attempts /\ Running(healthCheck)
        /\ task[healthCheck].generation = generation
    BY <1>8, Names, TaskFacts DEF PromiseOK, Running
  <2>2. task' = [task EXCEPT ![t] = Adopts(healthCheck)] /\ UNCHANGED <<stateVars, used>>
    BY <1>8 DEF ConnectService
  <2>. QED  BY <1>4, <1>8, <2>1, <2>2
<1>9. CASE connected # 0 /\ healthCheck = 0 /\ fresh
  <2>1. Resolves(connected) \in TaskStates /\ Resolves(connected).stage = "resolved"
    BY Names, Records DEF Resolves, Idle
  <2>2. task' = [task EXCEPT ![t] = Resolves(connected)] /\ UNCHANGED <<stateVars, used>>
    BY <1>9 DEF ConnectService
  <2>. QED  BY <1>3, <1>9, <2>1, <2>2
<1>10. CASE connected # 0 /\ healthCheck = 0 /\ ~fresh
  <2>1. PICK r \in TaskStates : r = Check(i)
    BY Records
  <2>2. /\ r.stage = "checking" /\ r.generation = generation /\ r.identity = i
        /\ r.of = connected
    BY <2>1 DEF Check, Idle
  <2>. QED  BY <1>5, <1>10, <2>1, <2>2 DEF ConnectService
<1>. QED  BY <1>6, <1>7, <1>8, <1>9, <1>10

LEMMA CheckRetriesStep == ASSUME IInv, NEW h \in Attempts, CheckRetries(h) PROVE IInv'
<1>. USE DEF IInv
<1>1. /\ task[h].stage = "checking" /\ Overtaken(h) /\ h \in Tasks
      /\ UNCHANGED <<pinVars, plugins, holds, daemonVars, historyVars>>
  BY TaskFacts DEF CheckRetries
<1>2. CASE pin = NoIdentity
  <2>1. Rejects(h) /\ UNCHANGED <<stateVars, used>>
    BY <1>2 DEF CheckRetries
  <2>2. Running(h) /\ task[h].generation # generation
    BY <1>1 DEF Running, Starting, Overtaken, Fenced, Current, FencedOK
  <2>3. TypeOK'
    BY <1>1, <2>1, RejectsEffect DEF TypeOK, pinVars, stateVars, daemonVars, historyVars
  <2>4. daemon' \in {0, started'} /\ started' >= started
    BY <1>1, Names DEF CompactionOK, daemonVars
  <2>. QED  BY <1>1, <2>1, <2>2, <2>3, <2>4, RejectsEffect, SettleStep
            DEF pinVars, stateVars, daemonVars, historyVars
<1>3. CASE pin # NoIdentity
  <2>1. ConnectService(h, pin)
    BY <1>3 DEF CheckRetries
  <2>2. pin \in Identities /\ pin' = pin /\ validated' = validated
    BY <1>1, <1>3 DEF TypeOK, pinVars
  <2>. QED  BY <1>1, <2>1, <2>2, ConnectServiceStep
<1>. QED  BY <1>2, <1>3

-----------------------------------------------------------------------------
(* Callers, the clock and the daemon *)

LEMMA ConnectStep ==
  ASSUME IInv, NEW c \in Callers, NEW option \in Identities \cup {NoIdentity},
         Connect(c, option)
  PROVE  IInv'
<1>1. /\ c \in Tasks /\ c \notin Attempts
      /\ UNCHANGED <<validated, plugins, holds, daemonVars, historyVars>>
  BY TaskFacts DEF Connect
<1>2. CASE Accepts(option) /\ pin' = Wanted(option) /\ ConnectService(c, Wanted(option))
  <2>1. Wanted(option) \in Identities /\ pin \in {NoIdentity, Wanted(option)}
    BY <1>2 DEF Accepts, Wanted, IInv, TypeOK
  <2>. QED  BY <1>1, <1>2, <2>1, ConnectServiceStep
<1>3. CASE Ends(c) /\ UNCHANGED <<pin, stateVars, used>>
  BY <1>1, <1>3, CallerEnds DEF pinVars
<1>. QED  BY <1>2, <1>3 DEF Connect

\* Steps that change the progress of callers, the plugins, the clock or the daemon.
LEMMA CallerStep ==
  ASSUME IInv, task' \in [Tasks -> TaskStates],
         \A a \in Attempts : task'[a] = task[a],
         plugins' \in [Attempts -> {"none", "pending", "ready"}],
         UNCHANGED <<pinVars, stateVars, used, holds, daemonVars, historyVars>>
  PROVE  IInv'
<1>. USE DEF IInv, pinVars, stateVars, daemonVars, historyVars
<1>1. TypeOK'
  BY TaskFacts DEF TypeOK, Starting
<1>. QED  BY <1>1, Names, QuietStep DEF CompactionOK

LEMMA PrepareStep == ASSUME IInv, NEW c \in Callers, Prepare(c) PROVE IInv'
<1>. DEFINE k == task[Answer(c)].result
<1>1. c \in Tasks /\ c \notin Attempts /\ TypeOK
  BY TaskFacts DEF IInv
<1>2. UNCHANGED <<pinVars, stateVars, used, holds, daemonVars, historyVars>>
  BY DEF Prepare
<1>3. CASE Ends(c) /\ UNCHANGED plugins
  BY <1>2, <1>3, CallerEnds
<1>4. ASSUME NEW stage \in {"ready", "preparing"}, k # 0, Current(k),
             task' = [task EXCEPT ![c] = [Resolves(k) EXCEPT !.stage = stage]],
             plugins' = plugins \/ plugins' = [plugins EXCEPT ![k] = "pending"]
      PROVE  IInv'
  <2>1. k \in Attempts
    BY <1>4, Names, TaskFacts DEF Current
  <2>2. PICK s \in TaskStates : s = [Resolves(k) EXCEPT !.stage = stage]
    <3>1. Resolves(k) \in TaskStates
      BY <1>1, <2>1, Records, TaskFacts
    <3>. QED  BY <3>1 DEF TaskStates
  <2>3. task' \in [Tasks -> TaskStates] /\ \A a \in Attempts : task'[a] = task[a]
    BY <1>1, <1>4, <2>2, Put
  <2>4. plugins' \in [Attempts -> {"none", "pending", "ready"}]
    BY <1>1, <1>4, <2>1 DEF TypeOK
  <2>. QED  BY <1>2, <2>3, <2>4, CallerStep
<1>. QED  BY <1>2, <1>3, <1>4 DEF Prepare

LEMMA PluginsSettleStep ==
  ASSUME IInv, NEW k \in Attempts, NEW outcome \in Outcomes, PluginsSettle(k, outcome)
  PROVE  IInv'
<1>1. TypeOK /\ \A a \in Attempts : a \in Tasks /\ a \notin Callers
  BY TaskFacts DEF IInv
<1>2. plugins' \in [Attempts -> {"none", "pending", "ready"}]
  BY <1>1 DEF PluginsSettle, TypeOK
<1>3. \A a \in Attempts : task'[a] = task[a]
  BY <1>1 DEF PluginsSettle
<1>4. ASSUME NEW t \in Tasks
      PROVE  Done \in TaskStates /\ task[t] \in TaskStates
             /\ [task[t] EXCEPT !.stage = "ready"] \in TaskStates
  <2>1. Done \in TaskStates /\ task[t] \in TaskStates
    BY <1>1, Records DEF TypeOK
  <2>. QED  BY <2>1 DEF TaskStates
<1>5. task' \in [Tasks -> TaskStates]
  BY <1>4 DEF PluginsSettle
<1>. QED  BY <1>2, <1>3, <1>5, CallerStep DEF PluginsSettle

LEMMA RequestEndsStep == ASSUME IInv, NEW c \in Callers, RequestEnds(c) PROVE IInv'
BY CallerEnds DEF RequestEnds

LEMMA ClockStep ==
  ASSUME IInv, IntervalPasses \/ DaemonStops \/ DaemonStarts
  PROVE  IInv'
<1>. USE TaskFacts DEF IInv, pinVars, stateVars, daemonVars, historyVars
<1>1. /\ UNCHANGED <<pinVars, generation, connection, connected, healthCheck, previous,
                     task, used, plugins, holds, historyVars>>
      /\ daemon' \in {0, started'} /\ started' >= started
      /\ started' \in 0..MaxEndpoints
  <2>1. /\ daemon \in {0, started} /\ started \in 0..MaxEndpoints
        /\ started <= started /\ started + 1 >= started
    BY Names DEF CompactionOK, TypeOK
  <2>2. CASE IntervalPasses
    <3>1. UNCHANGED <<pinVars, generation, connection, connected, healthCheck, previous,
                      task, used, plugins, holds, daemonVars, historyVars>>
      BY <2>2 DEF IntervalPasses
    <3>. QED  BY <2>1, <3>1
  <2>3. CASE DaemonStops
    BY <2>1, <2>3 DEF DaemonStops
  <2>4. CASE DaemonStarts
    <3>1. started < MaxEndpoints /\ started' = started + 1 /\ daemon' = started + 1
      BY <2>4 DEF DaemonStarts
    <3>2. started' \in 0..MaxEndpoints
      BY <2>1, <3>1
    <3>. QED  BY <2>1, <2>4, <3>1, <3>2 DEF DaemonStarts
  <2>. QED  BY <2>2, <2>3, <2>4
<1>2. fresh' \in BOOLEAN
  BY DEF IntervalPasses, DaemonStops, DaemonStarts, TypeOK
<1>3. TypeOK'
  <2>1. daemon' \in 0..MaxEndpoints
    BY <1>1
  <2>. QED  BY <1>1, <1>2, <2>1 DEF TypeOK, Starting
<1>. QED  BY <1>1, <1>3, QuietStep

LEMMA ObserveStep ==
  ASSUME IInv, NEW starts \in BOOLEAN, ObserveCompaction(starts)
  PROVE  IInv'
<1>. USE DEF IInv
<1>1. /\ connected # 0
      /\ \/ /\ holds' = holds \cup {connected} /\ compacting' = task[connected].endpoint
         \/ holds' = holds \ {connected} /\ compacting' = 0
      /\ UNCHANGED <<pinVars, stateVars, task, used, plugins, daemonVars, commands>>
  BY DEF ObserveCompaction
<1>2. /\ connected \in Attempts /\ task[connected].endpoint \in 1..started
      /\ task[connected].endpoint \in 0..MaxEndpoints
  <2>1. connected \in Attempts /\ task[connected] \in TaskStates
    BY <1>1, Names, TaskFacts
  <2>. QED  BY <1>1, <2>1, FieldTypes DEF LastOK
<1>. USE <1>1 DEF pinVars, stateVars, daemonVars
<1>3. TypeOK'
  <2>1. holds' \subseteq Attempts /\ compacting' \in 0..MaxEndpoints
    <3>1. holds \subseteq Attempts /\ 0 \in 0..MaxEndpoints
      BY TaskFacts DEF TypeOK
    <3>. QED  BY ONLY <1>1, <1>2, <3>1
  <2>2. UNCHANGED <<pinVars, stateVars, task, used, plugins, daemonVars, commands>> /\ TypeOK
    OBVIOUS
  <2>. QED  BY ONLY <2>1, <2>2 DEF TypeOK, Starting, pinVars, stateVars, daemonVars
<1>4. OrderOK' /\ FencedOK' /\ NoCircularWait'
  BY DEF OrderOK, FencedOK, NoCircularWait, Running, Starting
<1>5. PromiseOK' /\ LastOK' /\ ConnectedMatchesPin'
  BY DEF PromiseOK, LastOK, ConnectedMatchesPin, Starting
<1>6. CompactionOK'
  BY <1>2, Names DEF CompactionOK, Last
<1>. QED  BY <1>3, <1>4, <1>5, <1>6

LEMMA StepOK == IInv /\ [Next]_vars => IInv'
<1>. SUFFICES ASSUME IInv, [Next]_vars PROVE IInv'
  OBVIOUS
<1>1. ASSUME NEW c \in Callers, NEW option \in Identities \cup {NoIdentity},
             Connect(c, option)
      PROVE  IInv'
  BY <1>1, ConnectStep
<1>2. ASSUME NEW c \in Callers, Prepare(c) \/ RequestEnds(c) \/ RequestFails(c)
      PROVE  IInv'
  BY <1>2, PrepareStep, RequestEndsStep, RequestFailsStep
<1>3. ASSUME NEW a \in Attempts, AttemptStep(a) PROVE IInv'
  BY <1>3, DiscoveredStep, StartupSucceedsStep, StartupFailsStep, CheckRetriesStep,
     CheckConfirmsStep, CheckReplacesStep, CheckRefusesStep, CheckRestartsStep
     DEF AttemptStep
<1>4. ASSUME NEW k \in Attempts, NEW outcome \in Outcomes, PluginsSettle(k, outcome)
      PROVE  IInv'
  BY <1>4, PluginsSettleStep
<1>5. ASSUME NEW h \in Attempts, Adopted(h) PROVE IInv'
  BY <1>5, AdoptedStep
<1>6. ASSUME NEW starts \in BOOLEAN, ObserveCompaction(starts) PROVE IInv'
  BY <1>6, ObserveStep
<1>7. CASE Invalidate \/ Shutdown
  BY <1>7, InvalidateStep, ShutdownStep
<1>8. CASE IntervalPasses \/ DaemonStops \/ DaemonStarts
  BY <1>8, ClockStep
<1>9. CASE UNCHANGED vars
  <2>1. /\ task' = task /\ plugins' = plugins
        /\ UNCHANGED <<pinVars, stateVars, used, holds, daemonVars, historyVars>>
    BY <1>9 DEF vars
  <2>2. /\ task' \in [Tasks -> TaskStates]
        /\ plugins' \in [Attempts -> {"none", "pending", "ready"}]
    BY <2>1 DEF IInv, TypeOK
  <2>. QED  BY <2>1, <2>2, CallerStep
<1>. QED  BY <1>1, <1>2, <1>3, <1>4, <1>5, <1>6, <1>7, <1>8, <1>9 DEF Next

-----------------------------------------------------------------------------
(* The theorems *)

\* The promises, the connection and what is known of compactions stay in step.
THEOREM Inductive == Spec => []IInv
<1>. QED  BY InitOK, StepOK, PTL DEF Spec

\* Every variable keeps its type, and every startup a configured lifecycle.
THEOREM TypeCorrect == Spec => []TypeOK
<1>1. IInv => TypeOK
  BY DEF IInv
<1>. QED  BY <1>1, Inductive, PTL

\* Two startups never race for the connection (startConnection).
THEOREM StartupsDoNotRace == Spec => []OneStartup
<1>. QED  BY Consequences, Inductive, PTL

\* What an invalidation, a shutdown or another pin overtook never becomes the
\* connection (createConnection).
THEOREM ConnectionsMatchPin == Spec => []ConnectedMatchesPin
<1>1. IInv => ConnectedMatchesPin
  BY DEF IInv
<1>. QED  BY <1>1, Inductive, PTL

\* The health check that callers join is about the connection in use (connectService).
THEOREM ChecksAreCurrent == Spec => []CheckIsOfConnected
<1>. QED  BY Consequences, Inductive, PTL

\* However often health checks are overtaken, no promise waits for itself
\* (connectService).
THEOREM WaitsEnd == Spec => []NoCircularWait
<1>1. IInv => NoCircularWait
  BY DEF IInv
<1>. QED  BY <1>1, Inductive, PTL

\* The next connection to the same daemon knows of the compaction in progress
\* (carryPendingCompactions).
THEOREM CompactionsAreCarried == Spec => []CompactionIsCarried
<1>. QED  BY Consequences, Inductive, PTL

\* Only a failure of its own or a command takes the connection away
\* (invalidateConnection, startConnection).
THEOREM OnlyFaultsTakeAway == Spec => OnlyFaultsDisconnect
<1>. DEFINE Own ==
       \/ commands' # commands
       \/ \E c \in Callers : task[c].result = connected /\ task[c].stage = "ready"
                              /\ task'[c].stage = "done"
       \/ \E h \in Attempts : /\ task[h].of = connected
                              /\ task[h].stage = "checking"
                              /\ task'[h].stage # "checking"
<1>1. ASSUME IInv, [Next]_vars, connected # 0, connected' # connected PROVE Own
  <2>. USE <1>1 DEF IInv
  <2>1. ASSUME NEW c \in Callers, RequestFails(c) PROVE Own
    <3>1. task[c].stage = "ready" /\ Ends(c) /\ connected = task[c].result
      BY <2>1 DEF RequestFails, InvalidateConnection, Current, stateVars
    <3>2. task'[c].stage = "done"
      <4>1. c \in Tasks /\ Done \in TaskStates /\ Done.stage = "done"
        BY Records, TaskFacts DEF Done, Idle
      <4>. QED  BY <3>1, <4>1, Put DEF Ends
    <3>. QED  BY <3>1, <3>2
  <2>2. ASSUME NEW h \in Attempts, CheckReplaces(h) \/ CheckRefuses(h) \/ CheckRestarts(h)
        PROVE  Own
    <3>1. task[h].stage = "checking" /\ ~Overtaken(h)
      BY <2>2 DEF CheckReplaces, CheckRefuses, CheckRestarts
    <3>2. task[h].of = connected /\ h <= used /\ h # 0 /\ pin \in Identities
      BY <3>1, CheckIsAlone, Names, TaskFacts
    <3>3. task'[h].stage # "checking"
      <4>1. CASE CheckReplaces(h)
        BY <4>1, Names, TaskFacts DEF CheckReplaces, TypeOK
      <4>2. CASE CheckRefuses(h)
        BY <4>2, RejectsEffect DEF CheckRefuses
      <4>3. CASE CheckRestarts(h)
        <5>1. /\ task' = [task EXCEPT ![h] = Adopts(used + 1),
                                      ![used + 1] = Startup(generation + 1, pin)]
          BY <4>3 DEF CheckRestarts, Begin
        <5>2. used + 1 # h
          BY <3>2, Names, TaskFacts
        <5>3. task'[h] = Adopts(used + 1)
          BY <5>1, <5>2, TaskFacts DEF TypeOK
        <5>. QED  BY <5>3 DEF Adopts, Idle
      <4>. QED  BY <2>2, <4>1, <4>2, <4>3
    <3>. QED  BY <3>1, <3>2, <3>3
  <2>3. ASSUME NEW a \in Attempts, AttemptStep(a),
               ~(CheckReplaces(a) \/ CheckRefuses(a) \/ CheckRestarts(a))
        PROVE  FALSE
    <3>1. a # 0
      BY TaskFacts
    <3>2. CASE Discovered(a) \/ CheckConfirms(a)
      BY <3>2 DEF Discovered, CheckConfirms, stateVars
    <3>3. CASE StartupDiscovers(a) \/ StartupEnsures(a)
      <4>1. Starting(a) /\ ~Fenced(a)
        BY <3>1, <3>3 DEF StartupDiscovers, StartupEnsures, Starting, Fenced, FencedOK,
           PromiseOK, Running
      <4>2. UNCHANGED stateVars
        BY <3>3, <4>1 DEF StartupDiscovers, StartupEnsures, CreateConnection
      <4>. QED  BY <4>2 DEF stateVars
    <3>4. CASE StartupFails(a)
      BY <3>1, <3>4 DEF StartupFails, PromiseOK, stateVars
    <3>5. CASE CheckRetries(a)
      BY <3>5 DEF CheckRetries, ConnectService, stateVars
    <3>. QED  BY <2>3, <3>2, <3>3, <3>4, <3>5 DEF AttemptStep
  <2>4. ASSUME NEW c \in Callers, NEW option \in Identities \cup {NoIdentity},
               Connect(c, option)
        PROVE  FALSE
    BY <2>4 DEF Connect, ConnectService, stateVars
  <2>5. CASE Invalidate \/ Shutdown
    <3>1. commands' = commands + 1 /\ commands \in Nat
      BY <2>5, TaskFacts DEF Invalidate, Shutdown, TypeOK
    <3>. QED  BY <3>1
  <2>6. ASSUME \/ \E c \in Callers : Prepare(c) \/ RequestEnds(c)
               \/ \E k \in Attempts, outcome \in Outcomes : PluginsSettle(k, outcome)
               \/ \E h \in Attempts : Adopted(h)
               \/ \E starts \in BOOLEAN : ObserveCompaction(starts)
               \/ IntervalPasses \/ DaemonStops \/ DaemonStarts
               \/ UNCHANGED vars
        PROVE  FALSE
    BY <2>6 DEF Prepare, RequestEnds, PluginsSettle, Adopted, ObserveCompaction,
       IntervalPasses, DaemonStops, DaemonStarts, stateVars, vars
  <2>. QED  BY <2>1, <2>2, <2>3, <2>4, <2>5, <2>6 DEF Next
<1>. QED  BY <1>1, Inductive, PTL DEF Spec, OnlyFaultsDisconnect
=============================================================================
