----------------------------- MODULE MCClientEdge -----------------------------
(***************************************************************************)
(* Small instances of what is kept for a client, one in each scene: the    *)
(* store of the desktop application, the state of one of its windows, the  *)
(* receipts of permission requests, and the stream of server-sent events.  *)
(* The other components rest in an initial state.                          *)
(***************************************************************************)
EXTENDS ClientEdge, TLC

CONSTANTS w1, w2, a, b, i1, i2, s1, p1, k1

VARIABLE scene

\* All requests are of one session, and reach it through one workspace.
OneSession   == [r \in Requests |-> s1]
OneWorkspace == [r \in Requests |-> i1]

windowVars ==
  <<mem, dirty, block, enabled, primary, timer, saves, saveError, wanted, change, flush,
    disk1, record, wiped, suppressed, owned, updates, transitions, errors, flushes>>
receiptVars ==
  <<native, live, subscribed, events, observers, client, deleting, tasks, deleted, file,
    list, view, told, confirmed, writeFaults, losses, lists>>
streamVars == <<streams, opened, sseClients, connections, stale, statuses, running, sent>>
allVars    == <<scene, vars, windowVars, receiptVars, streamVars>>

Symmetric == Permutations(Windows) \cup Permutations(Partitions)

SceneInit ==
  /\ scene \in {"store", "window", "receipts", "stream"}
  /\ Init /\ Window!Init /\ Receipts!Init /\ Stream!Init
  /\ scene # "window" => block = "no" /\ enabled
  /\ scene # "store" => root = Opened(Windows)

\* Store: three requests with one trouble, or two with a fault, a new renderer and a crash.
\* Receipts: two lists of sessions that last, or one list and a deletion, or else a write that
\* fails, a subscription that ends or a restart.
SceneNext ==
  /\ UNCHANGED scene
  /\ \/ /\ scene = "store" /\ Next /\ (requests' < 3 \/ faults' + reloads' + crashes' <= 1)
        /\ UNCHANGED <<windowVars, receiptVars, streamVars>>
     \/ scene = "window" /\ Window!Next /\ UNCHANGED <<vars, receiptVars, streamVars>>
     \/ /\ scene = "receipts" /\ Receipts!Next /\ (lists' = 0 \/ writeFaults' + losses' = 0)
        /\ lists' = 2 => live' = Sessions
        /\ UNCHANGED <<vars, windowVars, streamVars>>
     \/ scene = "stream" /\ Stream!Next /\ UNCHANGED <<vars, windowVars, receiptVars>>

SceneSpec == SceneInit /\ [][SceneNext]_allVars
=============================================================================
