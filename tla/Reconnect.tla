------------------------------ MODULE Reconnect ------------------------------
(***************************************************************************)
(* How the viewer finds its host and finds it again: the platform's mDNS   *)
(* browser (renderd-discovery), the table of hosts it fills and the        *)
(* address picked from it (renderd-viewer discovery/mod.rs), and the task  *)
(* of app.rs that connects, negotiates, streams, and starts over when any  *)
(* of these fails.  What happens within a session is in the other modules. *)
(*                                                                         *)
(* Hosts come, go and move; a browser always announces the first and not   *)
(* always the second (the one of Windows never does).                      *)
(***************************************************************************)
EXTENDS Naturals, Sequences, FiniteSetsExt

CONSTANTS
  Hosts,
  Score,        \* address_score, by address
  MaxMoves,     \* times a host comes or goes
  MaxFailures,  \* connections and negotiations that fail with the host there
  MaxBackoff    \* doublings of the backoff

Address == DOMAIN Score
None == 0

\* What the constants must be; the module that chooses them assumes it.
Assumption ==
  /\ IsFiniteSet(Hosts)
  /\ None \notin Address /\ Score \in [Address -> 0 .. 4]
  /\ {MaxMoves, MaxFailures, MaxBackoff} \subseteq Nat

VARIABLES
  where,     \* environment: each host's address, None while it is down
  moves, failures,
  events,    \* discovery events on their way
  table,     \* DiscoveredHosts
  tray,      \* the address the tray shows
  noted,     \* discovery_watch: hosts counted last
  at,        \* the connecting task
  target,    \* the address it connects to
  linked,    \* the connection is alive
  backoff,   \* its doublings
  shown      \* ConnectionState

environment == <<where, moves, failures>>
discovery == <<events, table>>
watch == <<tray, noted>>
task == <<at, target, linked, backoff, shown>>
vars == <<environment, discovery, watch, task>>

Record == [host : Hosts, addr : Address \cup {None}]

TypeOK ==
  /\ {where, table} \subseteq [Hosts -> Address \cup {None}]
  /\ moves \in 0 .. MaxMoves /\ failures \in 0 .. MaxFailures
  /\ events \in Seq(Record)
  /\ {tray, target} \subseteq Address \cup {None}
  /\ noted \in 0 .. Cardinality(Hosts)
  /\ at \in {"sleeping", "connecting", "negotiating", "streaming", "waiting"}
  /\ linked \in BOOLEAN
  /\ backoff \in 0 .. MaxBackoff
  /\ shown \in {"Disconnected", "Handshaking", "Connected", "Reconnecting"}

Init ==
  /\ where = [h \in Hosts |-> None] /\ moves = 0 /\ failures = 0
  /\ events = <<>> /\ table = [h \in Hosts |-> None]
  /\ tray = None /\ noted = 0
  /\ at = "sleeping" /\ target = None /\ linked = FALSE /\ backoff = 0
  /\ shown = "Disconnected"

-----------------------------------------------------------------------------
(* Hosts, and what the browser says of them.                               *)

\* browse_callback: a host with its best address.
HostComes(h, a) ==
  /\ moves < MaxMoves /\ where[h] = None
  /\ \A g \in Hosts : where[g] # a
  /\ moves' = moves + 1
  /\ where' = [where EXCEPT ![h] = a]
  /\ events' = Append(events, [host |-> h, addr |-> a])
  /\ UNCHANGED <<failures, table, watch, task>>

\* A host goes, with or without a goodbye, and its connection with it.
HostGoes(h) ==
  /\ moves < MaxMoves /\ where[h] # None
  /\ moves' = moves + 1
  /\ where' = [where EXCEPT ![h] = None]
  /\ events' \in {events, Append(events, [host |-> h, addr |-> None])}
  /\ linked' = (linked /\ target # where[h])
  /\ UNCHANGED <<failures, table, watch, at, target, backoff, shown>>

-----------------------------------------------------------------------------
(* DiscoveryManager.                                                       *)

MutBetter(old, new) == IF old # None /\ Score[old] >= Score[new] THEN old ELSE new

\* select_best_address: max_by_key gives the last of those that score alike.
Better(old, new) == IF old # None /\ Score[old] > Score[new] THEN old ELSE new

\* apply_event_to
ApplyEvent ==
  /\ events # <<>>
  /\ events' = Tail(events)
  /\ LET e == Head(events) IN
       table' = [table EXCEPT ![e.host] = IF e.addr = None THEN None ELSE Better(@, e.addr)]
  /\ UNCHANGED <<environment, watch, task>>

\* primary_addr: one of the best addresses listed, if any will do.
Usable == {table[h] : h \in {g \in Hosts : table[g] # None /\ Score[table[g]] > 1}}
Primary == {a \in Usable : \A b \in Usable : Score[b] <= Score[a]}

\* discovery_watch: the tray is told when the number of hosts has changed.
Watch ==
  LET count == Cardinality({h \in Hosts : table[h] # None}) IN
    /\ count # noted
    /\ noted' = count
    /\ tray' \in IF Primary = {} THEN {tray} ELSE Primary
    /\ UNCHANGED <<environment, discovery, task>>

-----------------------------------------------------------------------------
(* The connecting task.                                                    *)

Doubled == IF backoff < MaxBackoff THEN backoff + 1 ELSE MaxBackoff

\* 250 ms are over: on to the best host there is, if there is one.
NoHost ==
  /\ at = "sleeping" /\ Primary = {} /\ backoff # 0
  /\ backoff' = 0
  /\ UNCHANGED <<environment, discovery, watch, at, target, linked, shown>>

PickHost ==
  /\ at = "sleeping"
  /\ target' \in Primary
  /\ at' = "connecting"
  /\ shown' = "Handshaking"
  /\ UNCHANGED <<environment, discovery, watch, linked, backoff>>

There == \E h \in Hosts : where[h] = target

\* What can go wrong with the host there, does a few times.
MayFail == \/ ~There /\ failures' = failures
           \/ There /\ failures < MaxFailures /\ failures' = failures + 1

Connected ==
  /\ at = "connecting" /\ There
  /\ at' = "negotiating" /\ linked' = TRUE
  /\ UNCHANGED <<environment, discovery, watch, target, backoff, shown>>

\* TLS, the socket or the connection fails: tried again with no backoff.
ConnectFails ==
  /\ at = "connecting"
  /\ MayFail
  /\ at' = "sleeping"
  /\ UNCHANGED <<where, moves, discovery, watch, target, linked, backoff, shown>>

\* negotiate ends well: the backoff starts over, the decoder is reset.
Negotiated ==
  /\ at = "negotiating" /\ linked
  /\ at' = "streaming"
  /\ backoff' = 0
  /\ shown' = "Connected"
  /\ UNCHANGED <<environment, discovery, watch, target, linked>>

\* ... or in a rejection, a bad answer, or with the connection.
NegotiationFails ==
  /\ at = "negotiating"
  /\ \/ ~linked /\ failures' = failures
     \/ linked /\ failures < MaxFailures /\ failures' = failures + 1
  /\ at' = "waiting" /\ linked' = FALSE
  /\ backoff' = Doubled
  /\ UNCHANGED <<where, moves, discovery, watch, target, shown>>

\* read_datagram fails, as it does in the end on a connection that is dead.
StreamEnds ==
  /\ at = "streaming"
  /\ \/ ~linked /\ failures' = failures
     \/ linked /\ failures < MaxFailures /\ failures' = failures + 1
  /\ at' = "waiting" /\ linked' = FALSE
  /\ backoff' = Doubled
  /\ shown' = "Reconnecting"
  /\ UNCHANGED <<where, moves, discovery, watch, target>>

BackedOff ==
  /\ at = "waiting"
  /\ at' = "sleeping"
  /\ UNCHANGED <<environment, discovery, watch, target, linked, backoff, shown>>

-----------------------------------------------------------------------------
Connecting ==
  \/ NoHost \/ PickHost \/ Connected \/ ConnectFails
  \/ Negotiated \/ NegotiationFails \/ StreamEnds \/ BackedOff

Next ==
  \/ \E h \in Hosts : HostGoes(h) \/ \E a \in Address : HostComes(h, a)
  \/ ApplyEvent \/ Watch \/ Connecting

Spec == Init /\ [][Next]_vars

-----------------------------------------------------------------------------
(* Properties.                                                             *)

Best(a) == \A b \in Address : Score[b] <= Score[a]

\* Nothing but true addresses is listed, once the events are handled of a host
\* that came to an address as good as any; and the best listed can be used.
Found ==
  /\ moves = MaxMoves /\ events = <<>>
  /\ \A h \in Hosts : table[h] = where[h] \/ (where[h] # None /\ Best(where[h]))
  /\ Primary # {}

\* A host that can be known is reached in the end, however it went away, came
\* back at another address or cut its sessions short.  A host that has moved to
\* an address of a lower score, and one that went without a goodbye, are still
\* listed where they were, and keep better ones from being tried.
ReachesHost == Found ~> at = "streaming"
=============================================================================
