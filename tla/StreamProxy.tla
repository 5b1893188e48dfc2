----------------------------- MODULE StreamProxy -----------------------------
(***************************************************************************)
(* Playback of a debrid link (api/endpoints/playback.py) through the proxy *)
(* (services/streaming/): a row of active_connections for each stream is   *)
(* what the limit of an IP counts, an entry of the process's bandwidth     *)
(* monitor (services/bandwidth.py) is what finds the streams that have     *)
(* fallen silent, and the two are changed by statements of their own.      *)
(*                                                                         *)
(* The handler of mediaflow_proxy and the server's sends may raise; the    *)
(* background task of a response then does not run.  A stream sends a      *)
(* bounded number of chunks.                                               *)
(***************************************************************************)
EXTENDS Integers, FiniteSets

CONSTANTS
    Stream,         \* requests for playback, each of which asks once
    Process, Home,  \* the processes of the server; which one a request is in
    Limit,          \* values of PROXY_DEBRID_STREAM_MAX_CONNECTIONS; one IP
    MaxChunks,      \* bound: chunks of each stream
    MaxMishaps     \* bound: statements and handlers that fail, restarts

ASSUME ProxyAssumption ==
    /\ IsFiniteSet(Stream) /\ Home \in [Stream -> Process] /\ Limit \subseteq Int
    /\ MaxChunks \in Nat /\ MaxMishaps \in Nat

VARIABLES
    limit,
    stream,         \* how far each request is
    connections,    \* active_connections
    metrics,        \* _connections, of all the processes
    silent,         \* those whose last_update is over the threshold ago
    popped,         \* what a process's cleanup has popped and not yet deleted
    chunks,         \* chunks of each stream, 1 byte each
    session, alltime, synced,   \* _global_stats and _last_synced_bytes
    syncing,        \* the total that is being written, -1 when none is
    stored,         \* bandwidth_stats.total_bytes
    misread,        \* history: initialize() could not read the total
    leaked,         \* history: rows that a failed statement has left behind
    mishaps

byteVars == <<chunks, session, alltime, synced, syncing, stored, misread>>
proxyVars == <<limit, stream, connections, metrics, silent, popped, byteVars,
               leaked, mishaps>>

ProxyInit ==
    /\ limit \in Limit
    /\ stream = [s \in Stream |-> "new"] /\ connections = {} /\ metrics = {}
    /\ silent = {} /\ popped = [p \in Process |-> {}]
    /\ chunks = [s \in Stream |-> 0] /\ session = [p \in Process |-> 0]
    /\ alltime = [p \in Process |-> 0] /\ synced = [p \in Process |-> 0]
    /\ syncing = [p \in Process |-> -1] /\ stored = 0
    /\ misread = FALSE /\ leaked = {} /\ mishaps = 0

Mishap == mishaps < MaxMishaps /\ mishaps' = mishaps + 1
To(s, where) == stream' = [stream EXCEPT ![s] = where]

----------------------------------------------------------------------------
(* playback() *)

\* The link of an earlier request that is not too old yet, or a new one, which
\* is cached for the next; without one the request ends with a status video.
\* Which of them it is makes no difference to the proxy.
GetLink(s) ==
    /\ stream[s] = "new"
    /\ \E next \in {"linked", "refused"} : To(s, next)
    /\ UNCHANGED <<limit, connections, metrics, silent, popped, byteVars, leaked, mishaps>>

----------------------------------------------------------------------------
(* custom_handle_stream_request() *)

\* check_ip_connections(): an error counts as the limit.
CheckIpConnections(s) ==
    /\ stream[s] = "linked"
    /\ IF limit <= -1 \/ Cardinality(connections) < limit
       THEN \/ To(s, "adding") /\ UNCHANGED mishaps
            \/ limit > -1 /\ Mishap /\ To(s, "refused")
       ELSE To(s, "refused") /\ UNCHANGED mishaps
    /\ UNCHANGED <<limit, connections, metrics, silent, popped, byteVars, leaked>>

\* add_active_connection(): the row, and then the entry.
AddActiveConnection(s) ==
    /\ stream[s] = "adding"
    /\ connections' = connections \cup {s}
    /\ \/ To(s, "starting") /\ UNCHANGED <<leaked, mishaps>>
       \/ Mishap /\ To(s, "gone") /\ leaked' = leaked \cup {s}
    /\ UNCHANGED <<limit, metrics, silent, popped, byteVars>>
AddFails(s) ==
    /\ stream[s] = "adding" /\ Mishap /\ To(s, "gone")
    /\ UNCHANGED <<limit, connections, metrics, silent, popped, byteVars, leaked>>

StartConnection(s) ==
    /\ stream[s] = "starting"
    /\ To(s, "opening") /\ metrics' = metrics \cup {s}
    /\ UNCHANGED <<limit, connections, silent, popped, byteVars, leaked, mishaps>>

\* Mutant of HandleStreamRequest: an error ends the connection's entry only.
HandleStreamRequestForgets(s) ==
    /\ stream[s] = "opening"
    /\ \/ To(s, "open") /\ UNCHANGED <<metrics, silent, mishaps>>
       \/ Mishap /\ To(s, "gone") /\ metrics' = metrics \ {s} /\ silent' = silent \ {s}
    /\ UNCHANGED <<limit, connections, popped, byteVars, leaked>>

\* monitored_handle_stream_request(): what it raises leaves row and entry.
HandleStreamRequest(s) ==
    /\ stream[s] = "opening"
    /\ \/ To(s, "open") /\ UNCHANGED mishaps
       \/ Mishap /\ To(s, "gone")
    /\ UNCHANGED <<limit, connections, metrics, silent, popped, byteVars, leaked>>

\* stream_response() and update_connection(): bytes of a stream that the
\* cleanup has forgotten are sent and not counted.
Chunk(s) ==
    /\ stream[s] = "open" /\ chunks[s] < MaxChunks
    /\ chunks' = [chunks EXCEPT ![s] = @ + 1]
    /\ IF s \in metrics
       THEN /\ session' = [session EXCEPT ![Home[s]] = @ + 1]
            /\ alltime' = [alltime EXCEPT ![Home[s]] = @ + 1]
       ELSE UNCHANGED <<session, alltime>>
    /\ silent' = silent \ {s}
    /\ UNCHANGED <<limit, stream, connections, metrics, popped, synced, syncing, stored,
                   misread, leaked, mishaps>>

\* The end of the stream, or of a client that has gone before it.
StreamEnds(s) ==
    /\ stream[s] = "open"
    /\ \E next \in {"closing", "gone"} : To(s, next)
    /\ UNCHANGED <<limit, connections, metrics, silent, popped, byteVars, leaked, mishaps>>

\* combined_background_tasks(): streamer_close_task() may raise.
CloseStreamer(s) ==
    /\ stream[s] = "closing"
    /\ \/ To(s, "ending") /\ UNCHANGED mishaps
       \/ Mishap /\ To(s, "gone")
    /\ UNCHANGED <<limit, connections, metrics, silent, popped, byteVars, leaked>>

\* on_stream_end(): the entry, and then the row; an error is only logged.
EndConnection(s) ==
    /\ stream[s] = "ending"
    /\ To(s, "deleting") /\ metrics' = metrics \ {s} /\ silent' = silent \ {s}
    /\ UNCHANGED <<limit, connections, popped, byteVars, leaked, mishaps>>
DeleteConnection(s) ==
    /\ stream[s] = "deleting"
    /\ To(s, "gone")
    /\ \/ connections' = connections \ {s} /\ UNCHANGED <<leaked, mishaps>>
       \/ Mishap /\ leaked' = leaked \cup {s} /\ UNCHANGED connections
    /\ UNCHANGED <<limit, metrics, silent, popped, byteVars>>

----------------------------------------------------------------------------
(* BandwidthMonitor *)

\* PROXY_DEBRID_STREAM_INACTIVITY_THRESHOLD passes without a chunk.
FallSilent(s) ==
    /\ s \in metrics \ silent
    /\ silent' = silent \cup {s}
    /\ UNCHANGED <<limit, stream, connections, metrics, popped, byteVars, leaked, mishaps>>

\* Mutant of Inactive: streams that have ended are not looked at.
InactiveOpen(p) == {s \in silent : Home[s] = p /\ stream[s] = "open"}

Inactive(p) == {s \in silent : Home[s] = p}

\* _cleanup_inactive_connections(): the entries, and then their rows.
PopInactive(p) ==
    /\ popped[p] = {} /\ Inactive(p) # {}
    /\ popped' = [popped EXCEPT ![p] = Inactive(p)]
    /\ metrics' = metrics \ Inactive(p) /\ silent' = silent \ Inactive(p)
    /\ UNCHANGED <<limit, stream, connections, byteVars, leaked, mishaps>>

\* DELETE FROM active_connections WHERE id IN (...)
DeleteInactive(p) ==
    /\ popped[p] # {} /\ popped' = [popped EXCEPT ![p] = {}]
    /\ \/ connections' = connections \ popped[p] /\ UNCHANGED <<leaked, mishaps>>
       \/ Mishap /\ leaked' = leaked \cup popped[p] /\ UNCHANGED connections
    /\ UNCHANGED <<limit, stream, metrics, silent, byteVars>>

\* _sync_to_database()
BeginSync(p) ==
    /\ syncing[p] = -1 /\ alltime[p] # synced[p]
    /\ syncing' = [syncing EXCEPT ![p] = alltime[p]]
    /\ UNCHANGED <<limit, stream, connections, metrics, silent, popped, chunks, session,
                   alltime, synced, stored, misread, leaked, mishaps>>
PersistTotalBytes(p) ==
    /\ syncing[p] # -1 /\ syncing' = [syncing EXCEPT ![p] = -1]
    /\ \/ /\ stored' = syncing[p] /\ synced' = [synced EXCEPT ![p] = syncing[p]]
          /\ UNCHANGED mishaps
       \/ Mishap /\ stored' \in {stored, syncing[p]} /\ UNCHANGED synced
    /\ UNCHANGED <<limit, stream, connections, metrics, silent, popped, chunks, session,
                   alltime, misread, leaked>>

\* A process ends and starts again: its streams end with it, setup_database()
\* deletes the rows of every process, and initialize() reads the total, or
\* goes on without it.
Restart(p) ==
    /\ Mishap
    /\ stream' = [s \in Stream |-> IF Home[s] = p /\ stream[s] # "new" THEN "gone" ELSE stream[s]]
    /\ connections' = {} /\ leaked' = {}
    /\ metrics' = {s \in metrics : Home[s] # p} /\ silent' = {s \in silent : Home[s] # p}
    /\ popped' = [popped EXCEPT ![p] = {}] /\ syncing' = [syncing EXCEPT ![p] = -1]
    /\ session' = [session EXCEPT ![p] = 0]
    /\ \E total \in {stored, 0} :
           /\ alltime' = [alltime EXCEPT ![p] = total]
           /\ synced' = [synced EXCEPT ![p] = total]
           /\ misread' = (misread \/ total # stored)
    /\ UNCHANGED <<limit, chunks, stored>>

\* What goes on without the client's or the environment's choosing.
StreamStep(s) ==
    \/ GetLink(s) \/ CheckIpConnections(s)
    \/ AddActiveConnection(s) \/ StartConnection(s) \/ HandleStreamRequest(s)
    \/ CloseStreamer(s) \/ EndConnection(s) \/ DeleteConnection(s) \/ FallSilent(s)
MonitorStep(p) == PopInactive(p) \/ DeleteInactive(p)

ProxyNext ==
    \/ \E s \in Stream : StreamStep(s) \/ AddFails(s) \/ Chunk(s) \/ StreamEnds(s)
    \/ \E p \in Process :
           MonitorStep(p) \/ BeginSync(p) \/ PersistTotalBytes(p) \/ Restart(p)

\* Statements are answered, the threshold passes when nothing is sent, and the
\* cleanup runs every 5 to 60 seconds.
ProxyFairness ==
    /\ \A s \in Stream : WF_proxyVars(StreamStep(s))
    /\ \A p \in Process : WF_proxyVars(MonitorStep(p))

ProxySpec == ProxyInit /\ [][ProxyNext]_proxyVars /\ ProxyFairness

----------------------------------------------------------------------------
Popped == UNION {popped[p] : p \in Process}

\* A row is never without somebody who will delete it: an entry that the
\* cleanup finds, a request or a cleanup that is between the two statements,
\* or, once a statement has failed, the next start of a process.
RowsHaveOwners ==
    connections \subseteq
        metrics \cup Popped \cup leaked
        \cup {s \in Stream : stream[s] \in {"starting", "deleting"}}

\* Of a process that alone has transferred anything, and that could read the
\* total when it started, what it knows to be stored is: no restart and no
\* failed statement makes the total smaller.
TotalIsWhole ==
    \A p \in Process :
        /\ synced[p] <= alltime[p] /\ session[p] <= alltime[p]
        /\ ~misread /\ (\A s \in Stream : Home[s] # p => chunks[s] = 0)
              => synced[p] <= stored

ProxyInv == RowsHaveOwners /\ TotalIsWhole

\* The slot of a stream that has ended or fallen silent is given back, unless
\* the statement for it fails: the limit does not lock an IP out.
SlotsFreed ==
    \A s \in Stream : s \in connections ~> s \notin connections \ leaked
=============================================================================
