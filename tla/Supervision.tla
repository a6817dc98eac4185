----------------------------- MODULE Supervision -----------------------------
(***************************************************************************)
(* The gateway's process: run_app and the services it supervises, and in   *)
(* detail the control plane client, whose connection delivers the API keys *)
(* that requests are authenticated with.                                   *)
(*                                                                         *)
(* run_app connects to the control plane before anything else runs, then   *)
(* polls every service itself (FuturesUnordered, not spawned tasks): a     *)
(* panic in one unwinds the process.  The first service that ends triggers *)
(* the shared token; run_app returns when all have ended.                  *)
(***************************************************************************)
EXTENDS Integers, Sequences

CONSTANTS
    Tasks,       \* the registered services
    SelfStop,    \* those that trigger the token themselves when they fail
    MaxVersion,  \* bound: changes of each part of the configuration
    WireCap,     \* bound: messages sent and not yet read
    MaxHistory   \* MAX_HISTORY_SIZE

ASSUME SupervisionConstants ==
    /\ "control-plane-client" \in Tasks /\ SelfStop \subseteq Tasks
    /\ MaxVersion \in Nat /\ WireCap \in Nat \ {0} /\ MaxHistory \in Nat \ {0}

VARIABLES
    process,     \* "starting", "up", "panicked" or "exited"
    task,        \* each service: "run" or "stopped"
    reaped,      \* services whose end run_app has seen
    token,       \* the shutdown token has been triggered
    shuttingDown,
    conn,        \* "none", "open", "closed", "retry" or "pause"
    wire,        \* messages from the control plane, in order
    held,        \* external: the configuration the control plane holds
    config,      \* ControlPlaneState.config
    hist,        \* the length of ControlPlaneState.history
    missed       \* history: parts whose last change was lost on the way

services == <<task, reaped, token, shuttingDown>>
client == <<conn, wire, held, config, hist, missed>>
vars == <<process, services, client>>

Fields == {"keys", "auth"}
Versions == [Fields -> 0..MaxVersion]

\* MessageTypeRX: an update of one part, of the whole configuration, or else an
\* ack, an error, or what serde does not understand
Update(f) == [kind |-> "update", of |-> {f}, data |-> held']
WholeConfig == [kind |-> "update", of |-> Fields, data |-> held]
Message == [kind : {"update"}, of : SUBSET Fields, data : Versions]
             \cup [kind : {"ack", "error", "garbage"}]
Touched(m) == IF m.kind = "update" THEN m.of ELSE {}
TouchedBy(q) == UNION {Touched(q[i]) : i \in DOMAIN q}

TypeOK ==
    /\ process \in {"starting", "up", "panicked", "exited"}
    /\ task \in [Tasks -> {"run", "stopped"}] /\ reaped \subseteq Tasks
    /\ token \in BOOLEAN /\ shuttingDown \in BOOLEAN
    /\ conn \in {"none", "open", "closed", "retry", "pause"}
    /\ wire \in Seq(Message) /\ Len(wire) <= WireCap
    /\ held \in Versions /\ config \in Versions
    /\ hist \in 0..MaxHistory
    /\ missed \subseteq Fields

Init ==
    /\ process = "starting"
    /\ task = [t \in Tasks |-> "run"] /\ reaped = {}
    /\ token = FALSE /\ shuttingDown = FALSE
    /\ conn = "none" /\ wire = <<>>
    /\ held = [f \in Fields |-> 0] /\ config = held /\ hist = 0 /\ missed = {}

-----------------------------------------------------------------------------
\* The control plane and the network, from how the client uses them.

Connected == process = "up" /\ conn \in {"open", "pause"}

\* A message is sent over a live connection, or its news are lost.
Sends(m) ==
    IF Connected THEN /\ Len(wire) < WireCap
                      /\ wire' = Append(wire, m)
                      /\ missed' = missed \ Touched(m)
                 ELSE /\ missed' = missed \cup Touched(m)
                      /\ UNCHANGED wire

Change(f) ==
    /\ process \in {"starting", "up"} /\ held[f] < MaxVersion
    /\ held' = [held EXCEPT ![f] = @ + 1]
    /\ Sends(Update(f))
    /\ UNCHANGED <<process, services, conn, config, hist>>

SendConfig ==
    /\ Connected /\ Sends(WholeConfig)
    /\ UNCHANGED <<process, services, conn, held, config, hist>>

SendOther ==
    /\ Connected
    /\ \E k \in {"ack", "error", "garbage"} : Sends([kind |-> k])
    /\ UNCHANGED <<process, services, conn, held, config, hist>>

\* The connection dies; what was received before can still be read.
Dies ==
    /\ Connected
    /\ conn' = "closed"
    /\ \E n \in 0..Len(wire) :
         /\ wire' = SubSeq(wire, 1, n)
         /\ missed' = missed \cup TouchedBy(SubSeq(wire, n + 1, Len(wire)))
    /\ UNCHANGED <<process, services, held, config, hist>>

-----------------------------------------------------------------------------
\* ControlPlaneClient.

\* connect_with_retry: the backoff has no limit, so that it ends only connected.
Connect ==
    /\ process = "starting"
    /\ conn' = "open"
    /\ process' = "up"
    /\ UNCHANGED <<services, wire, held, config, hist, missed>>

ClientRuns == process = "up" /\ task["control-plane-client"] = "run"

\* Mutation of Apply: of a whole configuration only the keys are taken.
ApplyKeys(m) ==
    /\ hist' = IF hist < MaxHistory THEN hist + 1 ELSE hist
    /\ config' = [f \in Fields |->
                    IF f \in Touched(m) /\ (f = "auth" => Touched(m) = {"auth"})
                    THEN m.data[f] ELSE config[f]]

\* ControlPlaneState::update
Apply(m) ==
    /\ hist' = IF hist < MaxHistory THEN hist + 1 ELSE hist
    /\ config' = [f \in Fields |-> IF f \in Touched(m) THEN m.data[f] ELSE config[f]]

\* Mutation of Receive: messages are handled by tasks of their own.
ReceiveAnyOrder ==
    /\ ClientRuns /\ conn \in {"open", "closed"} /\ wire # <<>>
    /\ \E i \in DOMAIN wire :
         /\ wire' = SubSeq(wire, 1, i - 1) \o SubSeq(wire, i + 1, Len(wire))
         /\ IF wire[i].kind = "garbage" THEN UNCHANGED <<hist, config>> ELSE Apply(wire[i])
    /\ UNCHANGED <<process, services, conn, held, missed>>

\* msg_rx.next() yields a message: handle_message.  A message that does not parse
\* is logged; an Ack reaches todo!() with the state already written.
Receive ==
    /\ ClientRuns /\ conn \in {"open", "closed"} /\ wire # <<>>
    /\ wire' = Tail(wire)
    /\ LET m == Head(wire) IN
         /\ IF m.kind = "garbage" THEN UNCHANGED <<hist, config>> ELSE Apply(m)
         /\ process' = IF m.kind = "ack" THEN "panicked" ELSE process
    /\ UNCHANGED <<services, conn, held, missed>>

\* msg_rx.next() yields AlreadyClosed, or ends.
NoticeClosed ==
    /\ ClientRuns /\ conn = "closed" /\ wire = <<>>
    /\ conn' = "retry"
    /\ UNCHANGED <<process, services, wire, held, config, hist, missed>>

\* reconnect_websocket: after AlreadyClosed the client reads on at once, after
\* the end of the stream it sleeps a second first.
Reconnect ==
    /\ ClientRuns /\ conn = "retry"
    /\ conn' \in {"open", "pause"}
    /\ UNCHANGED <<process, services, wire, held, config, hist, missed>>

\* Mutation of PauseOver: the loop reconnects again instead of reading.
PauseOverRetries ==
    /\ ClientRuns /\ conn = "pause"
    /\ conn' = "retry" /\ wire' = <<>> /\ missed' = missed \cup TouchedBy(wire)
    /\ UNCHANGED <<process, services, held, config, hist>>

PauseOver ==
    /\ ClientRuns /\ conn = "pause"
    /\ conn' = "open"
    /\ UNCHANGED <<process, services, wire, held, config, hist, missed>>

-----------------------------------------------------------------------------
\* run_app and the services.

\* A service ends of itself: a signal, an error of the server, of a monitor or of
\* the database.  Most trigger the token first.  The client never does.
Ends(t) ==
    /\ process = "up" /\ task[t] = "run" /\ t # "control-plane-client"
    /\ task' = [task EXCEPT ![t] = "stopped"]
    /\ token' = (token \/ t \in SelfStop)
    /\ UNCHANGED <<process, reaped, shuttingDown, client>>

\* A service sees the token in its select.
Stops(t) ==
    /\ process = "up" /\ task[t] = "run" /\ token
    /\ task' = [task EXCEPT ![t] = "stopped"]
    /\ UNCHANGED <<process, reaped, token, shuttingDown, client>>

\* Mutation of Reap: the shutdown is not passed on.
ReapQuiet(t) ==
    /\ process = "up" /\ task[t] = "stopped" /\ t \notin reaped
    /\ reaped' = reaped \cup {t}
    /\ shuttingDown' = TRUE
    /\ UNCHANGED <<process, task, token, client>>

\* meltdown.next(): the first end is passed on to all others.
Reap(t) ==
    /\ process = "up" /\ task[t] = "stopped" /\ t \notin reaped
    /\ reaped' = reaped \cup {t}
    /\ shuttingDown' = TRUE
    /\ token' = (token \/ ~shuttingDown)
    /\ UNCHANGED <<process, task, client>>

\* meltdown.next() has nothing left: run_app returns.
Exit ==
    /\ process = "up" /\ reaped = Tasks
    /\ process' = "exited"
    /\ UNCHANGED <<services, client>>

-----------------------------------------------------------------------------
Client == Connect \/ Receive \/ NoticeClosed \/ Reconnect \/ PauseOver
RunApp == Exit \/ \E t \in Tasks : Reap(t)

Next ==
    \/ Client \/ RunApp
    \/ \E t \in Tasks : Ends(t) \/ Stops(t)
    \/ SendConfig \/ SendOther \/ Dies \/ \E f \in Fields : Change(f)

Spec == Init /\ [][Next]_vars

\* run_app polls every service that was woken; a reconnection attempt is made
\* again and again, and the control plane can be reached.
Fairness ==
    /\ WF_vars(Client) /\ WF_vars(RunApp)
    /\ \A t \in Tasks : WF_vars(Stops(t))

FairSpec == Spec /\ Fairness

-----------------------------------------------------------------------------
\* Properties.

\* Through updates of parts and of the whole, lost connections and reconnections,
\* the gateway's configuration is the control plane's, except for messages that
\* are still to be read and for changes lost with a connection.
CurrentUnlessMissed ==
    process # "panicked" =>
      \A f \in Fields \ (missed \cup TouchedBy(wire)) : config[f] = held[f]

\* A revoked key stays revoked: no part of the configuration goes back to an
\* older version, whatever is left over from an earlier connection.
ConfigNeverGoesBack == [][\A f \in Fields : config'[f] >= config[f]]_vars

\* A client that lost its connection, once or many times, reads again when
\* connections stop dying, unless the process is on its way down.
ClientReadsAgain ==
    <>[](conn # "closed") =>
      ((process = "up" /\ conn # "open")
          ~> (conn = "open" \/ process # "up" \/ task["control-plane-client"] = "stopped"))

\* Whichever service ends first, and whether or not it triggers the token
\* itself, the process ends; nobody waits for a service that was not told.
ShutdownCompletes ==
    (\E t \in Tasks : task[t] = "stopped") ~> (process \in {"exited", "panicked"})
=============================================================================
