---------------------------- MODULE Availability ----------------------------
(***************************************************************************)
(* The life of one serve process at the MQTT broker: start-up, the         *)
(* connection-up callback, reconnections, shutdown, crash and restart      *)
(* (internal/cmd/serve.go, internal/mqtt/client.go, and PublishDiscovery   *)
(* and PublishAvailability of internal/publisher/publisher.go).            *)
(*                                                                         *)
(* The broker and the autopaho connection manager are external, modelled   *)
(* as the code uses them: QoS 1 publishes travel in order on one           *)
(* connection; a connection that is lost takes what it carried with it; a  *)
(* session that ends without a DISCONNECT packet publishes the will; the   *)
(* manager reconnects by itself and, once the context it was given is      *)
(* cancelled, sends DISCONNECT and stops.                                  *)
(***************************************************************************)
EXTENDS Naturals, SequencesExt

CONSTANTS
  Configs,     \* the discovery messages of homeassistant.BuildDiscovery
  Callbacks,   \* bound: connection-up goroutines alive at the same time
  MaxWire      \* bound: packets in flight on a connection

ASSUME AvailabilityAssumption ==
  /\ IsFiniteSet(Configs)
  /\ Configs \intersect {"online", "offline", "DISCONNECT"} = {}
  /\ Callbacks \intersect {"main", "nobody"} = {}
  /\ MaxWire \in Nat \ {0}

VARIABLES
  slow,     \* the broker may answer too late on a connection that stays up
  main,     \* where runServe is
  ctxDone,  \* the root context is cancelled
  onUp,     \* Client.onUp has been registered
  cm,       \* the connection manager: "down", "up", "stopped"
  notify,   \* the manager still has to call OnConnectionUp for this connection
  linkUp,   \* the current TCP connection works
  wire,     \* packets sent on it that the broker has not processed
  session,  \* broker: "new", "open", "lost" (will sent), "closed" (DISCONNECT)
  avail,    \* broker: retained availability
  configs,  \* broker: retained discovery configs
  todo,     \* publishes each goroutine still has to make
  inflight  \* a goroutine waits for the PUBACK of the head of its todo

processVars == <<main, ctxDone, onUp>>
linkVars == <<linkUp, wire, session>>
retained == <<avail, configs>>
publishVars == <<todo, inflight>>
vars == <<slow, processVars, cm, notify, linkVars, retained, publishVars>>

Publishers == {"main"} \union Callbacks
Nobody == "nobody"
Messages == Configs \union {"online", "offline"}
Dead == {"crashed", "exited", "exitedWithError"}
Alive == main \notin Dead

Discovery == SetToSeq(Configs)

\* Mutants: the will carries the wrong payload.
Will_Online == "online"
Will_Unavailable == "unavailable"

\* The retained last-will payload set by mqtt.Connect.
Will == "offline"

\* Availability and discovery may be retained from an earlier life of the service,
\* whose session has ended since: "online" if that life ended with a DISCONNECT.
Init ==
  /\ slow \in BOOLEAN
  /\ main = "await" /\ ctxDone = FALSE /\ onUp = FALSE
  /\ cm = "down" /\ notify = FALSE
  /\ linkUp = FALSE /\ wire = <<>> /\ session = "new"
  /\ avail \in {"none", "online", "offline"} /\ configs \in SUBSET Configs
  /\ todo = [p \in Publishers |-> <<>>]
  /\ inflight = [p \in Publishers |-> FALSE]

-----------------------------------------------------------------------------
(* The broker.                                                             *)

Retain(msg) ==
  IF msg \in Configs THEN configs' = configs \union {msg} /\ UNCHANGED avail
                     ELSE avail' = msg /\ UNCHANGED configs

\* What a goroutine does when its publish returns: the next message, or, after
\* the last one, the next part of runServe.
Succeeded(p) ==
  /\ todo' = [todo EXCEPT ![p] = Tail(@)]
  /\ main' = IF p = "main" /\ Len(todo[p]) = 1
             THEN IF main = "startup" THEN "running" ELSE "disconnect"
             ELSE main

\* Start-up returns the error; shutdown only logs it; the callback goes on to
\* discovery after a failed availability and gives up on a failed config.
Failed(p) ==
  /\ todo' = [todo EXCEPT ![p] = IF p # "main" /\ Head(@) = "online" THEN Tail(@) ELSE <<>>]
  /\ main' = IF p # "main" THEN main
             ELSE IF main = "startup" THEN "failing" ELSE "disconnect"

\* The broker processes the next packet and the PUBACK reaches its sender (or
\* comes too late).
Deliver ==
  /\ linkUp
  /\ wire # <<>>
  /\ Head(wire).msg # "DISCONNECT"
  /\ Retain(Head(wire).msg)
  /\ wire' = Tail(wire)
  /\ LET p == Head(wire).owner IN
       \/ p # Nobody /\ Succeeded(p) /\ inflight' = [inflight EXCEPT ![p] = FALSE]
       \/ (p = Nobody \/ slow) /\ UNCHANGED <<todo, inflight, main>>
  /\ UNCHANGED <<slow, ctxDone, onUp, cm, notify, linkUp, session>>

DeliverDisconnect ==
  /\ linkUp
  /\ wire # <<>>
  /\ Head(wire).msg = "DISCONNECT"
  /\ session' = "closed"
  /\ linkUp' = FALSE
  /\ wire' = <<>>
  /\ UNCHANGED <<slow, processVars, cm, notify, retained, publishVars>>

\* The connection breaks, possibly after the broker processed a last packet
\* whose acknowledgement is lost.
LoseLink ==
  /\ linkUp
  /\ linkUp' = FALSE
  /\ wire' = <<>>
  /\ \/ UNCHANGED retained
     \/ wire # <<>> /\ Head(wire).msg # "DISCONNECT" /\ Retain(Head(wire).msg)
  /\ UNCHANGED <<slow, processVars, cm, notify, session, publishVars>>

\* The process is gone, its socket is closed and drained.
SocketCloses ==
  /\ linkUp
  /\ ~Alive
  /\ wire = <<>>
  /\ linkUp' = FALSE
  /\ UNCHANGED <<slow, processVars, cm, notify, wire, session, retained, publishVars>>

\* Keep-alive or the closed socket tells the broker: the will is published.
SessionExpires ==
  /\ session = "open"
  /\ ~linkUp
  /\ session' = "lost"
  /\ avail' = Will
  /\ UNCHANGED <<slow, processVars, cm, notify, linkUp, wire, configs, publishVars>>

\* A broker that does not persist retained messages restarts.
BrokerRestarts ==
  /\ session = "open"
  /\ session' = "lost"
  /\ linkUp' = FALSE
  /\ wire' = <<>>
  /\ avail' = "none"
  /\ configs' = {}
  /\ UNCHANGED <<slow, processVars, cm, notify, publishVars>>

-----------------------------------------------------------------------------
(* The connection manager and mqtt.Client.                                 *)

\* A (re)connection.  The broker ends a session it still holds for this client
\* id, will included, before it accepts the new one.
Connect ==
  /\ Alive /\ ~ctxDone
  /\ cm = "down"
  /\ cm' = "up"
  /\ notify' = TRUE
  /\ linkUp' = TRUE
  /\ wire' = <<>>
  /\ session' = "open"
  /\ avail' = IF session = "open" THEN Will ELSE avail
  /\ UNCHANGED <<slow, processVars, configs, publishVars>>

Idle(c) == todo[c] = <<>>

\* Mutant: the callback publishes discovery only.
FireOnUp_NoAvailability ==
  /\ notify /\ Alive
  /\ notify' = FALSE
  /\ IF onUp THEN \E c \in Callbacks : Idle(c) /\ todo' = [todo EXCEPT ![c] = Discovery]
             ELSE UNCHANGED todo
  /\ UNCHANGED <<slow, processVars, cm, linkVars, retained, inflight>>

\* Mutant: the callback publishes availability only.
FireOnUp_NoDiscovery ==
  /\ notify /\ Alive
  /\ notify' = FALSE
  /\ IF onUp THEN \E c \in Callbacks : Idle(c) /\ todo' = [todo EXCEPT ![c] = <<"online">>]
             ELSE UNCHANGED todo
  /\ UNCHANGED <<slow, processVars, cm, linkVars, retained, inflight>>

\* OnConnectionUp: the callback, if registered by now, runs in a new goroutine.
FireOnUp ==
  /\ notify /\ Alive
  /\ notify' = FALSE
  /\ IF onUp THEN \E c \in Callbacks :
                    Idle(c) /\ todo' = [todo EXCEPT ![c] = <<"online">> \o Discovery]
             ELSE UNCHANGED todo
  /\ UNCHANGED <<slow, processVars, cm, linkVars, retained, inflight>>

NoticeLoss ==
  /\ Alive
  /\ cm = "up" /\ ~linkUp /\ ~notify
  /\ cm' = "down"
  /\ UNCHANGED <<slow, processVars, notify, linkVars, retained, publishVars>>

\* Cancellation of the context given to NewConnection (or Disconnect, which only
\* runs after it): a clean DISCONNECT if the connection is up.
ManagerStops ==
  /\ Alive /\ ctxDone
  /\ cm # "stopped" /\ ~notify
  /\ cm' = "stopped"
  /\ wire' = IF cm = "up" /\ linkUp
             THEN Append(wire, [msg |-> "DISCONNECT", owner |-> Nobody]) ELSE wire
  /\ UNCHANGED <<slow, processVars, notify, linkUp, session, retained, publishVars>>

\* Client.Publish on an established connection: the packet is written.
Send(p) ==
  /\ Alive
  /\ todo[p] # <<>> /\ ~inflight[p]
  /\ cm = "up"
  /\ Len(wire) < MaxWire
  /\ wire' = IF linkUp THEN Append(wire, [msg |-> Head(todo[p]), owner |-> p]) ELSE wire
  /\ inflight' = [inflight EXCEPT ![p] = TRUE]
  /\ UNCHANGED <<slow, processVars, cm, notify, linkUp, session, retained, todo>>

\* Client.Publish without a connection.
SendRefused(p) ==
  /\ Alive
  /\ todo[p] # <<>> /\ ~inflight[p]
  /\ cm # "up"
  /\ Failed(p)
  /\ UNCHANGED <<slow, ctxDone, onUp, cm, notify, linkVars, retained, inflight>>

\* A publish gives up: lost packet or stopped connection, expired timeout, or its
\* context (root, or shutdownCtx in shutdown) is done.  The packet may still be
\* on the wire.
GiveUp(p) ==
  /\ Alive
  /\ inflight[p]
  /\ \/ slow \/ cm # "up"
     \/ \A i \in DOMAIN wire : wire[i].owner # p
     \/ ctxDone /\ (p = "main" => main = "startup")
  /\ inflight' = [inflight EXCEPT ![p] = FALSE]
  /\ wire' = [i \in DOMAIN wire |->
                IF wire[i].owner = p THEN [wire[i] EXCEPT !.owner = Nobody] ELSE wire[i]]
  /\ Failed(p)
  /\ UNCHANGED <<slow, ctxDone, onUp, cm, notify, linkUp, session, retained>>

-----------------------------------------------------------------------------
(* runServe.                                                               *)

AwaitConnection ==
  /\ main = "await"
  /\ cm = "up"
  /\ main' = "register"
  /\ UNCHANGED <<slow, ctxDone, onUp, cm, notify, linkVars, retained, publishVars>>

\* Mutant: AwaitConnection is called with a context that is never cancelled.
AwaitCancelled_Never ==
  /\ main = "await"
  /\ FALSE
  /\ UNCHANGED vars

AwaitCancelled ==
  /\ main = "await"
  /\ ctxDone
  /\ main' = "failing"
  /\ UNCHANGED <<slow, ctxDone, onUp, cm, notify, linkVars, retained, publishVars>>

\* SetOnConnectionUp, then the initial publish of discovery and availability.
Register ==
  /\ main = "register"
  /\ onUp' = TRUE
  /\ main' = "startup"
  /\ todo' = [todo EXCEPT !["main"] = Discovery \o <<"online">>]
  /\ UNCHANGED <<slow, ctxDone, cm, notify, linkVars, retained, inflight>>

\* SIGTERM or SIGINT.
Cancel ==
  /\ Alive /\ ~ctxDone
  /\ ctxDone' = TRUE
  /\ UNCHANGED <<slow, main, onUp, cm, notify, linkVars, retained, publishVars>>

Shutdown ==
  /\ main = "running"
  /\ ctxDone
  /\ main' = "offline"
  /\ todo' = [todo EXCEPT !["main"] = <<"offline">>]
  /\ UNCHANGED <<slow, ctxDone, onUp, cm, notify, linkVars, retained, inflight>>

HealthServerFails ==
  /\ main = "running"
  /\ main' = "failing"
  /\ UNCHANGED <<slow, ctxDone, onUp, cm, notify, linkVars, retained, publishVars>>

\* The process ends: every goroutine dies with it; packets already written stay
\* on the wire.
Die(how) ==
  /\ main' = how
  /\ cm' = "stopped"
  /\ notify' = FALSE
  /\ todo' = [p \in Publishers |-> <<>>]
  /\ inflight' = [p \in Publishers |-> FALSE]
  /\ wire' = [i \in DOMAIN wire |-> [wire[i] EXCEPT !.owner = Nobody]]

\* mc.Disconnect waits for the manager, up to shutdownCtx; then the scheduler and
\* the status server are joined.
Exit ==
  /\ main = "disconnect"
  /\ cm = "stopped" \/ slow
  /\ Die("exited")
  /\ UNCHANGED <<slow, ctxDone, onUp, linkUp, session, retained>>

\* runServe returned an error: Execute's deferred stop cancels the context ...
DeferredStop ==
  /\ main = "failing" /\ ~ctxDone
  /\ ctxDone' = TRUE
  /\ UNCHANGED <<slow, main, onUp, cm, notify, linkVars, retained, publishVars>>

\* ... and main exits.
ExitWithError ==
  /\ main = "failing" /\ ctxDone
  /\ Die("exitedWithError")
  /\ UNCHANGED <<slow, ctxDone, onUp, linkUp, session, retained>>

Crash ==
  /\ Alive
  /\ Die("crashed")
  /\ UNCHANGED <<slow, ctxDone, onUp, linkUp, session, retained>>

\* Kubernetes starts a new process.
Restart ==
  /\ main \in {"crashed", "exitedWithError"}
  /\ main' = "await" /\ ctxDone' = FALSE /\ onUp' = FALSE
  /\ cm' = "down"
  /\ UNCHANGED <<slow, notify, linkVars, retained, publishVars>>

Finished == main = "exited" /\ session # "open"
Terminated == Finished /\ UNCHANGED vars

Server == AwaitConnection \/ AwaitCancelled \/ Register \/ Shutdown
          \/ Exit \/ DeferredStop \/ ExitWithError
Manager == Connect \/ FireOnUp \/ NoticeLoss \/ ManagerStops
Broker == Deliver \/ DeliverDisconnect \/ SocketCloses \/ SessionExpires
Publish(p) == Send(p) \/ SendRefused(p) \/ GiveUp(p)

Next ==
  \/ Server \/ Manager \/ Broker \/ (\E p \in Publishers : Publish(p))
  \/ Cancel \/ HealthServerFails \/ Crash \/ Restart
  \/ LoseLink \/ BrokerRestarts \/ Terminated

Spec == Init /\ [][Next]_vars

\* The process and the manager are scheduled, the broker processes what it
\* receives and notices dead sessions.  Signals, losses, crashes and restarts
\* need not happen.
Fairness ==
  /\ WF_vars(Server) /\ WF_vars(Manager) /\ WF_vars(Broker)
  /\ \A p \in Publishers : WF_vars(Publish(p))

FairSpec == Spec /\ Fairness

-----------------------------------------------------------------------------
(* Properties.                                                             *)

\* Every variable stays in its type.
TypeOK ==
  /\ main \in Dead \union {"await", "register", "startup", "running", "offline",
                           "disconnect", "failing"}
  /\ slow \in BOOLEAN
  /\ ctxDone \in BOOLEAN /\ onUp \in BOOLEAN /\ notify \in BOOLEAN /\ linkUp \in BOOLEAN
  /\ cm \in {"down", "up", "stopped"}
  /\ session \in {"new", "open", "lost", "closed"}
  /\ avail \in {"none", "online", "offline"}
  /\ configs \subseteq Configs
  /\ wire \in Seq([msg : Messages \union {"DISCONNECT"}, owner : Publishers \union {Nobody}])
  /\ todo \in [Publishers -> Seq(Messages)]
  /\ inflight \in [Publishers -> BOOLEAN]

\* The will of mqtt.Connect: a session that was lost never leaves "online"
\* retained, through any reconnection, crash or restart.
NoGhostOnline == session = "lost" => avail # "online"

\* Once the process runs on a connection that stays up, availability becomes and
\* stays "online", whichever connection-up call raced with the registration of
\* the callback and whatever publishes failed before.
StableMeansOnline ==
  <>[](main = "running" /\ linkUp /\ ~ctxDone) => <>[](avail = "online")

\* The same for discovery, also after a broker lost its retained configs, as long
\* as the broker answers in time: PublishDiscovery stops at the first config that
\* is not acknowledged, and nothing retries it before the next reconnection.
StableMeansDiscovered ==
  ~slow /\ <>[](main = "running" /\ linkUp /\ ~ctxDone) => <>[](configs = Configs)

\* A crash of a connected process ends "online" at the broker, unless a
\* DISCONNECT is already under way and suppresses the will.
Disconnecting == \E i \in DOMAIN wire : wire[i].msg = "DISCONNECT"
CrashMeansOffline ==
  (main = "crashed" /\ session = "open" /\ ~Disconnecting)
    ~> (avail # "online" \/ main # "crashed")

\* A cancelled process ends, also when it never got a connection.
ShutdownEnds == ctxDone ~> ~Alive

\* What the shutdown sequence is for: a graceful exit does not leave "online"
\* retained.
ExitLeavesOffline == Finished => avail # "online"
=============================================================================
