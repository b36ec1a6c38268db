------------------------- MODULE AvailabilityProofs -------------------------
(***************************************************************************)
(* Proofs that a lost session never leaves "online" retained, and that an  *)
(* acknowledgement always answers the publish its goroutine waits for, for *)
(* any number of discovery configs, overlapping callbacks and packets in   *)
(* flight.                                                                 *)
(***************************************************************************)
EXTENDS Availability, FiniteSetTheorems, TLAPS

\* Packets reach the broker only over a connection, and a connection that works
\* belongs to the open session: nothing can be retained once the will was sent.
LinkHasSession == linkUp => session = "open"

IInv == LinkHasSession /\ NoGhostOnline

\* The initial states satisfy it.
LEMMA InvInit == Init => IInv
BY DEF Init, IInv, LinkHasSession, NoGhostOnline

\* Every step of the broker, the manager and the process keeps it.
LEMMA InvNext ==
  ASSUME IInv, [Next]_vars
  PROVE  IInv'
<1> USE DEF IInv, LinkHasSession, NoGhostOnline, vars, processVars, linkVars, retained,
            publishVars
\* The broker: what it retains arrives over a connection of the open session.
<1>1. CASE Deliver
  BY <1>1 DEF Deliver
<1>2. CASE DeliverDisconnect
  BY <1>2 DEF DeliverDisconnect
<1>3. CASE LoseLink
  BY <1>3 DEF LoseLink
<1>4. CASE SocketCloses
  BY <1>4 DEF SocketCloses
<1>5. CASE SessionExpires
  BY <1>5 DEF SessionExpires, Will
<1>6. CASE BrokerRestarts
  BY <1>6 DEF BrokerRestarts
\* The manager opens session and connection together.
<1>7. CASE Connect
  BY <1>7 DEF Connect
<1>8. CASE FireOnUp \/ NoticeLoss \/ ManagerStops
  BY <1>8 DEF FireOnUp, NoticeLoss, ManagerStops
\* Publishers and runServe touch neither session nor retained messages.
<1>9. ASSUME NEW p \in Publishers, Publish(p) PROVE IInv'
  BY <1>9 DEF Publish, Send, SendRefused, GiveUp
<1>10. CASE Server
  BY <1>10 DEF Server, AwaitConnection, AwaitCancelled, Register, Shutdown, Exit, DeferredStop,
               ExitWithError
<1>11. CASE Cancel \/ HealthServerFails \/ Crash \/ Restart \/ Terminated \/ UNCHANGED vars
  BY <1>11 DEF Cancel, HealthServerFails, Crash, Restart, Terminated
<1> QED
  BY <1>1, <1>2, <1>3, <1>4, <1>5, <1>6, <1>7, <1>8, <1>9, <1>10, <1>11
  DEF Next, Manager, Broker

\* mqtt.Connect's will: a session that was lost never leaves "online" retained,
\* through any interleaving of callbacks, reconnections, crashes and restarts.
THEOREM LostMeansNotOnline == Spec => []NoGhostOnline
<1>1. IInv /\ [Next]_vars => IInv'
  BY InvNext
<1>2. IInv => NoGhostOnline
  BY DEF IInv
<1> QED
  BY InvInit, <1>1, <1>2, PTL DEF Spec

-----------------------------------------------------------------------------
(* Publishes and their acknowledgements.                                   *)

Packets == [msg : Messages \union {"DISCONNECT"}, owner : Publishers \union {Nobody}]

\* A packet that somebody waits for is the head of that goroutine's list.
AnswersHead ==
  \A i \in DOMAIN wire :
    LET p == wire[i].owner
    IN  p # Nobody => inflight[p] /\ todo[p] # <<>> /\ Head(todo[p]) = wire[i].msg

\* A goroutine waits for one packet at a time, so no acknowledgement is taken for
\* that of a later publish.
OneInFlight ==
  \A i, j \in DOMAIN wire : i # j /\ wire[i].owner = wire[j].owner => wire[i].owner = Nobody

\* A goroutine that waits has something to publish, and runServe publishes at
\* start-up and at shutdown only.
WaitsForSomething ==
  /\ \A p \in Publishers : inflight[p] => todo[p] # <<>>
  /\ main \notin {"startup", "offline"} => todo["main"] = <<>>

Acks == AnswersHead /\ OneInFlight /\ WaitsForSomething

PInv == TypeOK /\ Acks

\* BuildDiscovery's messages, in some order.
LEMMA DiscoveryType == Discovery \in Seq(Configs)
<1>1. PICK f \in [1 .. Cardinality(Configs) -> Configs] : IsInjective(f)
  BY FS_CardinalityType, AvailabilityAssumption DEF ExistsBijection, Bijection, Injection
<1>2. Discovery \in [1 .. Cardinality(Configs) -> Configs]
  BY <1>1 DEF Discovery, SetToSeq
<1>3. Cardinality(Configs) \in Nat
  BY FS_CardinalityType, AvailabilityAssumption
<1> QED
  BY <1>2, <1>3

\* Nobody is not a goroutine, and neither is main a callback.
LEMMA Names == Nobody \notin Publishers /\ "main" \in Publishers /\ "main" \notin Callbacks
BY AvailabilityAssumption DEF Publishers, Nobody

\* The messages of discovery are messages.
LEMMA DiscoveryMessages ==
  /\ Discovery \o <<"online">> \in Seq(Messages)
  /\ <<"online">> \o Discovery \in Seq(Messages) /\ <<"online">> \o Discovery # <<>>
  /\ <<"offline">> \in Seq(Messages)
<1>1. Discovery \in Seq(Messages)
  BY DiscoveryType DEF Messages
<1>2. <<"online">> \in Seq(Messages) /\ <<"offline">> \in Seq(Messages)
  BY DEF Messages
<1> QED
  BY <1>1, <1>2

\* What is left of a list after its first message.
LEMMA ListTail ==
  ASSUME NEW q \in Seq(Messages), q # <<>>
  PROVE  Tail(q) \in Seq(Messages) /\ (Len(q) = 1 => Tail(q) = <<>>)
<1>1. Tail(q) \in Seq(Messages) /\ Len(Tail(q)) = Len(q) - 1 /\ Len(q) \in Nat
  OBVIOUS
<1>2. \A r \in Seq(Messages) : Len(r) = 0 => r = <<>>
  OBVIOUS
<1> QED
  BY <1>1, <1>2

\* Every packet has an owner, or nobody waits for it any more.
LEMMA PacketOwners ==
  ASSUME NEW w \in Seq(Packets)
  PROVE  \A i \in DOMAIN w : w[i] \in Packets /\ w[i].owner \in Publishers \union {Nobody}
<1>1. \A e \in Packets : e.owner \in Publishers \union {Nobody}
  BY DEF Packets
<1>2. \A i \in DOMAIN w : w[i] \in Packets
  OBVIOUS
<1> QED
  BY <1>1, <1>2

\* The packets that stay on the wire when the first one is processed.
LEMMA TailPackets ==
  ASSUME NEW w \in Seq(Packets), w # <<>>
  PROVE  /\ Tail(w) \in Seq(Packets)
         /\ Head(w) = w[1] /\ 1 \in DOMAIN w
         /\ \A i \in DOMAIN Tail(w) : i + 1 \in DOMAIN w /\ i + 1 # 1 /\ i \in Int /\ Tail(w)[i] = w[i + 1]
OBVIOUS

\* One more packet at the end of the wire.
LEMMA AppendPackets ==
  ASSUME NEW w \in Seq(Packets), NEW e \in Packets
  PROVE  /\ Append(w, e) \in Seq(Packets)
         /\ \A i \in DOMAIN Append(w, e) :
              \/ i \in DOMAIN w /\ Append(w, e)[i] = w[i]
              \/ i = Len(w) + 1 /\ i \notin DOMAIN w /\ Append(w, e)[i] = e
OBVIOUS

\* Packets that nobody waits for any more stay where they are.
Disown(w, P) ==
  [i \in DOMAIN w |-> IF w[i].owner \in P THEN [w[i] EXCEPT !.owner = Nobody] ELSE w[i]]

\* ... and only their owner changes.
LEMMA DisownPackets ==
  ASSUME NEW w \in Seq(Packets), NEW P
  PROVE  /\ Disown(w, P) \in Seq(Packets) /\ DOMAIN Disown(w, P) = DOMAIN w
         /\ \A i \in DOMAIN w : w[i].owner \notin P => Disown(w, P)[i] = w[i]
         /\ \A i \in DOMAIN w : w[i].owner \in P => Disown(w, P)[i].owner = Nobody
<1> DEFINE v == Disown(w, P)
<1>1. Len(w) \in Nat /\ DOMAIN w = 1 .. Len(w) /\ \A i \in DOMAIN w : w[i] \in Packets
  OBVIOUS
<1>2. \A e \in Packets : /\ [e EXCEPT !.owner = Nobody] \in Packets
                         /\ [e EXCEPT !.owner = Nobody].msg = e.msg
                         /\ [e EXCEPT !.owner = Nobody].owner = Nobody
  BY DEF Packets
<1>3. v \in [1 .. Len(w) -> Packets]
  BY <1>1, <1>2 DEF Disown
<1> QED
  BY <1>1, <1>2, <1>3 DEF Disown

\* The initial states satisfy the invariant.
LEMMA PInvInit == Init => PInv
<1> SUFFICES ASSUME Init PROVE PInv
  OBVIOUS
<1>1. todo \in [Publishers -> Seq(Messages)] /\ inflight \in [Publishers -> BOOLEAN]
      /\ wire \in Seq(Packets) /\ DOMAIN wire = {}
  BY DEF Init
<1>2. TypeOK
  BY <1>1 DEF Init, TypeOK, Dead, Packets
<1>3. Acks
  BY <1>1, Names DEF Init, Acks, AnswersHead, OneInFlight, WaitsForSomething
<1> QED
  BY <1>2, <1>3 DEF PInv

\* Steps that leave publishes alone, or drop the wire, keep the acknowledgements.
LEMMA QuietAcks ==
  ASSUME Acks, UNCHANGED <<todo, inflight>>,
         wire' = wire \/ wire' = <<>>,
         main' = main \/ main \notin {"startup", "offline"}
  PROVE  Acks'
<1>1. AnswersHead' /\ OneInFlight'
  BY DEF Acks, AnswersHead, OneInFlight
<1>2. WaitsForSomething'
  BY DEF Acks, WaitsForSomething
<1> QED
  BY <1>1, <1>2 DEF Acks

\* A goroutine gets a new list of publishes while it waits for nothing.
LEMMA NewListAcks ==
  ASSUME TypeOK, Acks, NEW p \in Publishers, NEW q \in Seq(Messages), todo[p] = <<>>,
         todo' = [todo EXCEPT ![p] = q], UNCHANGED <<wire, inflight>>,
         \/ main' = main /\ p # "main"
         \/ main' \in {"startup", "offline"} /\ p = "main"
  PROVE  Acks' /\ todo' \in [Publishers -> Seq(Messages)]
<1>1. ~inflight[p] /\ todo \in [Publishers -> Seq(Messages)]
  BY DEF Acks, WaitsForSomething, TypeOK
<1>2. \A r \in Publishers : todo'[r] = IF r = p THEN q ELSE todo[r]
  BY <1>1
<1>3. \A j \in DOMAIN wire : wire[j].owner # Nobody => wire[j].owner # p /\ wire[j].owner \in Publishers
  <2>1. wire \in Seq(Packets)
    BY DEF TypeOK, Packets
  <2> QED
    BY <1>1, <2>1, PacketOwners DEF Acks, AnswersHead
<1>4. AnswersHead' /\ OneInFlight'
  BY <1>2, <1>3 DEF Acks, AnswersHead, OneInFlight
<1>5. WaitsForSomething'
  BY <1>1, <1>2, Names DEF Acks, WaitsForSomething
<1> QED
  BY <1>1, <1>4, <1>5 DEF Acks

\* A publish of p is over: p waits no longer, none of its packets counts, and main
\* moves on when its list is done.
LEMMA OverAcks ==
  ASSUME TypeOK, Acks, NEW p \in Publishers, NEW q \in Seq(Messages),
         todo' = [todo EXCEPT ![p] = q],
         inflight' = [inflight EXCEPT ![p] = FALSE],
         \A j \in DOMAIN wire' : wire'[j].owner # p,
         \A j \in DOMAIN wire' : wire'[j].owner # Nobody =>
           \E k \in DOMAIN wire : wire'[j] = wire[k],
         \A j, k \in DOMAIN wire' : j # k /\ wire'[j].owner = wire'[k].owner => wire'[j].owner = Nobody,
         main' \in {"startup", "offline"} \/ (p = "main" /\ q = <<>>) \/ (p # "main" /\ main' = main)
  PROVE  Acks' /\ todo' \in [Publishers -> Seq(Messages)] /\ inflight' \in [Publishers -> BOOLEAN]
<1>1. todo \in [Publishers -> Seq(Messages)] /\ inflight \in [Publishers -> BOOLEAN]
      /\ \A k \in DOMAIN wire : wire[k].owner \in Publishers \union {Nobody}
  <2>1. wire \in Seq(Packets)
    BY DEF TypeOK, Packets
  <2> QED
    BY <2>1, PacketOwners DEF TypeOK
<1>2. \A r \in Publishers : /\ todo'[r] = IF r = p THEN q ELSE todo[r]
                            /\ inflight'[r] = IF r = p THEN FALSE ELSE inflight[r]
  BY <1>1
<1>3. AnswersHead'
  <2> SUFFICES ASSUME NEW j \in DOMAIN wire', wire'[j].owner # Nobody
               PROVE  LET r == wire'[j].owner
                      IN  inflight'[r] /\ todo'[r] # <<>> /\ Head(todo'[r]) = wire'[j].msg
    BY DEF AnswersHead
  <2>1. PICK k \in DOMAIN wire : wire'[j] = wire[k]
    OBVIOUS
  <2>2. wire[k].owner \in Publishers /\ wire[k].owner # p
    BY <1>1, <2>1
  <2>3. LET r == wire[k].owner
        IN  inflight[r] /\ todo[r] # <<>> /\ Head(todo[r]) = wire[k].msg
    BY <2>1 DEF Acks, AnswersHead
  <2> QED
    BY <1>2, <2>1, <2>2, <2>3
<1>4. OneInFlight'
  BY DEF OneInFlight
<1>5. WaitsForSomething'
  <2>1. \A r \in Publishers : inflight[r] => todo[r] # <<>>
    BY DEF Acks, WaitsForSomething
  <2>2. \A r \in Publishers : inflight'[r] => todo'[r] # <<>>
    BY <1>2, <2>1
  <2>3. main' \notin {"startup", "offline"} => todo'["main"] = <<>>
    BY <1>2, Names DEF Acks, WaitsForSomething
  <2> QED
    BY <2>2, <2>3 DEF WaitsForSomething
<1> QED
  BY <1>1, <1>3, <1>4, <1>5 DEF Acks

\* The process ends: nobody waits for anything.
LEMMA DieAcks ==
  ASSUME TypeOK, NEW how \in Dead, Die(how)
  PROVE  /\ Acks' /\ wire' \in Seq(Packets)
         /\ todo' \in [Publishers -> Seq(Messages)] /\ inflight' \in [Publishers -> BOOLEAN]
<1>1. wire \in Seq(Packets)
  BY DEF TypeOK, Packets
<1> DEFINE all == Publishers \union {Nobody}
<1>2. \A k \in DOMAIN wire : wire[k].owner \in all
  BY <1>1, PacketOwners
<1> HIDE DEF all
<1>3. wire' = Disown(wire, all)
  BY <1>2 DEF Die, Disown
<1>4. wire' \in Seq(Packets) /\ \A j \in DOMAIN wire' : wire'[j].owner = Nobody
  BY <1>1, <1>2, <1>3, DisownPackets
<1>5. AnswersHead' /\ OneInFlight'
  BY <1>4 DEF AnswersHead, OneInFlight
<1>6. todo' = [r \in Publishers |-> <<>>] /\ inflight' = [r \in Publishers |-> FALSE]
  BY DEF Die
<1>7. WaitsForSomething'
  BY <1>6, Names DEF WaitsForSomething
<1> QED
  BY <1>4, <1>5, <1>6, <1>7 DEF Acks

\* The type invariant without the packets and the lists of publishes, and with them.
ControlType ==
  /\ main \in Dead \union {"await", "register", "startup", "running", "offline",
                           "disconnect", "failing"}
  /\ slow \in BOOLEAN
  /\ ctxDone \in BOOLEAN /\ onUp \in BOOLEAN /\ notify \in BOOLEAN /\ linkUp \in BOOLEAN
  /\ cm \in {"down", "up", "stopped"}
  /\ session \in {"new", "open", "lost", "closed"}
  /\ avail \in {"none", "online", "offline"}
  /\ configs \subseteq Configs

PublishType ==
  /\ wire \in Seq(Packets)
  /\ todo \in [Publishers -> Seq(Messages)]
  /\ inflight \in [Publishers -> BOOLEAN]

\* Both together are the type invariant.
LEMMA TypeSplit == TypeOK <=> ControlType /\ PublishType
BY DEF TypeOK, ControlType, PublishType, Packets

\* The broker retains configs and payloads of the availability topic.
LEMMA RetainType ==
  ASSUME ControlType, NEW e \in Packets, e.msg # "DISCONNECT", Retain(e.msg)
  PROVE  avail' \in {"none", "online", "offline"} /\ configs' \subseteq Configs
BY DEF ControlType, Packets, Messages, Retain

\* Every step keeps the control variables in their types.
LEMMA ControlNext ==
  ASSUME TypeOK, [Next]_vars
  PROVE  ControlType'
<1>1. ControlType /\ wire \in Seq(Packets)
  BY TypeSplit DEF PublishType
<1> USE DEF vars, processVars, linkVars, retained, publishVars
<1>2. ASSUME wire # <<>> PROVE Head(wire) \in Packets
  BY <1>1, <1>2
<1>3. CASE Deliver
  <2>1. avail' \in {"none", "online", "offline"} /\ configs' \subseteq Configs
    BY <1>1, <1>2, <1>3, RetainType DEF Deliver
  <2> QED
    BY <1>1, <1>3, <2>1 DEF Deliver, Succeeded, ControlType
<1>4. CASE LoseLink
  <2>1. avail' \in {"none", "online", "offline"} /\ configs' \subseteq Configs
    BY <1>1, <1>2, <1>4, RetainType DEF LoseLink, ControlType
  <2> QED
    BY <1>1, <1>4, <2>1 DEF LoseLink, ControlType
<1>5. CASE DeliverDisconnect \/ SocketCloses \/ SessionExpires \/ BrokerRestarts
  BY <1>1, <1>5 DEF DeliverDisconnect, SocketCloses, SessionExpires, BrokerRestarts, Will, ControlType
<1>6. CASE Manager
  BY <1>1, <1>6 DEF Manager, Connect, FireOnUp, NoticeLoss, ManagerStops, Will, ControlType
<1>7. ASSUME NEW p \in Publishers, Publish(p) PROVE ControlType'
  BY <1>1, <1>7 DEF Publish, Send, SendRefused, GiveUp, Failed, ControlType
<1>8. CASE AwaitConnection \/ AwaitCancelled \/ Register \/ Shutdown \/ DeferredStop
  <2>1. /\ main' \in {main, "register", "failing", "startup", "offline"}
        /\ ctxDone' = ctxDone \/ ctxDone' = TRUE
        /\ onUp' = onUp \/ onUp' = TRUE
    BY <1>8 DEF AwaitConnection, AwaitCancelled, Register, Shutdown, DeferredStop
  <2>2. UNCHANGED <<slow, cm, notify, linkUp, session, avail, configs>>
    BY <1>8 DEF AwaitConnection, AwaitCancelled, Register, Shutdown, DeferredStop
  <2>3. ctxDone' \in BOOLEAN /\ onUp' \in BOOLEAN
    BY <1>1, <2>1 DEF ControlType
  <2> QED
    BY <1>1, <2>1, <2>2, <2>3 DEF ControlType
<1>9. CASE Exit \/ ExitWithError \/ Crash
  <2>1. main' \in Dead /\ cm' = "stopped" /\ notify' = FALSE
    BY <1>9 DEF Exit, ExitWithError, Crash, Die, Dead
  <2>2. UNCHANGED <<slow, ctxDone, onUp, linkUp, session, avail, configs>>
    BY <1>9 DEF Exit, ExitWithError, Crash
  <2> QED
    BY <1>1, <2>1, <2>2 DEF ControlType
<1>10. CASE Cancel \/ HealthServerFails \/ Restart \/ Terminated \/ UNCHANGED vars
  <2>1. /\ main' \in {main, "failing", "await"}
        /\ ctxDone' = ctxDone \/ ctxDone' = TRUE \/ ctxDone' = FALSE
        /\ onUp' = onUp \/ onUp' = FALSE
        /\ cm' \in {cm, "down"}
    BY <1>10 DEF Cancel, HealthServerFails, Restart, Terminated
  <2>2. UNCHANGED <<slow, notify, linkUp, session, avail, configs>>
    BY <1>10 DEF Cancel, HealthServerFails, Restart, Terminated
  <2>3. ctxDone' \in BOOLEAN /\ onUp' \in BOOLEAN
    BY <1>1, <2>1 DEF ControlType
  <2> QED
    BY <1>1, <2>1, <2>2, <2>3 DEF ControlType
<1> QED
  BY <1>3, <1>4, <1>5, <1>6, <1>7, <1>8, <1>9, <1>10 DEF Next, Broker, Server

\* Every step keeps packets and lists in their types, and acknowledgements in order.
LEMMA PublishNext ==
  ASSUME TypeOK, Acks, [Next]_vars
  PROVE  PublishType' /\ Acks'
<1>1. wire \in Seq(Packets) /\ todo \in [Publishers -> Seq(Messages)]
      /\ inflight \in [Publishers -> BOOLEAN]
  BY TypeSplit DEF PublishType
<1>2. <<>> \in Seq(Packets)
  OBVIOUS
<1> USE DEF vars, processVars, linkVars, retained, publishVars
<1>3. CASE Deliver
  <2>1. wire # <<>> /\ wire' = Tail(wire)
    BY <1>3 DEF Deliver
  <2>2. /\ Tail(wire) \in Seq(Packets)
        /\ Head(wire) = wire[1] /\ 1 \in DOMAIN wire
        /\ \A i \in DOMAIN Tail(wire) :
             i + 1 \in DOMAIN wire /\ i + 1 # 1 /\ i \in Int /\ Tail(wire)[i] = wire[i + 1]
    BY <1>1, <2>1, TailPackets
  <2>3. \A i, j \in DOMAIN wire' :
          i # j /\ wire'[i].owner = wire'[j].owner => wire'[i].owner = Nobody
    BY <2>1, <2>2 DEF Acks, OneInFlight
  <2> DEFINE p == wire[1].owner
  <2>4. CASE UNCHANGED <<todo, inflight, main>>
    <3>1. AnswersHead' /\ OneInFlight'
      BY <2>1, <2>2, <2>3, <2>4 DEF Acks, AnswersHead, OneInFlight
    <3>2. WaitsForSomething'
      BY <2>4 DEF Acks, WaitsForSomething
    <3> QED
      BY <1>1, <2>1, <2>2, <2>4, <3>1, <3>2 DEF Acks, PublishType
  <2>5. CASE p # Nobody /\ Succeeded(p) /\ inflight' = [inflight EXCEPT ![p] = FALSE]
    <3>1. p \in Publishers /\ todo[p] # <<>> /\ todo[p] \in Seq(Messages)
      BY <1>1, <2>2, <2>5, PacketOwners DEF Acks, AnswersHead
    <3> DEFINE q == Tail(todo[p])
    <3>2. q \in Seq(Messages) /\ (Len(todo[p]) = 1 => q = <<>>)
      BY <3>1, ListTail
    <3>3. todo' = [todo EXCEPT ![p] = q]
      BY <2>5 DEF Succeeded
    <3>4. \A j \in DOMAIN wire' : wire'[j].owner # p
      BY <2>1, <2>2, <2>5 DEF Acks, OneInFlight
    <3>5. \A j \in DOMAIN wire' : wire'[j].owner # Nobody => \E k \in DOMAIN wire : wire'[j] = wire[k]
      BY <2>1, <2>2
    <3>6. main' \in {"startup", "offline"} \/ (p = "main" /\ q = <<>>) \/ (p # "main" /\ main' = main)
      <4>1. p = "main" => main \in {"startup", "offline"}
        BY <3>1 DEF Acks, WaitsForSomething
      <4> QED
        BY <2>5, <3>2, <4>1 DEF Succeeded
    <3> HIDE DEF p, q
    <3>7. Acks' /\ todo' \in [Publishers -> Seq(Messages)] /\ inflight' \in [Publishers -> BOOLEAN]
      BY <2>3, <2>5, <3>1, <3>2, <3>3, <3>4, <3>5, <3>6, OverAcks
    <3> QED
      BY <2>1, <2>2, <3>7 DEF PublishType
  <2> QED
    BY <1>3, <2>2, <2>4, <2>5 DEF Deliver
<1>4. CASE DeliverDisconnect \/ LoseLink \/ BrokerRestarts \/ Connect
  <2>1. wire' = <<>> /\ UNCHANGED <<todo, inflight, main>>
    BY <1>4 DEF DeliverDisconnect, LoseLink, BrokerRestarts, Connect
  <2> QED
    BY <1>1, <1>2, <2>1, QuietAcks DEF PublishType
<1>5. CASE \/ SocketCloses \/ SessionExpires \/ NoticeLoss \/ AwaitConnection \/ AwaitCancelled
           \/ Cancel \/ HealthServerFails \/ DeferredStop \/ Restart \/ Terminated \/ UNCHANGED vars
  <2>1. UNCHANGED <<wire, todo, inflight>> /\ (main' = main \/ main \notin {"startup", "offline"})
    BY <1>5 DEF SocketCloses, SessionExpires, NoticeLoss, AwaitConnection, AwaitCancelled,
                Cancel, HealthServerFails, DeferredStop, Restart, Terminated
  <2> QED
    BY <1>1, <2>1, QuietAcks DEF PublishType
<1>6. CASE FireOnUp
  <2>1. CASE UNCHANGED todo
    <3>1. UNCHANGED <<wire, todo, inflight, main>>
      BY <1>6, <2>1 DEF FireOnUp
    <3> QED
      BY <1>1, <3>1, QuietAcks DEF PublishType
  <2>2. CASE \E c \in Callbacks : Idle(c) /\ todo' = [todo EXCEPT ![c] = <<"online">> \o Discovery]
    <3>1. PICK c \in Callbacks : todo[c] = <<>> /\ todo' = [todo EXCEPT ![c] = <<"online">> \o Discovery]
      BY <2>2 DEF Idle
    <3>2. c \in Publishers /\ c # "main"
      BY Names DEF Publishers
    <3>3. UNCHANGED <<wire, inflight, main>>
      BY <1>6 DEF FireOnUp
    <3>4. Acks' /\ todo' \in [Publishers -> Seq(Messages)]
      BY <3>1, <3>2, <3>3, NewListAcks, DiscoveryMessages
    <3> QED
      BY <1>1, <3>3, <3>4 DEF PublishType
  <2> QED
    BY <1>6, <2>1, <2>2 DEF FireOnUp
<1>7. CASE Register \/ Shutdown
  <2>1. PICK q \in Seq(Messages) : todo' = [todo EXCEPT !["main"] = q]
    BY <1>7, DiscoveryMessages DEF Register, Shutdown
  <2>2. UNCHANGED <<wire, inflight>> /\ main' \in {"startup", "offline"}
        /\ main \notin {"startup", "offline"}
    BY <1>7 DEF Register, Shutdown
  <2>3. todo["main"] = <<>>
    BY <2>2 DEF Acks, WaitsForSomething
  <2>4. Acks' /\ todo' \in [Publishers -> Seq(Messages)]
    BY <2>1, <2>2, <2>3, Names, NewListAcks
  <2> QED
    BY <1>1, <2>2, <2>4 DEF PublishType
<1>8. CASE Exit \/ ExitWithError \/ Crash
  <2>1. PICK how \in Dead : Die(how)
    BY <1>8 DEF Exit, ExitWithError, Crash, Dead
  <2> QED
    BY <2>1, DieAcks DEF PublishType
<1>9. CASE ManagerStops
  <2> DEFINE e == [msg |-> "DISCONNECT", owner |-> Nobody]
  <2>1. UNCHANGED <<todo, inflight, main>> /\ (wire' = wire \/ wire' = Append(wire, e))
    BY <1>9 DEF ManagerStops
  <2>2. CASE wire' = wire
    BY <1>1, <2>1, <2>2, QuietAcks DEF PublishType
  <2>3. CASE wire' = Append(wire, e)
    <3>1. e \in Packets /\ e.owner = Nobody
      BY DEF Packets
    <3> HIDE DEF e
    <3>2. /\ wire' \in Seq(Packets)
          /\ \A j \in DOMAIN wire' : \/ j \in DOMAIN wire /\ wire'[j] = wire[j]
                                     \/ wire'[j].owner = Nobody
      BY <1>1, <2>3, <3>1, AppendPackets
    <3>3. AnswersHead' /\ OneInFlight'
      BY <2>1, <3>2 DEF Acks, AnswersHead, OneInFlight
    <3>4. WaitsForSomething'
      BY <2>1 DEF Acks, WaitsForSomething
    <3> QED
      BY <1>1, <2>1, <3>2, <3>3, <3>4 DEF Acks, PublishType
  <2> QED
    BY <2>1, <2>2, <2>3
<1>10. ASSUME NEW p \in Publishers, Send(p) PROVE PublishType' /\ Acks'
  <2> DEFINE e == [msg |-> Head(todo[p]), owner |-> p]
  <2>1. /\ todo[p] # <<>> /\ ~inflight[p] /\ UNCHANGED <<todo, main>>
        /\ inflight' = [inflight EXCEPT ![p] = TRUE]
        /\ wire' = wire \/ wire' = Append(wire, e)
    BY <1>10 DEF Send
  <2>2. e \in Packets /\ e.owner = p /\ e.msg = Head(todo[p])
    BY <1>1, <2>1 DEF Packets
  <2>3. \A r \in Publishers : inflight'[r] = IF r = p THEN TRUE ELSE inflight[r]
    BY <1>1, <2>1
  <2>4. \A j \in DOMAIN wire : wire[j].owner # p /\ wire[j].owner \in Publishers \union {Nobody}
    BY <1>1, <2>1, Names, PacketOwners DEF Acks, AnswersHead
  <2>5. WaitsForSomething'
    BY <2>1, <2>3 DEF Acks, WaitsForSomething
  <2> HIDE DEF e
  <2>6. CASE wire' = wire
    <3>1. AnswersHead' /\ OneInFlight'
      BY <2>1, <2>3, <2>4, <2>6 DEF Acks, AnswersHead, OneInFlight
    <3> QED
      BY <1>1, <2>1, <2>5, <2>6, <3>1 DEF Acks, PublishType
  <2>7. CASE wire' = Append(wire, e)
    <3>1. /\ wire' \in Seq(Packets)
          /\ \A j \in DOMAIN wire' : \/ j \in DOMAIN wire /\ wire'[j] = wire[j]
                                     \/ j = Len(wire) + 1 /\ wire'[j] = e
      BY <1>1, <2>2, <2>7, AppendPackets
    <3>2. AnswersHead'
      BY <2>1, <2>2, <2>3, <2>4, <3>1 DEF Acks, AnswersHead
    <3>3. OneInFlight'
      BY <2>2, <2>4, <3>1 DEF Acks, OneInFlight
    <3> QED
      BY <1>1, <2>1, <2>5, <3>1, <3>2, <3>3 DEF Acks, PublishType
  <2> QED
    BY <2>1, <2>6, <2>7
<1>11. ASSUME NEW p \in Publishers, todo[p] # <<>>, Failed(p)
       PROVE  \E q \in Seq(Messages) :
                /\ todo' = [todo EXCEPT ![p] = q]
                /\ main' \in {"startup", "offline"} \/ (p = "main" /\ q = <<>>) \/ (p # "main" /\ main' = main)
  <2> DEFINE q == IF p # "main" /\ Head(todo[p]) = "online" THEN Tail(todo[p]) ELSE <<>>
  <2>1. q \in Seq(Messages) /\ (p = "main" => q = <<>>)
    BY <1>1, <1>11
  <2>2. todo' = [todo EXCEPT ![p] = q] /\ (p # "main" => main' = main)
    BY <1>11 DEF Failed
  <2> QED
    BY <2>1, <2>2
<1>12. ASSUME NEW p \in Publishers, SendRefused(p) PROVE PublishType' /\ Acks'
  <2>1. todo[p] # <<>> /\ ~inflight[p] /\ Failed(p) /\ UNCHANGED <<wire, inflight>>
    BY <1>12 DEF SendRefused
  <2>2. PICK q \in Seq(Messages) :
          /\ todo' = [todo EXCEPT ![p] = q]
          /\ main' \in {"startup", "offline"} \/ (p = "main" /\ q = <<>>) \/ (p # "main" /\ main' = main)
    BY <1>11, <2>1
  <2>3. inflight' = [inflight EXCEPT ![p] = FALSE]
    BY <1>1, <2>1
  <2>4. \A j \in DOMAIN wire' : wire'[j].owner # p
    BY <2>1, Names DEF Acks, AnswersHead
  <2>5. \A j, k \in DOMAIN wire' :
          j # k /\ wire'[j].owner = wire'[k].owner => wire'[j].owner = Nobody
    BY <2>1 DEF Acks, OneInFlight
  <2>6. \A j \in DOMAIN wire' : wire'[j].owner # Nobody => \E k \in DOMAIN wire : wire'[j] = wire[k]
    BY <2>1
  <2>7. Acks' /\ todo' \in [Publishers -> Seq(Messages)] /\ inflight' \in [Publishers -> BOOLEAN]
    BY <2>2, <2>3, <2>4, <2>5, <2>6, OverAcks
  <2> QED
    BY <1>1, <2>1, <2>7 DEF PublishType
<1>13. ASSUME NEW p \in Publishers, GiveUp(p) PROVE PublishType' /\ Acks'
  <2>1. /\ inflight[p] /\ Failed(p) /\ inflight' = [inflight EXCEPT ![p] = FALSE]
        /\ wire' = [i \in DOMAIN wire |->
                      IF wire[i].owner = p THEN [wire[i] EXCEPT !.owner = Nobody] ELSE wire[i]]
    BY <1>13 DEF GiveUp
  <2>2. todo[p] # <<>>
    BY <2>1 DEF Acks, WaitsForSomething
  <2>3. PICK q \in Seq(Messages) :
          /\ todo' = [todo EXCEPT ![p] = q]
          /\ main' \in {"startup", "offline"} \/ (p = "main" /\ q = <<>>) \/ (p # "main" /\ main' = main)
    BY <1>11, <2>1, <2>2
  <2> DEFINE own == {p}
  <2>4. \A r : r \in own <=> r = p
    OBVIOUS
  <2> HIDE DEF own
  <2>5. wire' = Disown(wire, own)
    BY <2>1, <2>4 DEF Disown
  <2>6. /\ wire' \in Seq(Packets) /\ DOMAIN wire' = DOMAIN wire
        /\ \A i \in DOMAIN wire : wire[i].owner # p => wire'[i] = wire[i]
        /\ \A i \in DOMAIN wire : wire[i].owner = p => wire'[i].owner = Nobody
    BY <1>1, <2>4, <2>5, DisownPackets
  <2>7. \A j \in DOMAIN wire' : wire'[j].owner # p
    BY <2>6, Names
  <2>8. \A j, k \in DOMAIN wire' :
          j # k /\ wire'[j].owner = wire'[k].owner => wire'[j].owner = Nobody
    BY <2>6 DEF Acks, OneInFlight
  <2>9. \A j \in DOMAIN wire' : wire'[j].owner # Nobody => \E k \in DOMAIN wire : wire'[j] = wire[k]
    BY <2>6
  <2>10. Acks' /\ todo' \in [Publishers -> Seq(Messages)] /\ inflight' \in [Publishers -> BOOLEAN]
    BY <2>1, <2>3, <2>7, <2>8, <2>9, OverAcks
  <2> QED
    BY <2>6, <2>10 DEF PublishType
<1> QED
  BY <1>3, <1>4, <1>5, <1>6, <1>7, <1>8, <1>9, <1>10, <1>12, <1>13
  DEF Next, Server, Manager, Broker, Publish

\* The whole invariant.
THEOREM PublishInvariance == Spec => []PInv
<1>1. ControlType' /\ PublishType' => TypeOK'
  BY DEF TypeOK, ControlType, PublishType, Packets
<1>2. PInv /\ [Next]_vars => PInv'
  BY <1>1, ControlNext, PublishNext DEF PInv
<1> QED
  BY PInvInit, <1>2, PTL DEF Spec

\* Every variable of the process, the manager and the broker stays in its type.
THEOREM TypeCorrect == Spec => []TypeOK
<1>1. PInv => TypeOK
  BY DEF PInv
<1> QED
  BY <1>1, PublishInvariance, PTL

\* Client.Publish: whatever connections are lost and whatever goroutines publish at the
\* same time, an acknowledgement that somebody waits for is that of the publish at the
\* head of his list, and he has no second packet under way.
THEOREM AcksInOrder == Spec => [](AnswersHead /\ OneInFlight)
<1>1. PInv => AnswersHead /\ OneInFlight
  BY DEF PInv, Acks
<1> QED
  BY <1>1, PublishInvariance, PTL
=============================================================================
