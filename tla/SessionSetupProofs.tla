------------------------- MODULE SessionSetupProofs -------------------------
(***************************************************************************)
(* What connecting and shutting down promise, for channel and transfer     *)
(* sizes of any width and any number of reconnections.  The invariant      *)
(* follows the sessions the client knows through the steps: the server has *)
(* no other but those whose fate is unsure and the one a failing connect   *)
(* dropped, and each failing path has given its own up before it returns.  *)
(***************************************************************************)
EXTENDS SessionSetup, Pairs, TLAPS

\* The steps of connect, before a failure and after one, and of a shutdown.
Building == {"start", "exchange", "create", "reclaim", "supported", "values", "complete", "swap", "match"}
Failing == {"undo", "closeKeeper", "close"}
Closing == {"stopKeeper", "destroyMain", "destroyClient"}

Channel == [request : Nat, response : Nat, requests : Nat, ops : Nat]

Types ==
    /\ builder.max \in 1..2 /\ builder.size \in 1..MaxIo
    /\ accepts \subseteq 1..2 /\ minor \in 1..2 /\ at \in Steps /\ role \in Roles
    /\ own \in [Roles -> Nat] /\ granted \in [Roles -> Channel]
    /\ made \in Nat /\ 0 \notin live
    /\ rec = [cause |-> rec.cause, back |-> rec.back, retry |-> rec.retry]
    /\ rec.back \in {"supported", "values"}
    /\ calling \in {"connect", "shutdown", "destroy_client_id"}

\* The server has no session but those the client knows, is unsure of or dropped.
Known == live \subseteq unsure \cup dropped \cup {own["main"], own["keeper"], own["rebuilt"]}

\* Which sessions the client has at which step.
Owned ==
    /\ at \in {"start", "exchange", "create"} => own[role] = None
    /\ role # "keeper" => own["keeper"] = None
    /\ role # "rebuilt" => own["rebuilt"] = None
    /\ at \in {"start", "reclaim", "supported", "values"} => role = "main"
    /\ at \in {"match", "closeKeeper"} => role = "keeper"
    /\ at \in {"complete", "swap"} => role = "rebuilt"
    /\ at \in {"close", "connected"} \cup Closing => own["rebuilt"] = None
    /\ at \in {"close", "destroyMain", "destroyClient"} => own["keeper"] = None
    /\ at = "destroyClient" => own["main"] = None
    /\ at = "done" /\ (calling = "connect" \/ error = "ok") => \A r \in Roles : own[r] = None

\* A connect goes on until it fails or a shutdown begins.
Straight ==
    /\ at \in Building \cup Failing \cup {"connected"} => calling = "connect"
    /\ at \in Closing => calling # "connect"

\* Every version above the one being tried was refused.
Descends ==
    at \in Building \cup {"connected"} =>
        /\ minor <= builder.max
        /\ \A v \in accepts : v <= builder.max => v <= minor
        /\ at \notin {"start", "exchange"} => minor \in accepts

Wide(r) == granted[r].request > Headroom /\ granted[r].response > Headroom

\* A session in use has passed validate_session_channel_attrs.
Checked ==
    /\ at \in {"reclaim", "supported", "values"} => Wide("main")
    /\ at \in {"complete", "swap"} => Wide("rebuilt")

\* At most one session is dropped, and the connect fails then.
Dropping ==
    /\ dropped # {} => at \in {"close", "done"} /\ calling = "connect"
    /\ \A s, t \in dropped : s = t

Room ==
    /\ io.read \in 1..builder.size /\ io.read + Headroom <= granted["main"].response
    /\ io.write \in 1..builder.size /\ io.write + Headroom <= granted["main"].request

\* The sizes are settled before the keeper connects.
Fitted == role = "keeper" \/ at = "connected" => Room

Inv == Types /\ Known /\ Owned /\ Straight /\ Descends /\ Checked /\ Dropping /\ Fitted

-----------------------------------------------------------------------------

\* A clamped size is at least a byte and at most the limit, which is positive
\* (clamp_io_size of the NFSv4 client).
LEMMA ClampFits ==
    ASSUME NEW server \in Nat, NEW limit \in Nat \ {0}
    PROVE  clamp_io_size(server, limit) \in 1..limit
<1> DEFINE least == Min({limit, server})
<1>1. least \in Nat /\ least <= limit
  BY MinOfTwo
<1>2. Max({least, 1}) = IF least >= 1 THEN least ELSE 1
  <2> HIDE DEF least
  <2> QED
    BY <1>1, MaxOfTwo
<1> QED
  <2> HIDE DEF least
  <2>1. clamp_io_size(server, limit) = IF server = 0 THEN limit ELSE Max({least, 1})
    BY DEF clamp_io_size, least
  <2> QED
    BY <1>1, <1>2, <2>1

\* What a channel above the head-room leaves for a payload is positive and
\* fits the channel with the head-room (session_payload_limit).
LEMMA PayloadFits ==
    ASSUME Headroom \in Nat, MaxIo \in Nat \ {0}, NEW channel \in Nat, channel > Headroom
    PROVE  session_payload_limit(channel) \in Nat \ {0} /\ session_payload_limit(channel) + Headroom <= channel
<1> DEFINE room == Max({channel - Headroom, 0})
<1>1. room = channel - Headroom
  <2>1. channel - Headroom \in Int /\ channel - Headroom >= 0
    OBVIOUS
  <2> QED
    BY <2>1, MaxOfTwo
<1>2. Min({channel - Headroom, MaxIo}) = IF channel - Headroom <= MaxIo THEN channel - Headroom ELSE MaxIo
  <2>1. channel - Headroom \in Int /\ MaxIo \in Int
    OBVIOUS
  <2> QED
    BY <2>1, MinOfTwo
<1>3. session_payload_limit(channel) = Min({room, MaxIo})
  BY DEF session_payload_limit
<1> HIDE DEF room
<1>4. session_payload_limit(channel) = IF channel - Headroom <= MaxIo THEN channel - Headroom ELSE MaxIo
  BY <1>1, <1>2, <1>3
<1> QED
  BY <1>4

\* The transfer size refresh_root_fsinfo applies (apply_fsinfo_limits).
LEMMA TransferFits ==
    ASSUME Headroom \in Nat, MaxIo \in Nat \ {0}, NEW channel \in Nat, channel > Headroom,
           NEW asked \in 1..MaxIo, NEW server \in Nat
    PROVE  LET size == clamp_io_size(server, Min({asked, session_payload_limit(channel)}))
           IN  size \in 1..asked /\ size + Headroom <= channel
<1> DEFINE limit == Min({asked, session_payload_limit(channel)})
<1>1. session_payload_limit(channel) \in Nat \ {0} /\ session_payload_limit(channel) + Headroom <= channel
  BY PayloadFits
<1>2. limit \in Nat \ {0} /\ limit <= asked /\ limit + Headroom <= channel
  BY <1>1, MinOfTwo
<1> HIDE DEF limit
<1>3. clamp_io_size(server, limit) \in 1..limit
  BY <1>2, ClampFits
<1>4. clamp_io_size(server, limit) \in 1..asked /\ clamp_io_size(server, limit) + Headroom <= channel
  BY <1>2, <1>3
<1> QED
  BY <1>4 DEF limit

-----------------------------------------------------------------------------

\* The invariant holds before the first request (ClientBuilder::connect).
LEMMA InitInv == ASSUME Headroom \in Nat, MaxIo \in Nat \ {0} PROVE Init => Inv
<1> SUFFICES ASSUME Init PROVE Inv
  OBVIOUS
<1>1. Types
  <2>1. builder.max \in 1..2 /\ builder.size \in 1..MaxIo
    BY DEF Init, MinorVersions
  <2>2. NoSize \in Channel
    BY DEF NoSize, Channel
  <2>3. own \in [Roles -> Nat] /\ granted \in [Roles -> Channel]
    BY <2>2 DEF Init, None
  <2>4. accepts \subseteq 1..2 /\ minor \in 1..2
    BY <2>1 DEF Init, MinorVersions
  <2>5. rec = [cause |-> rec.cause, back |-> rec.back, retry |-> rec.retry] /\ rec.back \in {"supported", "values"}
    BY DEF Init, NoRec
  <2> QED
    BY <2>1, <2>3, <2>4, <2>5 DEF Init, Types, Steps, Roles
<1>2. Known /\ Owned
  BY DEF Init, Known, Owned, Roles, None, Closing
<1>3. Straight /\ Checked /\ Dropping /\ Fitted
  BY DEF Init, Straight, Checked, Dropping, Fitted, Closing
<1>4. Descends
  BY DEF Init, Descends, MinorVersions
<1> QED
  BY <1>1, <1>2, <1>3, <1>4 DEF Inv

\* A DESTROY_SESSION takes the session or leaves its fate unsure, and touches no
\* other (destroy_session and its callers).
LEMMA Destroyed ==
    ASSUME NEW s, NEW worked \in BOOLEAN, NEW usable, Destroy(s, worked, usable)
    PROVE  live' \subseteq live /\ unsure \subseteq unsure' /\ (s \in unsure' \/ s \notin live')
<1>1. CASE worked
  BY <1>1 DEF Destroy
<1>2. CASE ~worked
  BY <1>2 DEF Destroy
<1> QED
  BY <1>1, <1>2

\* What connect_session's error leads to: another attempt of a recovery, the end
\* of connect, or the shutdown of the main session (Fails).
LEMMA Failed ==
    ASSUME Types, NEW e, Fails(e)
    PROVE  /\ minor' \in 1..2 /\ at' \in {"exchange", "done", "close"}
           /\ at' = "exchange" => role = "rebuilt" /\ minor' = builder.max
           /\ at' = "done" => role = "main"
           /\ at' = "close" => role # "main"
           /\ rec' = [cause |-> rec'.cause, back |-> rec'.back, retry |-> rec'.retry]
           /\ rec'.back \in {"supported", "values"}
<1>1. CASE Retries(e)
  BY <1>1 DEF Fails, Types, Retries
<1>2. CASE ~Retries(e)
  BY <1>2 DEF Fails, Types, Roles
<1> QED
  BY <1>1, <1>2

\* Giving one session up leaves the others (Option::take, a Client dropped).
LEMMA Emptied ==
    ASSUME Types, NEW r \in Roles, own' = [own EXCEPT ![r] = None]
    PROVE  own' \in [Roles -> Nat] /\ own'[r] = None /\ \A q \in Roles : q # r => own'[q] = own[q]
BY DEF Types, None

\* The same for what the server granted it.
LEMMA Ungranted ==
    ASSUME Types, NEW r \in Roles, granted' = [granted EXCEPT ![r] = NoSize]
    PROVE  granted' \in [Roles -> Channel] /\ \A q \in Roles : q # r => granted'[q] = granted[q]
<1>1. NoSize \in Channel
  BY DEF NoSize, Channel
<1> QED
  BY <1>1 DEF Types

\* connect_session's error keeps what the invariant says of steps and versions
\* once the role has no session (Fails).
LEMMA FailedInv ==
    ASSUME Inv, NEW e, Fails(e), calling = "connect", dropped = {}, own'[role] = None,
           own' \in [Roles -> Nat], granted' \in [Roles -> Channel], made' \in Nat, 0 \notin live',
           \A q \in Roles : q # role => own'[q] = own[q] /\ granted'[q] = granted[q],
           UNCHANGED <<builder, accepts, role, io, calling, dropped>>, Known'
    PROVE  Inv'
<1> USE DEF Roles
<1>1. /\ minor' \in 1..2 /\ at' \in {"exchange", "done", "close"}
      /\ at' = "exchange" => role = "rebuilt" /\ minor' = builder.max
      /\ at' = "done" => role = "main"
      /\ at' = "close" => role # "main"
      /\ rec' = [cause |-> rec'.cause, back |-> rec'.back, retry |-> rec'.retry]
      /\ rec'.back \in {"supported", "values"}
  BY Failed DEF Inv
<1>2. Types'
  BY <1>1 DEF Inv, Types, Steps
<1>3. Owned'
  BY <1>1 DEF Inv, Owned, Types, Closing
<1>4. Straight' /\ Checked' /\ Dropping'
  BY <1>1 DEF Straight, Checked, Dropping, Building, Failing, Closing
<1>5. Descends'
  BY <1>1 DEF Inv, Types, Descends, Building
<1>6. Fitted'
  <2>1. role = "keeper" => granted'["main"] = granted["main"]
    OBVIOUS
  <2> QED
    BY <1>1, <2>1 DEF Inv, Fitted, Room
<1> QED
  BY <1>2, <1>3, <1>4, <1>5, <1>6 DEF Inv

\* Setting one session up keeps the invariant, for the main session, the keeper's
\* and a rebuilt one (connect_session, connect_session_minor).
LEMMA SetUpInv ==
    ASSUME Headroom \in Nat, MaxIo \in Nat \ {0}, Sizes \subseteq Nat, Inv, SetUp
    PROVE  Inv'
<1> USE DEF Inv, Roles, None
<1>1. CASE Connect
  <2>1. Types'
    BY <1>1 DEF Connect, Types, Steps
  <2>2. Known'
    BY <1>1 DEF Connect, Known
  <2>3. Owned'
    BY <1>1 DEF Connect, Owned, Straight, Building, Failing, Closing
  <2>4. Straight'
    BY <1>1 DEF Connect, Straight, Building, Failing, Closing
  <2>5. Descends'
    BY <1>1 DEF Connect, Descends, Building
  <2>6. Checked'
    BY <1>1 DEF Connect, Checked, Wide
  <2>7. Dropping'
    BY <1>1 DEF Connect, Dropping, Straight, Building, Failing, Closing
  <2>8. Fitted'
    BY <1>1 DEF Connect, Fitted, Room, Owned
  <2> QED
    BY <2>1, <2>2, <2>3, <2>4, <2>5, <2>6, <2>7, <2>8
<1>2. CASE Exchange
  <2>1. CASE minor \in accepts /\ at' = "create" /\ UNCHANGED <<minor, rec>>
    <3>1. Types' /\ Known' /\ Owned'
      BY <1>2, <2>1 DEF Exchange, Types, Steps, Known, Owned, Closing
    <3>2. Straight' /\ Checked' /\ Dropping' /\ Fitted'
      BY <1>2, <2>1 DEF Exchange, Straight, Checked, Dropping, Fitted, Room, Building, Failing, Closing
    <3>3. Descends'
      BY <1>2, <2>1 DEF Exchange, Descends, Building
    <3> QED
      BY <3>1, <3>2, <3>3
  <2>2. CASE minor \notin accepts /\ HasNextMinor /\ minor' = minor - 1 /\ UNCHANGED <<at, rec>>
    <3>1. minor' \in 1..2
      BY <2>2 DEF HasNextMinor, Types
    <3>2. Types' /\ Known' /\ Owned'
      BY <1>2, <2>2, <3>1 DEF Exchange, Types, Known, Owned, Closing
    <3>3. Straight' /\ Checked' /\ Dropping' /\ Fitted'
      BY <1>2, <2>2 DEF Exchange, Straight, Checked, Wide, Dropping, Fitted, Room, Building, Failing, Closing
    <3>4. Descends'
      BY <1>2, <2>2, <3>1 DEF Exchange, Types, Descends, Building
    <3> QED
      BY <3>2, <3>3, <3>4
  <2>3. CASE \E e : Fails(e)
    <3>1. own[role] = None /\ calling = "connect" /\ dropped = {}
      BY <1>2 DEF Exchange, Owned, Straight, Building, Dropping
    <3>2. Known'
      BY <1>2 DEF Exchange, Known
    <3> QED
      BY <1>2, <2>3, <3>1, <3>2, FailedInv DEF Exchange, Types
  <2> QED
    BY <1>2, <2>1, <2>2, <2>3 DEF Exchange
<1>3. CASE CreateSession
  <2>0. at = "create" /\ own[role] = None /\ calling = "connect" /\ dropped = {} /\ NewSession \in Nat \ {0}
    BY <1>3 DEF CreateSession, NewSession, Types, Owned, Straight, Building, Dropping
  <2>1. CASE /\ live' = live \cup {NewSession} /\ made' = NewSession /\ UNCHANGED unsure
             /\ \E a \in [request : Sizes, response : Sizes, requests : 0..1, ops : 0..3] : CheckGranted(a)
    <3> PICK a \in [request : Sizes, response : Sizes, requests : 0..1, ops : 0..3] : CheckGranted(a)
      BY <2>1
    <3>0. own' = [own EXCEPT ![role] = NewSession] /\ UNCHANGED <<minor, rec, builder, accepts, role, calling, dropped, io>>
      BY <1>3 DEF CreateSession, CheckGranted
    <3>1. own' \in [Roles -> Nat] /\ own'[role] = NewSession /\ \A q \in Roles : q # role => own'[q] = own[q]
      BY <2>0, <3>0 DEF Types
    <3>2. a \in Channel
      <4>0. a.request \in Sizes /\ a.response \in Sizes
        OBVIOUS
      <4>a. a.requests \in 0..1 /\ a.ops \in 0..3
        OBVIOUS
      <4>b. a.requests \in Nat /\ a.ops \in Nat
        BY ONLY <4>a
      <4>1. a.request \in Nat /\ a.response \in Nat /\ a.requests \in Nat /\ a.ops \in Nat
        BY <4>0, <4>b
      <4>2. a = [request |-> a.request, response |-> a.response, requests |-> a.requests, ops |-> a.ops]
        OBVIOUS
      <4> QED
        BY <4>1, <4>2 DEF Channel
    <3>3. /\ granted' \in [Roles -> Channel] /\ \A q \in Roles : q # role => granted'[q] = granted[q]
          /\ at' \in {"undo", AfterCheck} /\ (at' # "undo" => Wide(role)')
      <4>1. CASE at' = "undo" /\ UNCHANGED granted
        BY <4>1 DEF Types
      <4>2. CASE validate_session_channel_attrs(a) /\ at' = AfterCheck /\ granted' = [granted EXCEPT ![role] = a]
        <5>1. granted' \in [Roles -> Channel] /\ granted'[role] = a /\ \A q \in Roles : q # role => granted'[q] = granted[q]
          BY <3>2, <4>2 DEF Types
        <5>2. a.request > Headroom /\ a.response > Headroom
          BY <4>2 DEF validate_session_channel_attrs
        <5> QED
          BY <3>0, <4>2, <5>1, <5>2 DEF Wide
      <4> QED
        BY <4>1, <4>2 DEF CheckGranted
    <3>4. /\ role = "main" => at' \in {"undo", "reclaim"}
          /\ role = "keeper" => at' \in {"undo", "match"}
          /\ role = "rebuilt" => at' \in {"undo", "complete"}
      BY <3>3 DEF AfterCheck
    <3>5. Types'
      BY <2>0, <2>1, <3>0, <3>1, <3>3, <3>4 DEF Types, Steps
    <3>6. Known'
      <4>1. live \subseteq unsure \cup dropped \cup {own[q] : q \in Roles \ {role}}
        BY <2>0 DEF Known, Types
      <4>2. \A q \in Roles \ {role} : own[q] \in {own'["main"], own'["keeper"], own'["rebuilt"]}
        BY <3>1
      <4>3. NewSession \in {own'["main"], own'["keeper"], own'["rebuilt"]}
        BY <3>1 DEF Types
      <4> QED
        BY <2>1, <3>0, <4>1, <4>2, <4>3 DEF Known
    <3>7. Owned'
      BY <3>0, <3>1, <3>4 DEF Types, Owned, Closing
    <3>8. Straight' /\ Dropping'
      BY <2>0, <3>0, <3>4 DEF Types, Straight, Dropping, Building, Failing, Closing
    <3>9. Descends'
      BY <2>0, <3>0, <3>4 DEF Types, Descends, Building
    <3>10. Checked'
      BY <3>0, <3>3, <3>4 DEF Types, Checked
    <3>11. Fitted'
      BY <3>0, <3>3, <3>4 DEF Types, Fitted, Room
    <3> QED
      BY <3>5, <3>6, <3>7, <3>8, <3>9, <3>10, <3>11
  <2>2. CASE Fails("refused") /\ UNCHANGED <<granted, live, own, unsure, made>>
    <3>1. Known'
      BY <1>3, <2>2 DEF CreateSession, Known
    <3> QED
      BY <1>3, <2>0, <2>2, <3>1, FailedInv DEF CreateSession, Types
  <2>3. CASE /\ live' \in {live, live \cup {NewSession}} /\ made' = NewSession
             /\ unsure' = unsure \cup {NewSession} /\ Fails("transport") /\ UNCHANGED <<granted, own>>
    <3>1. Known' /\ 0 \notin live'
      BY <1>3, <2>0, <2>3 DEF CreateSession, Known, Types
    <3> QED
      BY <1>3, <2>0, <2>3, <3>1, FailedInv DEF CreateSession, Types
  <2> QED
    BY <1>3, <2>1, <2>2, <2>3 DEF CreateSession
<1>4. CASE ReclaimComplete
  <2>1. Types'
    BY <1>4 DEF ReclaimComplete, Types, Steps
  <2>2. Known'
    BY <1>4 DEF ReclaimComplete, Known
  <2>3. Owned'
    BY <1>4 DEF ReclaimComplete, Owned, Straight, Building, Failing, Closing
  <2>4. Straight'
    BY <1>4 DEF ReclaimComplete, Straight, Building, Failing, Closing
  <2>5. Descends'
    BY <1>4 DEF ReclaimComplete, Descends, Building
  <2>6. Checked'
    BY <1>4 DEF ReclaimComplete, Checked, Wide
  <2>7. Dropping'
    BY <1>4 DEF ReclaimComplete, Dropping, Straight, Building, Failing, Closing
  <2>8. Fitted'
    BY <1>4 DEF ReclaimComplete, Fitted, Room, Owned
  <2> QED
    BY <2>1, <2>2, <2>3, <2>4, <2>5, <2>6, <2>7, <2>8
<1>5. CASE Undo
  <2> PICK worked \in BOOLEAN : Destroy(own[role], worked, error # "transport") /\ Fails(IF worked THEN error ELSE "cleanup")
    BY <1>5 DEF Undo
  <2>1. live' \subseteq live /\ unsure \subseteq unsure' /\ (own[role] \in unsure' \/ own[role] \notin live')
    BY Destroyed
  <2>2. own' \in [Roles -> Nat] /\ own'[role] = None /\ \A q \in Roles : q # role => own'[q] = own[q]
    BY <1>5, Emptied DEF Undo, Types
  <2>3. granted' \in [Roles -> Channel] /\ \A q \in Roles : q # role => granted'[q] = granted[q]
    BY <1>5, Ungranted DEF Undo, Types
  <2>4. calling = "connect" /\ dropped = {}
    BY <1>5 DEF Undo, Straight, Failing, Dropping
  <2>5. UNCHANGED <<builder, accepts, role, io, calling, dropped, made>>
    BY <1>5 DEF Undo
  <2>6. Known'
    BY <2>1, <2>2, <2>5 DEF Known, Types
  <2> HIDE DEF Inv
  <2>7. made' \in Nat /\ 0 \notin live'
    BY <2>1, <2>5 DEF Inv, Types
  <2> QED
    BY <2>2, <2>3, <2>4, <2>5, <2>6, <2>7, FailedInv
<1> QED
  BY <1>1, <1>2, <1>3, <1>4, <1>5 DEF SetUp

\* Reading the root's attributes and recovering a session meanwhile keep the
\* invariant (refresh_root_fsinfo, compound_status, recover_session).
LEMMA FsinfoInv ==
    ASSUME Headroom \in Nat, MaxIo \in Nat \ {0}, Sizes \subseteq Nat, Inv, Fsinfo
    PROVE  Inv'
<1> USE DEF Inv, Roles, None
<1>1. CASE FsinfoFails
  <2>1. Types'
    BY <1>1 DEF FsinfoFails, CloseWith, Recover, Types, Steps
  <2>2. Known'
    BY <1>1 DEF FsinfoFails, CloseWith, Recover, Known
  <2>3. Owned'
    BY <1>1 DEF FsinfoFails, CloseWith, Recover, Owned, Straight, Building, Failing, Closing
  <2>4. Straight'
    BY <1>1 DEF FsinfoFails, CloseWith, Recover, Straight, Building, Failing, Closing
  <2>5. Descends'
    BY <1>1 DEF FsinfoFails, CloseWith, Recover, Descends, Building, Types
  <2>6. Checked'
    BY <1>1 DEF FsinfoFails, CloseWith, Recover, Checked, Wide
  <2>7. Dropping'
    BY <1>1 DEF FsinfoFails, CloseWith, Recover, Dropping, Straight, Building, Failing, Closing
  <2>8. Fitted'
    BY <1>1 DEF FsinfoFails, CloseWith, Recover, Fitted, Room, Owned
  <2> QED
    BY <2>1, <2>2, <2>3, <2>4, <2>5, <2>6, <2>7, <2>8
<1>2. CASE ReadSupported
  <2>1. Types'
    BY <1>2 DEF ReadSupported, Types, Steps
  <2>2. Known'
    BY <1>2 DEF ReadSupported, Known
  <2>3. Owned'
    BY <1>2 DEF ReadSupported, Owned, Straight, Building, Failing, Closing
  <2>4. Straight'
    BY <1>2 DEF ReadSupported, Straight, Building, Failing, Closing
  <2>5. Descends'
    BY <1>2 DEF ReadSupported, Descends, Building
  <2>6. Checked'
    BY <1>2 DEF ReadSupported, Checked, Wide
  <2>7. Dropping'
    BY <1>2 DEF ReadSupported, Dropping, Straight, Building, Failing, Closing
  <2>8. Fitted'
    BY <1>2 DEF ReadSupported, Fitted, Room, Owned
  <2> QED
    BY <2>1, <2>2, <2>3, <2>4, <2>5, <2>6, <2>7, <2>8
<1>3. CASE ReadFsinfo
  <2>1. Types'
    BY <1>3 DEF ReadFsinfo, Types, Steps
  <2>2. Known'
    BY <1>3 DEF ReadFsinfo, Known
  <2>3. Owned'
    BY <1>3 DEF ReadFsinfo, Owned, Straight, Building, Failing, Closing
  <2>4. Straight'
    BY <1>3 DEF ReadFsinfo, Straight, Building, Failing, Closing
  <2>5. Descends'
    BY <1>3 DEF ReadFsinfo, Descends, Building, Types
  <2>6. Checked'
    BY <1>3 DEF ReadFsinfo, Checked, Wide
  <2>7. Dropping'
    BY <1>3 DEF ReadFsinfo, Dropping, Straight, Building, Failing, Closing
  <2>8. Fitted'
    <3> DEFINE fit(server, channel) == clamp_io_size(server, Min({builder.size, session_payload_limit(channel)}))
    <3>1. PICK r \in Sizes, w \in Sizes :
              io' = [read |-> fit(r, granted["main"].response), write |-> fit(w, granted["main"].request)]
      BY <1>3 DEF ReadFsinfo
    <3>2. /\ r \in Nat /\ w \in Nat /\ granted["main"].response > Headroom /\ granted["main"].request > Headroom
          /\ granted["main"].response \in Nat /\ granted["main"].request \in Nat /\ builder.size \in 1..MaxIo
      BY <1>3 DEF ReadFsinfo, Checked, Wide, Types, Channel
    <3>3. /\ fit(r, granted["main"].response) \in 1..builder.size
          /\ fit(r, granted["main"].response) + Headroom <= granted["main"].response
      BY <3>2, TransferFits
    <3>4. /\ fit(w, granted["main"].request) \in 1..builder.size
          /\ fit(w, granted["main"].request) + Headroom <= granted["main"].request
      BY <3>2, TransferFits
    <3> HIDE DEF fit
    <3>5. io'.read = fit(r, granted["main"].response) /\ io'.write = fit(w, granted["main"].request)
      BY <3>1
    <3>6. UNCHANGED <<granted, builder>>
      BY <1>3 DEF ReadFsinfo
    <3>7. Room'
      BY <3>3, <3>4, <3>5, <3>6 DEF Room
    <3> QED
      BY <3>7 DEF Fitted
  <2> QED
    BY <2>1, <2>2, <2>3, <2>4, <2>5, <2>6, <2>7, <2>8
<1>4. CASE CompleteRecovery
  <2>1. CASE at' = "swap" /\ UNCHANGED <<error, dropped, own, granted>>
    <3>0. at = "complete" /\ UNCHANGED <<builder, accepts, role, minor, io, live, unsure, made, rec, calling>>
      BY <1>4 DEF CompleteRecovery
    <3>1. Types' /\ Known' /\ Owned'
      BY <2>1, <3>0 DEF Types, Steps, Known, Owned, Closing
    <3>2. Straight' /\ Checked' /\ Dropping' /\ Fitted'
      BY <2>1, <3>0 DEF Straight, Checked, Wide, Dropping, Fitted, Room, Building, Closing
    <3>3. Descends'
      BY <2>1, <3>0 DEF Descends, Building
    <3> QED
      BY <3>1, <3>2, <3>3
  <2>2. CASE Drop("rebuilt") /\ at' = "close"
    <3>0. own' \in [Roles -> Nat] /\ own'["rebuilt"] = None /\ \A q \in Roles : q # "rebuilt" => own'[q] = own[q]
      BY <2>2, Emptied DEF Drop
    <3>1. granted' \in [Roles -> Channel] /\ granted'["main"] = granted["main"]
      BY <2>2, Ungranted DEF Drop
    <3>2. dropped = {} /\ calling = "connect" /\ role = "rebuilt"
      BY <1>4 DEF CompleteRecovery, Dropping, Straight, Building, Owned
    <3>3. UNCHANGED <<builder, accepts, role, minor, io, live, unsure, made, rec, calling>>
      BY <1>4 DEF CompleteRecovery
    <3>4. dropped' = dropped \cup {own["rebuilt"]}
      BY <2>2 DEF Drop
    <3>5. Types'
      BY <2>2, <3>0, <3>1, <3>3 DEF Types, Steps
    <3>6. Known'
      BY <3>0, <3>3, <3>4 DEF Known
    <3>7. Owned'
      BY <2>2, <3>0, <3>2, <3>3 DEF Owned, Closing
    <3>8. Straight' /\ Checked' /\ Descends'
      BY <2>2, <3>2, <3>3 DEF Straight, Checked, Descends, Building, Closing
    <3>9. Dropping'
      BY <2>2, <3>2, <3>3, <3>4 DEF Dropping
    <3>10. Fitted'
      BY <2>2, <3>1, <3>3 DEF Fitted, Room
    <3> QED
      BY <3>5, <3>6, <3>7, <3>8, <3>9, <3>10
  <2> QED
    BY <1>4, <2>1, <2>2 DEF CompleteRecovery
<1>5. CASE Swap
  <2> PICK worked \in BOOLEAN : Destroy(own["main"], worked, ~broken)
    BY <1>5 DEF Swap
  <2>0. live' \subseteq live /\ unsure \subseteq unsure' /\ (own["main"] \in unsure' \/ own["main"] \notin live')
    BY Destroyed
  <2>a. /\ own' \in [Roles -> Nat] /\ own'["main"] = own["rebuilt"]
        /\ own'["keeper"] = own["keeper"] /\ own'["rebuilt"] = None
    BY <1>5 DEF Swap, Types
  <2>b. granted' \in [Roles -> Channel] /\ granted'["main"] = granted["rebuilt"]
    <3>1. NoSize \in Channel
      BY DEF NoSize, Channel
    <3> QED
      BY <1>5, <3>1 DEF Swap, Types
  <2>c. UNCHANGED <<builder, accepts, minor, dropped, made, calling>>
    BY <1>5 DEF Swap
  <2>d. at' \in {"supported", "values"} /\ role' = "main" /\ role = "rebuilt"
    BY <1>5 DEF Swap, Types, Owned
  <2>e. rec' = [cause |-> rec'.cause, back |-> rec'.back, retry |-> rec'.retry] /\ rec'.back \in {"supported", "values"}
    BY <1>5 DEF Swap, NoRec
  <2>1. Types'
    BY <2>0, <2>a, <2>b, <2>c, <2>d, <2>e DEF Types, Steps
  <2>2. Known'
    BY <2>0, <2>a, <2>c DEF Known
  <2>3. Owned'
    BY <2>a, <2>d DEF Owned, Closing
  <2>4. Straight' /\ Dropping'
    BY <1>5, <2>c, <2>d DEF Swap, Straight, Dropping, Building, Closing
  <2>5. Descends'
    BY <1>5, <2>c, <2>d DEF Swap, Descends, Building
  <2>6. Checked'
    BY <1>5, <2>b, <2>d DEF Swap, Checked, Wide
  <2>7. Fitted'
    BY <2>d DEF Fitted
  <2> QED
    BY <2>1, <2>2, <2>3, <2>4, <2>5, <2>6, <2>7
<1> QED
  BY <1>1, <1>2, <1>3, <1>4, <1>5 DEF Fsinfo

\* Starting the keeper, giving a failed connect up and shutting down keep the
\* invariant (start_lease_renewal, connect_with_builder, shutdown,
\* destroy_client_id).
LEMMA EndInv ==
    ASSUME Headroom \in Nat, MaxIo \in Nat \ {0}, Sizes \subseteq Nat, Inv, 
           MatchKeeper \/ CloseKeeper \/ CloseMain \/ Shutdown \/ StopKeeper \/ DestroyMain \/ DestroyClient
    PROVE  Inv'
<1> USE DEF Inv, Roles, None
<1>1. CASE MatchKeeper
  <2>1. CASE at' \in {"connected", "closeKeeper"} /\ UNCHANGED <<dropped, own, granted>>
    <3>0. at = "match" /\ UNCHANGED <<builder, accepts, role, minor, io, live, unsure, made, rec, calling>>
      BY <1>1 DEF MatchKeeper
    <3>1. Types' /\ Known' /\ Owned'
      BY <2>1, <3>0 DEF Types, Steps, Known, Owned, Closing
    <3>2. Straight' /\ Checked' /\ Dropping' /\ Fitted'
      BY <2>1, <3>0 DEF Straight, Checked, Dropping, Fitted, Room, Owned, Building, Failing, Closing
    <3>3. Descends'
      BY <2>1, <3>0 DEF Descends, Building
    <3> QED
      BY <3>1, <3>2, <3>3
  <2>2. CASE Drop("keeper") /\ at' = "close"
    <3>0. own' \in [Roles -> Nat] /\ own'["keeper"] = None /\ \A q \in Roles : q # "keeper" => own'[q] = own[q]
      BY <2>2, Emptied DEF Drop
    <3>1. granted' \in [Roles -> Channel] /\ granted'["main"] = granted["main"]
      BY <2>2, Ungranted DEF Drop
    <3>2. dropped = {} /\ calling = "connect" /\ role = "keeper"
      BY <1>1 DEF MatchKeeper, Dropping, Straight, Building, Owned
    <3>3. UNCHANGED <<builder, accepts, role, minor, io, live, unsure, made, rec, calling>>
      BY <1>1 DEF MatchKeeper
    <3>4. dropped' = dropped \cup {own["keeper"]}
      BY <2>2 DEF Drop
    <3>5. Types'
      BY <2>2, <3>0, <3>1, <3>3 DEF Types, Steps
    <3>6. Known'
      BY <3>0, <3>3, <3>4 DEF Known
    <3>7. Owned'
      BY <2>2, <3>0, <3>2, <3>3 DEF Owned, Closing
    <3>8. Straight' /\ Checked' /\ Descends'
      BY <2>2, <3>2, <3>3 DEF Straight, Checked, Descends, Building, Closing
    <3>9. Dropping'
      BY <2>2, <3>2, <3>3, <3>4 DEF Dropping
    <3>10. Fitted'
      BY <2>2, <3>1, <3>3 DEF Fitted, Room
    <3> QED
      BY <3>5, <3>6, <3>7, <3>8, <3>9, <3>10
  <2> QED
    BY <1>1, <2>1, <2>2 DEF MatchKeeper
<1>2. CASE CloseKeeper
  <2> PICK worked \in BOOLEAN : Destroy(own["keeper"], worked, TRUE)
    BY <1>2 DEF CloseKeeper
  <2>a. live' \subseteq live /\ unsure \subseteq unsure' /\ (own["keeper"] \in unsure' \/ own["keeper"] \notin live')
    BY Destroyed
  <2>b. /\ own' \in [Roles -> Nat] /\ own'["keeper"] = None
        /\ own'["main"] = own["main"] /\ own'["rebuilt"] = own["rebuilt"]
    BY <1>2, Emptied DEF CloseKeeper
  <2>c. granted' \in [Roles -> Channel] /\ granted'["main"] = granted["main"]
    BY <1>2, Ungranted DEF CloseKeeper
  <2>x. UNCHANGED <<builder, accepts, role, minor, io, dropped, made, rec, calling>>
    BY <1>2 DEF CloseKeeper
  <2>y. at = "closeKeeper" /\ at' = "close"
    BY <1>2 DEF CloseKeeper
  <2>1. Types'
    BY <2>a, <2>b, <2>c, <2>x, <2>y DEF Types, Steps
  <2>2. Known'
    BY <2>a, <2>b, <2>c, <2>x, <2>y DEF Known
  <2>3. Owned'
    BY <2>a, <2>b, <2>c, <2>x, <2>y DEF Owned, Straight, Building, Failing, Closing
  <2>4. Straight'
    BY <2>a, <2>b, <2>c, <2>x, <2>y DEF Straight, Building, Failing, Closing
  <2>5. Descends'
    BY <2>a, <2>b, <2>c, <2>x, <2>y DEF Descends, Building
  <2>6. Checked'
    BY <2>a, <2>b, <2>c, <2>x, <2>y DEF Checked, Wide
  <2>7. Dropping'
    BY <2>a, <2>b, <2>c, <2>x, <2>y DEF Dropping, Straight, Closing
  <2>8. Fitted'
    BY <2>a, <2>b, <2>c, <2>x, <2>y DEF Fitted, Room, Owned
  <2> QED
    BY <2>1, <2>2, <2>3, <2>4, <2>5, <2>6, <2>7, <2>8
<1>3. CASE CloseMain
  <2> PICK worked \in BOOLEAN : Destroy(own["main"], worked, ~broken)
    BY <1>3 DEF CloseMain
  <2>a. live' \subseteq live /\ unsure \subseteq unsure' /\ (own["main"] \in unsure' \/ own["main"] \notin live')
    BY Destroyed
  <2>b. /\ own' \in [Roles -> Nat] /\ own'["main"] = None
        /\ own'["keeper"] = own["keeper"] /\ own'["rebuilt"] = own["rebuilt"]
    BY <1>3, Emptied DEF CloseMain
  <2>x. UNCHANGED <<builder, accepts, role, minor, io, dropped, made, rec, calling, granted>>
    BY <1>3 DEF CloseMain
  <2>y. at = "close" /\ at' = "done"
    BY <1>3 DEF CloseMain
  <2>1. Types'
    BY <2>a, <2>b, <2>x, <2>y DEF Types, Steps
  <2>2. Known'
    BY <2>a, <2>b, <2>x, <2>y DEF Known
  <2>3. Owned'
    BY <2>a, <2>b, <2>x, <2>y DEF Owned, Straight, Building, Failing, Closing
  <2>4. Straight'
    BY <2>a, <2>b, <2>x, <2>y DEF Straight, Building, Failing, Closing
  <2>5. Descends'
    BY <2>a, <2>b, <2>x, <2>y DEF Descends, Building
  <2>6. Checked'
    BY <2>a, <2>b, <2>x, <2>y DEF Checked, Wide
  <2>7. Dropping'
    BY <2>a, <2>b, <2>x, <2>y DEF Dropping, Straight, Closing
  <2>8. Fitted'
    BY <2>a, <2>b, <2>x, <2>y DEF Fitted, Room, Owned
  <2> QED
    BY <2>1, <2>2, <2>3, <2>4, <2>5, <2>6, <2>7, <2>8
<1>4. CASE Shutdown
  <2>x. UNCHANGED <<builder, accepts, role, minor, io, dropped, made, rec, own, granted, live, unsure>>
    BY <1>4 DEF Shutdown
  <2>y. /\ at = "connected" /\ at' = IF own["keeper"] = None THEN "destroyMain" ELSE "stopKeeper"
        /\ calling' \in {"shutdown", "destroy_client_id"}
    BY <1>4 DEF Shutdown
  <2>1. Types'
    BY <2>x, <2>y DEF Types, Steps
  <2>2. Known'
    BY <2>x, <2>y DEF Known
  <2>3. Owned'
    BY <2>x, <2>y DEF Owned, Straight, Building, Failing, Closing
  <2>4. Straight'
    BY <2>x, <2>y DEF Straight, Building, Failing, Closing
  <2>5. Descends'
    BY <2>x, <2>y DEF Descends, Building
  <2>6. Checked'
    BY <2>x, <2>y DEF Checked, Wide
  <2>7. Dropping'
    BY <2>x, <2>y DEF Dropping, Straight, Closing
  <2>8. Fitted'
    BY <2>x, <2>y DEF Fitted, Room, Owned
  <2> QED
    BY <2>1, <2>2, <2>3, <2>4, <2>5, <2>6, <2>7, <2>8
<1>5. CASE StopKeeper
  <2> PICK worked \in BOOLEAN : Destroy(own["keeper"], worked, TRUE)
    BY <1>5 DEF StopKeeper
  <2>a. live' \subseteq live /\ unsure \subseteq unsure' /\ (own["keeper"] \in unsure' \/ own["keeper"] \notin live')
    BY Destroyed
  <2>b. /\ own' \in [Roles -> Nat] /\ own'["keeper"] = None
        /\ own'["main"] = own["main"] /\ own'["rebuilt"] = own["rebuilt"]
    BY <1>5, Emptied DEF StopKeeper
  <2>x. UNCHANGED <<builder, accepts, role, minor, io, dropped, made, rec, calling, granted>>
    BY <1>5 DEF StopKeeper
  <2>y. at = "stopKeeper" /\ (at' = "destroyMain" \/ (at' = "done" /\ error' = "refused"))
    BY <1>5 DEF StopKeeper
  <2>1. Types'
    BY <2>a, <2>b, <2>x, <2>y DEF Types, Steps
  <2>2. Known'
    BY <2>a, <2>b, <2>x, <2>y DEF Known
  <2>3. Owned'
    BY <2>a, <2>b, <2>x, <2>y DEF Owned, Straight, Building, Failing, Closing
  <2>4. Straight'
    BY <2>a, <2>b, <2>x, <2>y DEF Straight, Building, Failing, Closing
  <2>5. Descends'
    BY <2>a, <2>b, <2>x, <2>y DEF Descends, Building
  <2>6. Checked'
    BY <2>a, <2>b, <2>x, <2>y DEF Checked, Wide
  <2>7. Dropping'
    BY <2>a, <2>b, <2>x, <2>y DEF Dropping, Straight, Closing
  <2>8. Fitted'
    BY <2>a, <2>b, <2>x, <2>y DEF Fitted, Room, Owned
  <2> QED
    BY <2>1, <2>2, <2>3, <2>4, <2>5, <2>6, <2>7, <2>8
<1>6. CASE DestroyMain
  <2> PICK worked \in BOOLEAN : Destroy(own["main"], worked, TRUE)
    BY <1>6 DEF DestroyMain
  <2>a. live' \subseteq live /\ unsure \subseteq unsure' /\ (own["main"] \in unsure' \/ own["main"] \notin live')
    BY Destroyed
  <2>b. /\ own' \in [Roles -> Nat] /\ own'["main"] = None
        /\ own'["keeper"] = own["keeper"] /\ own'["rebuilt"] = own["rebuilt"]
    BY <1>6, Emptied DEF DestroyMain
  <2>x. UNCHANGED <<builder, accepts, role, minor, io, dropped, made, rec, calling, granted>>
    BY <1>6 DEF DestroyMain
  <2>y. at = "destroyMain" /\ at' \in {"destroyClient", "done"}
    BY <1>6 DEF DestroyMain
  <2>1. Types'
    BY <2>a, <2>b, <2>x, <2>y DEF Types, Steps
  <2>2. Known'
    BY <2>a, <2>b, <2>x, <2>y DEF Known
  <2>3. Owned'
    BY <2>a, <2>b, <2>x, <2>y DEF Owned, Straight, Building, Failing, Closing
  <2>4. Straight'
    BY <2>a, <2>b, <2>x, <2>y DEF Straight, Building, Failing, Closing
  <2>5. Descends'
    BY <2>a, <2>b, <2>x, <2>y DEF Descends, Building
  <2>6. Checked'
    BY <2>a, <2>b, <2>x, <2>y DEF Checked, Wide
  <2>7. Dropping'
    BY <2>a, <2>b, <2>x, <2>y DEF Dropping, Straight, Closing
  <2>8. Fitted'
    BY <2>a, <2>b, <2>x, <2>y DEF Fitted, Room, Owned
  <2> QED
    BY <2>1, <2>2, <2>3, <2>4, <2>5, <2>6, <2>7, <2>8
<1>7. CASE DestroyClient
  <2>x. UNCHANGED <<builder, accepts, role, minor, io, dropped, made, rec, calling, granted, own, live, unsure>>
    BY <1>7 DEF DestroyClient
  <2>y. at = "destroyClient" /\ at' = "done"
    BY <1>7 DEF DestroyClient
  <2>1. Types'
    BY <2>x, <2>y DEF Types, Steps
  <2>2. Known'
    BY <2>x, <2>y DEF Known
  <2>3. Owned'
    BY <2>x, <2>y DEF Owned, Straight, Building, Failing, Closing
  <2>4. Straight'
    BY <2>x, <2>y DEF Straight, Building, Failing, Closing
  <2>5. Descends'
    BY <2>x, <2>y DEF Descends, Building
  <2>6. Checked'
    BY <2>x, <2>y DEF Checked, Wide
  <2>7. Dropping'
    BY <2>x, <2>y DEF Dropping, Straight, Closing
  <2>8. Fitted'
    BY <2>x, <2>y DEF Fitted, Room, Owned
  <2> QED
    BY <2>1, <2>2, <2>3, <2>4, <2>5, <2>6, <2>7, <2>8
<1> QED
  BY <1>1, <1>2, <1>3, <1>4, <1>5, <1>6, <1>7

\* The invariant says of a call that is over what NoSessionLeft does, and of a
\* connected client what TransfersFit does (connect_with_builder, shutdown,
\* apply_fsinfo_limits).
LEMMA InvSafe == Inv => NoSessionLeft /\ TransfersFit
<1> SUFFICES ASSUME Inv PROVE NoSessionLeft /\ TransfersFit
  OBVIOUS
<1>1. at = "done" /\ (calling = "connect" \/ error = "ok") => live \subseteq unsure \cup dropped
  BY DEF Inv, Types, Known, Owned, Roles, None
<1>2. TransfersFit
  BY DEF Inv, Fitted, Room, TransfersFit
<1> QED
  BY <1>1, <1>2 DEF Inv, Dropping, NoSessionLeft

\* The highest version that was accepted is the largest accepted one
\* (connect_session goes down from max_minor_version).
LEMMA InvHighest == Inv => HighestMinor
<1> SUFFICES ASSUME Inv, at = "connected" PROVE minor = Max({v \in accepts : v <= builder.max})
  BY DEF HighestMinor
<1> DEFINE S == {v \in accepts : v <= builder.max}
<1>1. minor \in S /\ \A v \in S : minor >= v /\ v \in 1..2
  BY DEF Inv, Types, Descends, Building
<1>2. \A x \in S : (\A y \in S : x >= y) => x = minor
  BY <1>1
<1> HIDE DEF S
<1>3. Max(S) = minor
  BY <1>1, <1>2 DEF Max
<1> QED
  BY <1>3 DEF S

\* For channel, transfer and head-room sizes of any width and any number of
\* reconnections: a connect that fails and a shutdown that returns Ok leave no
\* session at the server but those whose CREATE_SESSION reply was lost or whose
\* DESTROY_SESSION failed, and one more at most, only after a failed connect that
\* dropped it; a connected client uses the highest version both sides speak, and
\* its transfers fit the channel of its own session, rebuilt or not
\* (connect_session, start_lease_renewal, recover_session, shutdown,
\* apply_fsinfo_limits).
THEOREM SetupSafe ==
    ASSUME Headroom \in Nat, MaxIo \in Nat \ {0}, Sizes \subseteq Nat
    PROVE  Spec => [](NoSessionLeft /\ HighestMinor /\ TransfersFit)
<1>1. Init => Inv
  BY InitInv
<1>2. ASSUME Inv, [Next]_vars PROVE Inv'
  <2>1. CASE UNCHANGED vars
    <3> USE <1>2, <2>1 DEF vars, Inv
    <3>1. Types'
      BY DEF Types
    <3>2. Known' /\ Dropping'
      BY DEF Known, Dropping
    <3>3. Owned'
      BY DEF Owned
    <3>4. Straight' /\ Descends'
      BY DEF Straight, Descends
    <3>5. Checked' /\ Fitted'
      BY DEF Checked, Wide, Fitted, Room
    <3> QED
      BY <3>1, <3>2, <3>3, <3>4, <3>5
  <2> QED
    BY <1>2, <2>1, SetUpInv, FsinfoInv, EndInv DEF Next
<1>3. Inv => NoSessionLeft /\ HighestMinor /\ TransfersFit
  BY InvSafe, InvHighest
<1> QED
  BY <1>1, <1>2, <1>3, PTL DEF Spec
=============================================================================
