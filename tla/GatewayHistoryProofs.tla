------------------------ MODULE GatewayHistoryProofs ------------------------
(***************************************************************************)
(* Proofs about GatewaySessions, continued: a session carries its history  *)
(* on, what deltas are made against, stored totals are right.              *)
(***************************************************************************)
EXTENDS GatewayProofs

(* The answered turns of a session.                                        *)
Heard(id) == {q \in Sent : Answered(q) /\ request[q].id = id}

(* The runtime of a handler that has registered is the live one of its     *)
(* session, and live runtimes are of handlers that are no longer early.    *)
UsesLive ==
    /\ "timeouts" \notin env =>
          \A r \in Sent : request[r].phase \notin Early \cup {"loaded", "over"} =>
              live[request[r].at][request[r].id] = request[r].runtime
    /\ \A rep \in Replicas, id \in Ids : live[rep][id] # 0 =>
          request[live[rep][id]].phase \notin Early

(* A client that is kept on its replica has its sessions there only.       *)
AtHome ==
    "sticky" \in env =>
        /\ \A r \in Sent : InFlight(r) => home[request[r].by] = request[r].at
        /\ \A rep \in Replicas, id \in Ids : live[rep][id] # 0 =>
              home[request[live[rep][id]].by] = rep

Durable == {"redis", "sticky"} \subseteq env /\ env \cap {"lossy", "timeouts"} = {}

AfterAppend == {"answering", "dumping", "copying", "closing", "saving", "saved"}

InStore(id, q) ==
    store["redis"][id] # Nothing /\ q \in Turns(store["redis"][id])

(* What a loaded session holds, and where a turn is found once it is       *)
(* appended, once it is copied and once it is saved.                       *)
HistoryRow(r) ==
    LET q == request[r]
    IN  /\ q.phase = "loaded" => Heard(q.id) \subseteq Turns(SessionOf(r))
        /\ q.phase \in AfterAppend => r \in Turns(SessionOf(r))
        /\ q.phase \in {"closing", "saving"} =>
              Heard(q.id) \cup {r} \subseteq Turns(q.copy)
        /\ q.phase = "saved" \/ Answered(r) => InStore(q.id, r)

HistoryKept ==
    Durable =>
        /\ \A r \in Sent : HistoryRow(r)
        /\ \A rep \in Replicas, id \in Ids : live[rep][id] # 0 =>
              Heard(id) \subseteq Turns(runtime[live[rep][id]])

----------------------------------------------------------------------------
(* A handler that has found its runtime keeps it, and its session id.      *)
LEMMA HandlingLate ==
    ASSUME Basic, NEW r \in Requests, Handling(r), ~Find(r), ~Load(r)
    PROVE  /\ request'[r].id = request[r].id /\ request'[r].runtime = request[r].runtime
           /\ ids' = ids
           /\ Register(r) \/ (live' = live /\ request[r].phase # "loaded")
           /\ request[r].phase \notin Early \cup {"over"}
           /\ request[r].id # 0 /\ request[r].runtime \in Sent
<1>0. TypeOK /\ r \in Sent /\ Noted(r)
  BY HandlingOne DEF Basic, HandlerOK
<1>1. CASE Pack(r) \/ PackFails(r) \/ Number(r) \/ Answer(r) \/ Respond(r)
  BY <1>0, <1>1, PackEffect, PackFailsEffect, NumberEffect, AnswerEffect, RespondEffect
     DEF Keeps, Fields, clients, Early, Noted
<1>2. CASE RecordTotal(r)
  <2>1. Keeps(r, {"phase"}) /\ live' = live /\ ids' = ids /\ request[r].phase = "packed"
    BY <1>0, <1>2, RecordTotalEffect
  <2>. QED BY <1>0, <2>1 DEF Keeps, Fields, Early, Noted
<1>3. CASE AppendTurn(r)
  <2>1. Keeps(r, {"phase"}) /\ live' = live /\ ids' = ids /\ request[r].phase = "appending"
    BY <1>0, <1>3, AppendTurnEffect
  <2>. QED BY <1>0, <2>1 DEF Keeps, Fields, Early, Noted
<1>4. CASE Dump(r) \/ Save(r)
  <2>1. /\ Keeps(r, {"phase", "copy"}) /\ live' = live /\ ids' = ids
        /\ request[r].phase \in {"dumping", "copying", "closing", "saving"}
    BY <1>0, <1>4, DumpEffect, SaveEffect
  <2>. QED BY <1>0, <2>1 DEF Keeps, Fields, Early, Noted
<1>5. CASE Register(r)
  <2>1. Keeps(r, {"phase"}) /\ ids' = ids /\ request[r].phase = "loaded"
    BY <1>0, <1>5, RegisterEffect
  <2>. QED BY <1>0, <1>5, <2>1 DEF Keeps, Fields, Early, Noted
<1>. QED BY <1>1, <1>2, <1>3, <1>4, <1>5 DEF Handling

(* A live runtime is the one its creator has just registered, and goes     *)
(* with its replica only.                                                  *)
LEMMA LiveSteps ==
    ASSUME Basic, [Next]_vars, NEW rep \in Replicas, NEW id \in Ids,
           live'[rep][id] # live[rep][id]
    PROVE  \/ live'[rep][id] = 0 /\ Crash(rep)
           \/ \E r \in Sent : /\ Register(r) /\ live'[rep][id] = r
                              /\ rep = request[r].at /\ id = request[r].id
                              /\ request[r].phase = "loaded"
<1>0. TypeOK /\ Sent \subseteq Requests
  BY BasicFacts DEF Basic
<1>1. ASSUME NEW r \in Requests, Register(r)
      PROVE  \E x \in Sent : /\ Register(x) /\ live'[rep][id] = x
                             /\ rep = request[x].at /\ id = request[x].id
                             /\ request[x].phase = "loaded"
  <2>1. /\ live' = [live EXCEPT ![request[r].at][request[r].id] = r]
        /\ request[r].phase = "loaded"
    BY <1>0, <1>1, RegisterEffect
  <2>2. r \in Sent
    BY <1>0, <2>1, SentHandled
  <2>3. rep = request[r].at /\ id = request[r].id /\ live'[rep][id] = r
    BY <1>0, <2>1 DEF TypeOK
  <2>. QED BY <1>1, <2>1, <2>2, <2>3
<1>2. ASSUME NEW r \in Requests, Handling(r), ~Register(r) PROVE live' = live
  BY <1>2 DEF Handling, Find, Load, Pack, PackFails, RecordTotal, Number, AppendTurn,
              Answer, Dump, Save, Respond
<1>3. ASSUME NEW p \in Replicas, Crash(p) PROVE live'[rep][id] = 0 /\ p = rep
  BY Zenon, <1>0, <1>3 DEF Crash, TypeOK
<1>4. ASSUME NEW c \in Clients, NEW p \in Replicas, Send(c, p) PROVE live' = live
  BY <1>4 DEF Send
<1>5. ASSUME NEW c \in Clients, TimeOut(c) PROVE live' = live
  BY <1>5 DEF TimeOut
<1>6. ASSUME NEW lost \in Ids, Expire(lost) PROVE live' = live
  BY <1>6 DEF Expire
<1>7. CASE UNCHANGED vars
  BY <1>7 DEF vars
<1>. QED BY <1>1, <1>2, <1>3, <1>4, <1>5, <1>6, <1>7 DEF Next, Handling, Finished

(* Every step leaves handlers with live runtimes.                          *)
LEMMA NextUsesLive ==
    ASSUME Basic, Ownership, OneAtATime, UsesLive, [Next]_vars
    PROVE  UsesLive'
<1>0. /\ TypeOK /\ HandlerOK /\ Registered /\ Sent \subseteq Requests /\ Stable
      /\ Sent' \subseteq Requests /\ ids \in Nat
  BY BasicFacts, StepStable, SentNext DEF Basic
<1>1. ASSUME "timeouts" \notin env, NEW q \in Requests, q \in Sent',
             request'[q].phase \notin Early \cup {"loaded", "over"}
      PROVE  live'[request'[q].at][request'[q].id] = request'[q].runtime
  <2>1. CASE q \in Sent /\ request'[q] = request[q] /\ ~Handling(q)
    <3>1. /\ live[request[q].at][request[q].id] = request[q].runtime
          /\ request[q].runtime # 0 /\ request[q].id # 0
          /\ request[q].at \in Replicas /\ request[q].id \in 0..ids
          /\ request[q].id \in Ids
      BY <1>0, <1>1, <2>1, BasicFacts DEF UsesLive, HandlerOK, Noted, Ids
    <3>2. ASSUME NEW r \in Sent, Register(r), request[q].id = request[r].id,
                 request[r].phase = "loaded"
          PROVE  FALSE
      <4>1. r # q /\ InFlight(r) /\ InFlight(q)
        BY <1>1, <2>1, <3>2 DEF Handling, InFlight
      <4>. QED BY <1>1, <2>1, <3>1, <3>2, <4>1, OnlyOne
    <3>3. CASE Crash(request[q].at)
      <4>1. Dies(q, request[q].at)
        BY <1>1, <2>1 DEF Dies
      <4>. QED BY <1>0, <1>1, <2>1, <3>1, <3>3, <4>1, CrashOne
    <3>. QED BY <2>1, <3>1, <3>2, <3>3, LiveSteps
  <2>2. CASE q \in Sent /\ Handling(q) /\ ~Find(q) /\ ~Load(q) /\ ~Register(q)
    BY <1>0, <1>1, <2>2, HandlingLate DEF UsesLive, Stable
  <2>3. CASE q \in Sent /\ Find(q)
    BY <1>0, <1>1, <2>3, FindEffect DEF Keeps, Fields, Early
  <2>4. CASE q \in Sent /\ Load(q)
    <3>1. request'[q].phase = "loaded"
      BY <1>0, <2>4, LoadEffect
    <3>. QED BY <1>1, <3>1
  <2>6. CASE q \in Sent /\ Register(q)
    <3>1. /\ live' = [live EXCEPT ![request[q].at][request[q].id] = q]
          /\ request[q].phase = "loaded" /\ Keeps(q, {"phase"})
      BY <1>0, <2>6, RegisterEffect
    <3>2. /\ request'[q].at = request[q].at /\ request'[q].id = request[q].id
          /\ request'[q].runtime = request[q].runtime
      BY <3>1 DEF Keeps, Fields
    <3>3. /\ request[q].runtime = q /\ request[q].at \in Replicas
          /\ request[q].id \in Ids
      BY <1>0, <2>6, <3>1, BasicFacts DEF HandlerOK, Noted, Early, Ids
    <3>. QED BY <1>0, <3>1, <3>2, <3>3 DEF TypeOK
  <2>5. CASE Ended(q) \/ Began(q)
    BY <1>1, <2>5 DEF Ended, Began, Early
  <2>. QED BY <1>1, <2>1, <2>2, <2>3, <2>4, <2>5, <2>6, RequestSteps DEF Handling
<1>2. ASSUME NEW rep \in Replicas, NEW id \in Ids, live'[rep][id] # 0
      PROVE  request'[live'[rep][id]].phase \notin Early
  <2>1. CASE live'[rep][id] = live[rep][id]
    <3>1. PICK k \in Sent : k = live[rep][id] /\ request[k].phase \notin Early
      BY <1>2, <2>1 DEF UsesLive, Basic, Registered
    <3>2. k \in Requests /\ k \in Sent'
      BY <1>0 DEF Stable
    <3>3. ASSUME Handling(k) PROVE request'[k].phase \notin Early
      BY <1>0, <3>1, <3>2, <3>3, HandlingNoted
    <3>4. request'[k].phase \notin Early
      BY <3>1, <3>2, <3>3, RequestSteps DEF Ended, Early
    <3>. QED BY <2>1, <3>1, <3>4
  <2>2. CASE live'[rep][id] # live[rep][id]
    <3>1. PICK r \in Sent : Register(r) /\ live'[rep][id] = r
      BY <1>2, <2>2, LiveSteps
    <3>2. request'[r].phase = "found"
      BY <1>0, <3>1, RegisterEffect
    <3>. QED BY <3>1, <3>2 DEF Early
  <2>. QED BY <2>1, <2>2
<1>. QED BY <1>0, <1>1, <1>2 DEF UsesLive, Stable

(* Without timeouts handlers use live runtimes, always.                    *)
LEMMA AlwaysUsesLive == Spec => []UsesLive
<1>1. Init => UsesLive
  BY DEF Init, UsesLive, Sent
<1>. QED BY <1>1, NextUsesLive, AlwaysBasic, AlwaysOwnership, AlwaysOneAtATime, PTL DEF Spec

----------------------------------------------------------------------------
(* Clients at home.                                                        *)
LEMMA NextAtHome ==
    ASSUME Basic, Ownership, AtHome, [Next]_vars
    PROVE  AtHome'
<1>0. /\ TypeOK /\ Registered /\ Sent \subseteq Requests /\ Stable
      /\ Sent' \subseteq Requests
      /\ \A q \in Sent : request[q].by \in Clients /\ request[q].at \in Replicas
  BY BasicFacts, StepStable, SentNext DEF Basic
<1> SUFFICES ASSUME "sticky" \in env
             PROVE  /\ \A r \in Requests : r \in Sent' /\ request'[r].phase # "over" =>
                          home'[request'[r].by] = request'[r].at
                    /\ \A rep \in Replicas, id \in Ids : live'[rep][id] # 0 =>
                          home'[request'[live'[rep][id]].by] = rep
  BY <1>0 DEF AtHome, InFlight, Stable
<1>1. /\ \A r \in Sent : request[r].phase # "over" => home[request[r].by] = request[r].at
      /\ \A rep \in Replicas, id \in Ids : live[rep][id] # 0 =>
              /\ home[request[live[rep][id]].by] = rep
              /\ live[rep][id] \in Sent
              /\ request'[live[rep][id]].by = request[live[rep][id]].by
      /\ home \in [Clients -> Replicas \cup {Nothing}]
  BY <1>0 DEF AtHome, InFlight, Registered, Stable, TypeOK
<1>2. PICK owner \in [Ids -> Clients \cup {Nothing}] : Owned(owner)
  BY DEF Ownership
<1>3. ASSUME NEW c \in Clients, NEW p \in Replicas, Send(c, p)
      PROVE  /\ \A r \in Requests : r \in Sent' /\ request'[r].phase # "over" =>
                          home'[request'[r].by] = request'[r].at
             /\ \A rep \in Replicas, id \in Ids : live'[rep][id] # 0 =>
                          home'[request'[live'[rep][id]].by] = rep
  <2>1. PICK n : n = sent + 1
    OBVIOUS
  <2>2. /\ Sent' = Sent \cup {n} /\ n \notin Sent
        /\ \A q \in Requests \ {n} : request'[q] = request[q]
        /\ request'[n].by = c /\ request'[n].at = p
    BY <1>0, <1>3, <2>1, SendOne
  <2>3. /\ live' = live /\ home' = [home EXCEPT ![c] = p]
        /\ home[c] \in {Nothing, p} /\ Nothing \notin Replicas
    BY <1>3, SessionConstants DEF Send
  <2>4. ASSUME NEW r \in Requests, r \in Sent', request'[r].phase # "over"
        PROVE  home'[request'[r].by] = request'[r].at
    <3>1. CASE r = n
      BY <1>1, <2>2, <2>3, <3>1
    <3>2. CASE r # n
      BY <1>0, <1>1, <2>2, <2>3, <2>4, <3>2
    <3>. QED BY <3>1, <3>2
  <2>5. ASSUME NEW rep \in Replicas, NEW id \in Ids, live'[rep][id] # 0
        PROVE  home'[request'[live'[rep][id]].by] = rep
    BY <1>0, <1>1, <2>3, <2>5
  <2>. QED BY <2>4, <2>5
<1>4. ASSUME NEW p \in Replicas, Crash(p)
      PROVE  /\ \A r \in Requests : r \in Sent' /\ request'[r].phase # "over" =>
                          home'[request'[r].by] = request'[r].at
             /\ \A rep \in Replicas, id \in Ids : live'[rep][id] # 0 =>
                          home'[request'[live'[rep][id]].by] = rep
  <2>1. /\ \A c \in Clients : home'[c] = IF home[c] = p THEN Nothing ELSE home[c]
        /\ Sent' = Sent /\ live' = [live EXCEPT ![p] = [id \in Ids |-> 0]]
    BY Zenon, <1>4 DEF Crash, Sent
  <2>2. ASSUME NEW r \in Requests, r \in Sent', request'[r].phase # "over"
        PROVE  home'[request'[r].by] = request'[r].at
    <3>1. ~Dies(r, p) /\ request'[r] = request[r]
      BY <1>0, <1>4, <2>2, CrashOne
    <3>. QED BY <1>0, <1>1, <2>1, <2>2, <3>1 DEF Dies
  <2>3. ASSUME NEW rep \in Replicas, NEW id \in Ids, live'[rep][id] # 0
        PROVE  home'[request'[live'[rep][id]].by] = rep
    <3>1. rep # p /\ live'[rep][id] = live[rep][id]
      BY <1>0, <2>1, <2>3 DEF TypeOK
    <3>. QED BY <1>0, <1>1, <2>1, <2>3, <3>1
  <2>. QED BY <2>2, <2>3
<1>5. ASSUME home' = home,
             \A rep \in Replicas, id \in Ids : live'[rep][id] = 0
                 \/ live'[rep][id] = live[rep][id]
                 \/ \E r \in Sent : /\ live'[rep][id] = r /\ rep = request[r].at
                                    /\ request[r].phase # "over",
             \A r \in Requests : r \in Sent' /\ request'[r].phase # "over" =>
                 r \in Sent /\ request[r].phase # "over"
      PROVE  /\ \A r \in Requests : r \in Sent' /\ request'[r].phase # "over" =>
                          home'[request'[r].by] = request'[r].at
             /\ \A rep \in Replicas, id \in Ids : live'[rep][id] # 0 =>
                          home'[request'[live'[rep][id]].by] = rep
  <2>1. \A r \in Requests : r \in Sent' /\ request'[r].phase # "over" =>
                          home'[request'[r].by] = request'[r].at
    BY <1>0, <1>1, <1>5 DEF Stable
  <2>2. ASSUME NEW rep \in Replicas, NEW id \in Ids, live'[rep][id] # 0
        PROVE  home'[request'[live'[rep][id]].by] = rep
    <3>1. CASE live'[rep][id] = live[rep][id]
      BY <1>0, <1>1, <1>5, <2>2, <3>1
    <3>2. CASE \E r \in Sent : /\ live'[rep][id] = r /\ rep = request[r].at
                               /\ request[r].phase # "over"
      BY <1>0, <1>1, <1>5, <3>2 DEF Stable
    <3>. QED BY <1>5, <2>2, <3>1, <3>2
  <2>. QED BY <2>1, <2>2
<1>6. ASSUME \A c \in Clients, p \in Replicas : ~Send(c, p)
      PROVE  \A r \in Requests : r \in Sent' /\ request'[r].phase # "over" =>
                 r \in Sent /\ request[r].phase # "over"
  <2> SUFFICES ASSUME NEW r \in Requests, r \in Sent', request'[r].phase # "over"
               PROVE  r \in Sent /\ request[r].phase # "over"
    BY SMTT(30)
  <2>1. r \in Sent
    <3>1. ASSUME NEW x \in Requests, Handling(x) PROVE Sent' = Sent
      BY SMTT(30), <1>0, <3>1, HandlingOne DEF Sent
    <3>. QED BY Zenon, <1>6, <3>1 DEF Next, Handling, TimeOut, Crash, Expire, Finished, vars,
                              clients, Sent
  <2>. QED BY <2>1, OverFixed
<1>7. ASSUME NEW x \in Requests, Handling(x) PROVE home' = home
  BY Zenon, <1>7 DEF Handling, Find, Load, Register, Pack, PackFails, RecordTotal, Number,
              AppendTurn,
              Answer, Dump, Save, Respond, clients
<1>8. CASE \E x \in Requests : Handling(x)
  <2>1. \A c \in Clients, p \in Replicas : ~Send(c, p)
    <3>1. PICK x \in Requests : Handling(x)
      BY <1>8
    <3>2. sent' = sent /\ sent \in Nat
      BY <1>0, <3>1, HandlingOne, BasicFacts
    <3>. QED BY <3>2 DEF Send
  <2>3. \A rep \in Replicas, id \in Ids : live'[rep][id] = 0
                 \/ live'[rep][id] = live[rep][id]
                 \/ \E r \in Sent : /\ live'[rep][id] = r /\ rep = request[r].at
                                    /\ request[r].phase # "over"
    BY LiveSteps
  <2>. QED BY <1>5, <1>6, <1>7, <1>8, <2>1, <2>3
<1>9. ASSUME NEW c \in Clients, TimeOut(c)
      PROVE  /\ \A r \in Requests : r \in Sent' /\ request'[r].phase # "over" =>
                          home'[request'[r].by] = request'[r].at
             /\ \A rep \in Replicas, id \in Ids : live'[rep][id] # 0 =>
                          home'[request'[live'[rep][id]].by] = rep
  <2>1. home' = home /\ live' = live /\ Sent' = Sent
    BY <1>9 DEF TimeOut, Sent
  <2>. QED BY <1>5, <2>1, OverFixed
<1>10. CASE (\E id \in Ids : Expire(id)) \/ UNCHANGED vars
  <2>1. home' = home /\ live' = live /\ Sent' = Sent
    BY <1>10 DEF Expire, vars, clients, Sent
  <2>. QED BY <1>5, <2>1, OverFixed
<1>. QED BY <1>3, <1>4, <1>8, <1>9, <1>10 DEF Next, Handling, Finished

----------------------------------------------------------------------------
(* The answers of a session grow by the one that is given.                 *)
HeardNext(id) == {q \in Sent' : request'[q].status = 200 /\ request'[q].id = id}

(* An answer is added to the answered turns of a session by Respond only.  *)
LEMMA HeardSteps ==
    ASSUME Basic, [Next]_vars, NEW id
    PROVE  /\ Heard(id) \subseteq HeardNext(id)
           /\ \A q \in HeardNext(id) \ Heard(id) :
                 /\ q \in Sent /\ Respond(q) /\ request[q].phase = "saved"
                 /\ request[q].id = id /\ waiting[request[q].by] = q
<1>0. Sent \subseteq Sent' /\ Sent \subseteq Requests /\ TypeOK /\ HandlerOK
  BY BasicFacts, StepStable DEF Basic, Stable
<1>1. Heard(id) \subseteq HeardNext(id)
  BY <1>0, OverFixed DEF Heard, HeardNext, Answered
<1>2. ASSUME NEW q \in HeardNext(id) \ Heard(id)
      PROVE  /\ q \in Sent /\ Respond(q) /\ request[q].phase = "saved"
             /\ request[q].id = id /\ waiting[request[q].by] = q
  <2>1. q \in Requests /\ q \in Sent' /\ request'[q].status = 200 /\ request'[q].id = id
    BY <1>2, SentNext DEF HeardNext
  <2>2. q \in Sent /\ Handling(q)
    BY <1>2, <2>1, RequestSteps DEF Heard, Answered, Began, Ended
  <2>3. request[q].status = 0
    BY <1>0, <2>2, HandlingPhases DEF HandlerOK, Noted
  <2>4. Respond(q)
    <3>1. CASE Find(q)
      BY <1>0, <2>1, <2>2, <2>3, <3>1, FindEffect DEF Keeps, Fields
    <3>2. CASE Load(q)
      <4>1. Keeps(q, {"phase", "id", "runtime"})
        BY <1>0, <2>2, <3>2, LoadEffect
      <4>. QED BY <2>1, <2>3, <4>1 DEF Keeps, Fields
    <3>3. CASE Pack(q) \/ PackFails(q) \/ Number(q) \/ Answer(q)
      BY <1>0, <2>1, <2>2, <2>3, <3>3, PackEffect, PackFailsEffect, NumberEffect,
         AnswerEffect DEF Keeps, Fields
    <3>4. CASE Register(q) \/ RecordTotal(q) \/ AppendTurn(q)
      <4>1. Keeps(q, {"phase"})
        BY <1>0, <2>2, <3>4, RegisterEffect, RecordTotalEffect, AppendTurnEffect
      <4>. QED BY <2>1, <2>3, <4>1 DEF Keeps, Fields
    <3>5. CASE Dump(q) \/ Save(q)
      <4>1. Keeps(q, {"phase", "copy"})
        BY <1>0, <2>2, <3>5, DumpEffect, SaveEffect
      <4>. QED BY <2>1, <2>3, <4>1 DEF Keeps, Fields
    <3>. QED BY <2>2, <3>1, <3>2, <3>3, <3>4, <3>5 DEF Handling
  <2>. QED BY <1>0, <2>1, <2>2, <2>4, RespondEffect DEF Keeps, Fields
<1>. QED BY <1>1, <1>2

(* Only a response changes what has been heard in any session.             *)
LEMMA HeardQuiet ==
    ASSUME Basic, [Next]_vars, NEW r \in Sent, Handling(r), ~Respond(r), NEW id
    PROVE  HeardNext(id) = Heard(id)
<1>1. ASSUME NEW q \in HeardNext(id) \ Heard(id) PROVE FALSE
  <2>1. q \in Sent /\ Respond(q) /\ request[q].phase = "saved"
    BY <1>1, HeardSteps
  <2>2. TypeOK /\ Sent \subseteq Requests
    BY BasicFacts DEF Basic
  <2>3. r # q
    BY <2>1
  <2>4. request'[q] = request[q]
    BY <2>1, <2>2, <2>3, HandlingOne
  <2>5. request'[q].phase = "over"
    BY <2>1, <2>2, RespondEffect
  <2>. QED BY <2>1, <2>4, <2>5
<1>. QED BY <1>1, HeardSteps

(* While a handler of the session is at work no other one answers in it.   *)
LEMMA HeardHeld ==
    ASSUME Basic, Ownership, OneAtATime, "timeouts" \notin env, [Next]_vars,
           NEW r \in Sent, InFlight(r), request[r].id # 0, ~Respond(r)
    PROVE  HeardNext(request[r].id) = Heard(request[r].id)
<1>1. ASSUME NEW q \in HeardNext(request[r].id) \ Heard(request[r].id) PROVE FALSE
  <2>1. q \in Sent /\ Respond(q) /\ request[q].phase = "saved" /\ request[q].id = request[r].id
    BY <1>1, HeardSteps
  <2>2. q = r
    BY <2>1, OnlyOne DEF InFlight
  <2>. QED BY <2>1, <2>2
<1>. QED BY <1>1, HeardSteps

(* Turns are only ever added to the session of a handler.                  *)
LEMMA TurnsGrow ==
    ASSUME Basic, [Next]_vars, NEW k \in Requests,
           ~(Turns(runtime[k]) \subseteq Turns(runtime'[k]))
    PROVE  Load(k) \/ \E rep \in Replicas : Crash(rep) /\ request[k].at = rep
<1>0. TypeOK
  BY DEF Basic
<1>1. ASSUME NEW r \in Requests, Handling(r) PROVE Load(k)
  <2>1. CASE Load(r)
    BY Zenon, <1>0, <2>1 DEF Load, TypeOK
  <2>2. CASE RecordTotal(r)
    BY <1>0, <2>2, RecordTotalEffect DEF Turns
  <2>3. CASE AppendTurn(r)
    <3>1. PICK t : t = [req |-> r, num |-> request[r].num, tokens |-> TurnTokens(r)]
      OBVIOUS
    <3>2. runtime'[k] = runtime[k] \/ runtime'[k].turns = Append(runtime[k].turns, t)
      BY <1>0, <2>3, <3>1, AppendTurnEffect
    <3>3. runtime[k] \in Session
      BY <1>0 DEF TypeOK
    <3>4. CASE runtime'[k].turns = Append(runtime[k].turns, t)
      <4>1. Turns(runtime'[k]) = Turns(runtime[k]) \cup {t.req}
        BY <3>3, <3>4, TurnsAppend
      <4>. QED BY <4>1
    <3>5. CASE runtime'[k] = runtime[k]
      BY <3>5
    <3>. QED BY <3>2, <3>4, <3>5
  <2>4. CASE ~(Load(r) \/ RecordTotal(r) \/ AppendTurn(r))
    BY <1>1, <2>4 DEF Handling, Find, Register, Pack, PackFails, KeepNothing, Number, Answer, Dump,
                      Save, Respond
  <2>. QED BY <2>1, <2>2, <2>3, <2>4
<1>2. ASSUME NEW rep \in Replicas, Crash(rep) PROVE request[k].at = rep
  BY Zenon, <1>2 DEF Crash
<1>3. ASSUME NEW c \in Clients, NEW rep \in Replicas, Send(c, rep) PROVE FALSE
  BY <1>3 DEF Send
<1>4. ASSUME NEW c \in Clients, TimeOut(c) PROVE FALSE
  BY <1>4 DEF TimeOut
<1>5. ASSUME NEW id \in Ids, Expire(id) PROVE FALSE
  BY <1>5 DEF Expire
<1>6. CASE UNCHANGED vars
  BY <1>6 DEF vars
<1>. QED BY <1>1, <1>2, <1>3, <1>4, <1>5, <1>6 DEF Next, Handling, Finished

(* What a durable deployment has stored for a session grows.               *)
LEMMA StoredGrows ==
    ASSUME Basic, Ownership, OneAtATime, HistoryKept, Durable, [Next]_vars,
           NEW q \in Sent, request[q].phase = "saved" \/ Answered(q)
    PROVE  store'["redis"][request[q].id] # Nothing
           /\ q \in Turns(store'["redis"][request[q].id])
<1>0. /\ TypeOK /\ HandlerOK /\ Sent \subseteq Requests /\ "timeouts" \notin env
      /\ "lossy" \notin env /\ "redis" \in Places /\ "redis" \notin Replicas
  BY BasicFacts, SessionConstants DEF Basic, Durable, Places
<1>1. PICK id \in Ids : id = request[q].id
  <2>1. request[q].id # 0
    BY <1>0 DEF HandlerOK, Noted, Answered, Early
  <2>2. request[q].id \in 0..MaxRequests /\ MaxRequests \in Nat
    BY <1>0, SessionConstants DEF TypeOK, Handler
  <2>. QED BY <2>1, <2>2 DEF Ids
<1>2. store["redis"][id] # Nothing /\ q \in Turns(store["redis"][id])
  BY <1>1 DEF HistoryKept, HistoryRow, InStore
<1>3. CASE store'["redis"][id] = store["redis"][id]
  BY <1>1, <1>2, <1>3
<1>4. CASE store'["redis"][id] = Nothing
  <2>1. ASSUME NEW r \in Requests, Handling(r) PROVE FALSE
    <3>1. CASE Save(r)
      <4>1. PICK p, i : store' = [store EXCEPT ![p][i] = request[r].copy]
        BY ZenonT(40), <1>0, <3>1, SaveEffect
      <4>2. request[r].copy \in Session
        BY <1>0 DEF TypeOK, Handler
      <4>3. request[r].copy = Nothing
        BY <1>0, <1>2, <1>4, <4>1 DEF TypeOK
      <4>. QED BY <4>2, <4>3, NothingIsNoSession
    <3>2. CASE ~Save(r)
      BY Zenon, <1>2, <1>4, <2>1, <3>2 DEF Handling, Find, Load, Register, Pack, PackFails, RecordTotal,
                      Number, AppendTurn, Answer, Dump, Respond
    <3>. QED BY <3>1, <3>2
  <2>2. ASSUME NEW rep \in Replicas, Crash(rep) PROVE FALSE
    BY Zenon, <1>0, <1>2, <1>4, <2>2 DEF Crash, TypeOK
  <2>3. ASSUME NEW lost \in Ids, Expire(lost) PROVE FALSE
    BY <1>0, <2>3 DEF Expire
  <2>4. ASSUME NEW c \in Clients, NEW rep \in Replicas, Send(c, rep) PROVE FALSE
    BY <1>2, <1>4, <2>4 DEF Send
  <2>5. ASSUME NEW c \in Clients, TimeOut(c) PROVE FALSE
    BY <1>2, <1>4, <2>5 DEF TimeOut
  <2>6. CASE UNCHANGED vars
    BY <1>2, <1>4, <2>6 DEF vars
  <2>. QED BY <2>1, <2>2, <2>3, <2>4, <2>5, <2>6 DEF Next, Handling, Finished
<1>5. CASE store'["redis"][id] # store["redis"][id] /\ store'["redis"][id] # Nothing
  <2>1. PICK r \in Sent : /\ request[r].phase = "saving" /\ request[r].id = id
                          /\ store'["redis"][id] = request[r].copy /\ request[r].id # 0
    BY <1>0, <1>5, StoreSteps
  <2>2. Heard(id) \cup {r} \subseteq Turns(request[r].copy)
    BY <2>1 DEF HistoryKept, HistoryRow
  <2>3. CASE Answered(q)
    BY <1>1, <1>5, <2>1, <2>2, <2>3 DEF Heard
  <2>4. CASE request[q].phase = "saved"
    BY <1>0, <1>1, <2>1, <2>4, OnlyOne DEF InFlight
  <2>. QED BY <2>3, <2>4
<1>. QED BY <1>3, <1>4, <1>5

(* The steps of a handler keep its turn where it belongs.                  *)
LEMMA HandlingHistory ==
    ASSUME Basic, Ownership, OneAtATime, UsesLive, HistoryKept, Durable, [Next]_vars,
           NEW r \in Sent, Handling(r)
    PROVE  HistoryRow(r)'
<1>0. /\ TypeOK /\ HandlerOK /\ Sent \subseteq Requests /\ "timeouts" \notin env
      /\ "lossy" \notin env /\ "redis" \in env /\ "redis" \in Places
      /\ HistoryRow(r) /\ Noted(r) /\ Stable
      /\ request[r].phase # "over" /\ request[r].status = 0
  <2>1. /\ TypeOK /\ HandlerOK /\ Sent \subseteq Requests /\ Stable
    BY BasicFacts, StepStable DEF Basic
  <2>2. request[r].phase # "over"
    BY <2>1, HandlingPhases
  <2>. QED BY <2>1, <2>2 DEF HandlerOK, Noted, HistoryKept, Durable, Places
<1>1. CASE Find(r) \/ Register(r) \/ Pack(r)
  <2>1. request'[r].phase \in {"loading", "found", "packed"} /\ request'[r].status = 0
    <3>1. CASE Find(r) \/ Pack(r)
      BY <1>0, <3>1, FindEffect, PackEffect DEF Keeps, Fields
    <3>2. CASE Register(r)
      <4>1. Keeps(r, {"phase"}) /\ request'[r].phase = "found"
        BY <1>0, <3>2, RegisterEffect
      <4>. QED BY <1>0, <4>1 DEF Keeps, Fields
    <3>. QED BY <1>1, <3>1, <3>2
  <2>. QED BY <2>1 DEF HistoryRow, AfterAppend, Answered
<1>9. CASE Load(r)
  <2>1. PICK id : id = request'[r].id
    OBVIOUS
  <2>2. /\ request'[r].phase = "loaded" /\ request'[r].runtime = r
        /\ request'[r].status = 0
    <3>1. /\ request'[r].phase = "loaded" /\ request'[r].runtime = r
          /\ Keeps(r, {"phase", "id", "runtime"})
      BY <1>0, <1>9, LoadEffect
    <3>. QED BY <1>0, <3>1 DEF Keeps, Fields
  <2>3. HeardNext(id) = Heard(id)
    <3>1. ~Respond(r)
      BY <1>9 DEF Load, Respond, PassNoting
    <3>. QED BY <3>1, HeardQuiet
  <2>6. \/ /\ request'[r].id = ids + 1
           /\ runtime' = [runtime EXCEPT ![r] = NewSession]
        \/ /\ request'[r].id = request[r].asked
           /\ store[Place(request[r].at)][request[r].asked] # Nothing
           /\ runtime' = [runtime EXCEPT ![r] =
                             store[Place(request[r].at)][request[r].asked]]
    BY <1>0, <1>9, LoadEffect, Zenon
  <2>7. HeardNext(id) \subseteq Turns(runtime'[r])
    <3>2. CASE /\ request'[r].id = ids + 1
               /\ runtime' = [runtime EXCEPT ![r] = NewSession]
      <4>1. Heard(id) = {}
        BY <1>0, <2>1, <3>2, BasicFacts DEF Heard
      <4>. QED BY <2>3, <4>1
    <3>3. CASE /\ request'[r].id = request[r].asked
               /\ store[Place(request[r].at)][request[r].asked] # Nothing
               /\ runtime' = [runtime EXCEPT ![r] =
                                 store[Place(request[r].at)][request[r].asked]]
      <4>1. runtime'[r] = store["redis"][id]
        BY <1>0, <2>1, <3>3 DEF TypeOK, Place
      <4>2. Heard(id) \subseteq Turns(store["redis"][id])
        BY DEF Heard, HistoryKept, HistoryRow, InStore
      <4>. QED BY <2>3, <4>1, <4>2
    <3>. QED BY <2>6, <3>2, <3>3
  <2>. QED BY <2>1, <2>2, <2>7
           DEF HistoryRow, AfterAppend, Answered, SessionOf, Heard, HeardNext
<1>2. CASE PackFails(r) \/ Number(r)
  BY <1>0, <1>2, PackFailsEffect, NumberEffect
     DEF HistoryRow, AfterAppend, Answered, Keeps, Fields
<1>3. CASE RecordTotal(r)
  <2>1. request'[r].phase = "numbering" /\ Keeps(r, {"phase"})
    BY <1>0, <1>3, RecordTotalEffect
  <2>. QED BY <1>0, <2>1 DEF HistoryRow, AfterAppend, Answered, Keeps, Fields
<1>4. CASE AppendTurn(r)
  <2>1. /\ request[r].phase = "appending" /\ request'[r].phase = "answering"
        /\ Keeps(r, {"phase"})
    BY <1>0, <1>4, AppendTurnEffect
  <2>2. PICK k \in Requests : k = request[r].runtime
    BY <1>0, <2>1 DEF Noted, Early
  <2>3. PICK t : t = [req |-> r, num |-> request[r].num, tokens |-> TurnTokens(r)]
    OBVIOUS
  <2>4. runtime'[k].turns = Append(runtime[k].turns, t) /\ t.req = r
    BY <1>0, <1>4, <2>2, <2>3, AppendTurnEffect
  <2>5. runtime[k] \in Session
    BY <1>0 DEF TypeOK
  <2>6. r \in Turns(runtime'[k])
    BY <2>4, <2>5, TurnsAppend
  <2>7. request'[r].runtime = k /\ request'[r].status = 0
    BY <1>0, <2>1, <2>2 DEF Keeps, Fields
  <2>. QED BY <2>1, <2>6, <2>7 DEF HistoryRow, Answered, SessionOf
<1>5. CASE Answer(r)
  <2>1. SessionOf(r)' = SessionOf(r)
    BY <1>0, <1>5, AnswerEffect DEF SessionOf, Keeps, Fields
  <2>. QED BY <1>0, <1>5, <2>1, AnswerEffect
           DEF HistoryRow, AfterAppend, Answered, Keeps, Fields
<1>6. CASE Dump(r)
  <2>1. /\ Keeps(r, {"phase", "copy"}) /\ runtime' = runtime
        /\ \/ request[r].phase = "dumping" /\ request'[r].phase = "copying"
           \/ /\ request[r].phase = "copying" /\ request'[r].phase = "closing"
              /\ request'[r].copy = [request[r].copy EXCEPT !.turns = SessionOf(r).turns]
           \/ /\ request[r].phase = "closing" /\ request'[r].phase = "saving"
              /\ request'[r].copy = [request[r].copy EXCEPT !.artifact = SessionOf(r).artifact]
    BY <1>0, <1>6, DumpEffect
  <2>2. SessionOf(r)' = SessionOf(r) /\ request'[r].id = request[r].id /\ request'[r].status = 0
    BY <1>0, <2>1 DEF SessionOf, Keeps, Fields
  <2>3. request[r].copy \in Session
    BY <1>0 DEF TypeOK, Handler
  <2>4. r \in Turns(SessionOf(r))
    BY <1>0, <2>1 DEF HistoryRow, AfterAppend
  <2>5. HeardNext(request[r].id) = Heard(request[r].id)
    <3>1. ASSUME NEW q \in HeardNext(request[r].id) \ Heard(request[r].id) PROVE FALSE
      <4>1. /\ q \in Sent /\ request[q].phase = "saved" /\ request[q].id = request[r].id
        BY <3>1, HeardSteps
      <4>2. q = r
        BY <1>0, <2>1, <4>1, OnlyOne DEF InFlight, Noted, Early
      <4>. QED BY <2>1, <4>1, <4>2
    <3>. QED BY <3>1, HeardSteps
  <2>6. CASE request'[r].phase = "copying"
    BY <2>2, <2>4, <2>6 DEF HistoryRow, Answered
  <2>7. CASE /\ request[r].phase = "copying" /\ request'[r].phase = "closing"
             /\ request'[r].copy = [request[r].copy EXCEPT !.turns = SessionOf(r).turns]
    <3>1. Turns(request'[r].copy) = Turns(SessionOf(r))
      BY <2>3, <2>7 DEF Turns, Session
    <3>2. Heard(request[r].id) \subseteq Turns(SessionOf(r))
      <4>1. /\ live[request[r].at][request[r].id] = request[r].runtime
            /\ request[r].runtime # 0 /\ request[r].at \in Replicas
            /\ request[r].id \in Ids
        BY <1>0, <2>7, BasicFacts DEF UsesLive, Noted, Early, Ids
      <4>. QED BY <4>1 DEF HistoryKept, SessionOf
    <3>3. HistoryRow(r)' <=>
             /\ r \in Turns(SessionOf(r)')
             /\ HeardNext(request'[r].id) \cup {r} \subseteq Turns(request'[r].copy)
      BY <2>2, <2>7 DEF HistoryRow, AfterAppend, Answered, Heard, HeardNext
    <3>. QED BY <2>2, <2>4, <2>5, <3>1, <3>2, <3>3
  <2>8. CASE /\ request[r].phase = "closing" /\ request'[r].phase = "saving"
             /\ request'[r].copy = [request[r].copy EXCEPT !.artifact = SessionOf(r).artifact]
    <3>1. Turns(request'[r].copy) = Turns(request[r].copy)
      BY <2>3, <2>8 DEF Turns, Session
    <3>2. Heard(request[r].id) \cup {r} \subseteq Turns(request[r].copy)
      BY <1>0, <2>8 DEF HistoryRow
    <3>3. HistoryRow(r)' <=>
             /\ r \in Turns(SessionOf(r)')
             /\ HeardNext(request'[r].id) \cup {r} \subseteq Turns(request'[r].copy)
      BY <2>2, <2>8 DEF HistoryRow, AfterAppend, Answered, Heard, HeardNext
    <3>. QED BY <2>2, <2>4, <2>5, <3>1, <3>2, <3>3
  <2>. QED BY <2>1, <2>6, <2>7, <2>8
<1>7. CASE Save(r)
  <2>1. /\ Keeps(r, {"phase", "copy"}) /\ runtime' = runtime
        /\ request[r].phase = "saving" /\ request'[r].phase = "saved"
    BY <1>0, <1>7, SaveEffect
  <2>2. store' = [store EXCEPT !["redis"][request[r].id] = request[r].copy]
    BY <1>0, <1>7, SaveEffect DEF Place
  <2>3. request[r].id \in Ids
    BY <1>0, <2>1, BasicFacts DEF Noted, Early, Ids
  <2>4. SessionOf(r)' = SessionOf(r) /\ request'[r].id = request[r].id /\ request'[r].status = 0
    BY <1>0, <2>1 DEF SessionOf, Keeps, Fields
  <2>5. r \in Turns(SessionOf(r)) /\ r \in Turns(request[r].copy)
    BY <1>0, <2>1 DEF HistoryRow, AfterAppend
  <2>6. store'["redis"][request[r].id] = request[r].copy /\ request[r].copy # Nothing
    <3>1. request[r].copy \in Session
      BY <1>0 DEF TypeOK, Handler
    <3>. QED BY <1>0, <2>2, <2>3, <3>1, NothingIsNoSession DEF TypeOK
  <2>. QED BY <2>1, <2>4, <2>5, <2>6 DEF HistoryRow, AfterAppend, Answered, InStore
<1>8. CASE Respond(r)
  <2>1. /\ request[r].phase = "saved" /\ request'[r].phase = "over"
        /\ Keeps(r, {"phase", "status"})
    BY <1>0, <1>8, RespondEffect
  <2>2. request'[r].id = request[r].id
    BY <2>1 DEF Keeps, Fields
  <2>3. store'["redis"][request[r].id] # Nothing
           /\ r \in Turns(store'["redis"][request[r].id])
    BY <2>1, StoredGrows
  <2>. QED BY <2>1, <2>2, <2>3 DEF HistoryRow, AfterAppend, Answered, InStore
<1>. QED BY <1>1, <1>2, <1>3, <1>4, <1>5, <1>6, <1>7, <1>8, <1>9 DEF Handling

(* Every step keeps the answered turns in the store and in the live        *)
(* runtimes.                                                               *)
LEMMA NextHistoryKept ==
    ASSUME Basic, Ownership, OneAtATime, UsesLive, AtHome, HistoryKept, [Next]_vars
    PROVE  HistoryKept'
<1> SUFFICES ASSUME Durable
             PROVE  /\ \A r \in Requests : r \in Sent' => HistoryRow(r)'
                    /\ \A rep \in Replicas, id \in Ids : live'[rep][id] # 0 =>
                          HeardNext(id) \subseteq Turns(runtime'[live'[rep][id]])
  BY StepStable, SentNext DEF Basic, Stable, HistoryKept, Durable, Heard, HeardNext, Answered
<1>0. /\ TypeOK /\ HandlerOK /\ Registered /\ UndrawnUnused
      /\ Sent \subseteq Requests /\ "timeouts" \notin env
      /\ "lossy" \notin env /\ Stable /\ "sticky" \in env
  BY BasicFacts, StepStable DEF Basic, Durable
<1>1. ASSUME NEW r \in Requests, r \in Sent' PROVE HistoryRow(r)'
  <2>1. CASE r \in Sent /\ Handling(r)
    BY <2>1, HandlingHistory
  <2>2. CASE r \notin Sent /\ Began(r)
    BY <2>2 DEF Began, HistoryRow, AfterAppend, Answered
  <2>3. CASE r \in Sent /\ Ended(r)
    BY <2>3 DEF Ended, HistoryRow, AfterAppend, Answered
  <2>4. CASE r \in Sent /\ request'[r] = request[r] /\ ~Handling(r)
    <3>0. HistoryRow(r) /\ Noted(r)
      BY <1>0, <2>4 DEF HistoryKept, HandlerOK
    <3>1. request[r].phase \in AfterAppend => r \in Turns(SessionOf(r)')
      <4>1. CASE request[r].phase \in AfterAppend
        <5>1. InFlight(r) /\ request[r].runtime # 0
          BY <2>4, <3>0, <4>1, BasicFacts, <1>0 DEF InFlight, AfterAppend, Noted, Early
        <5>2. SessionOf(r)' = SessionOf(r)
          BY <1>0, <2>4, <5>1, SessionKept
        <5>. QED BY <3>0, <4>1, <5>2 DEF HistoryRow
      <4>. QED BY <4>1
    <3>2. request[r].phase \in {"closing", "saving"} =>
              HeardNext(request[r].id) \cup {r} \subseteq Turns(request[r].copy)
      <4>1. CASE request[r].phase \in {"closing", "saving"}
        <5>1. ASSUME NEW q \in HeardNext(request[r].id) \ Heard(request[r].id) PROVE FALSE
          <6>1. q \in Sent /\ request[q].phase = "saved" /\ request[q].id = request[r].id
            BY <5>1, HeardSteps
          <6>2. q = r
            BY <1>0, <2>4, <3>0, <4>1, <6>1, OnlyOne DEF InFlight, Noted, Early
          <6>. QED BY <4>1, <6>1, <6>2
        <5>. QED BY <3>0, <4>1, <5>1 DEF HistoryRow
      <4>. QED BY <4>1
    <3>3. request[r].phase = "saved" \/ Answered(r) =>
             store'["redis"][request[r].id] # Nothing
               /\ r \in Turns(store'["redis"][request[r].id])
      BY <2>4, StoredGrows
    <3>4. request[r].phase = "loaded" =>
              HeardNext(request[r].id) \subseteq Turns(SessionOf(r)')
      <4>1. CASE request[r].phase = "loaded"
        <5>1. InFlight(r) /\ request[r].runtime # 0 /\ request[r].id # 0 /\ ~Respond(r)
          BY <2>4, <3>0, <4>1, BasicFacts, <1>0 DEF InFlight, Noted, Early, Handling
        <5>2. SessionOf(r)' = SessionOf(r)
          BY <1>0, <2>4, <5>1, SessionKept
        <5>3. HeardNext(request[r].id) = Heard(request[r].id)
          BY <1>0, <2>4, <5>1, HeardHeld
        <5>. QED BY <3>0, <4>1, <5>2, <5>3 DEF HistoryRow
      <4>. QED BY <4>1
    <3>. QED BY <2>4, <3>1, <3>2, <3>3, <3>4
             DEF HistoryRow, Answered, InStore, Heard, HeardNext
  <2>. QED BY <1>1, <2>1, <2>2, <2>3, <2>4, RequestSteps
<1>2. ASSUME NEW rep \in Replicas, NEW id \in Ids, live'[rep][id] # 0
      PROVE  HeardNext(id) \subseteq Turns(runtime'[live'[rep][id]])
  <2>1. CASE live'[rep][id] # live[rep][id]
    <3>1. PICK r \in Sent : /\ Register(r) /\ live'[rep][id] = r
                            /\ rep = request[r].at /\ id = request[r].id
                            /\ request[r].phase = "loaded"
      BY <1>2, <2>1, LiveSteps
    <3>2. HeardNext(id) = Heard(id)
      <4>1. Handling(r) /\ ~Respond(r)
        BY <3>1 DEF Handling, Respond, PassNoting
      <4>. QED BY <4>1, HeardQuiet
    <3>3. runtime' = runtime /\ request[r].runtime = r
      BY <1>0, <3>1, RegisterEffect DEF HandlerOK, Noted
    <3>4. Heard(id) \subseteq Turns(runtime[r])
      BY <3>1, <3>3 DEF HistoryKept, HistoryRow, SessionOf
    <3>. QED BY <3>1, <3>2, <3>3, <3>4
  <2>2. CASE live'[rep][id] = live[rep][id]
    <3>1. PICK k \in Sent : k = live[rep][id]
      BY <1>0, <1>2, <2>2 DEF Registered
    <3>2. k # 0 /\ Heard(id) \subseteq Turns(runtime[k])
      BY <1>2, <2>2, <3>1 DEF HistoryKept
    <3>3. /\ request[k].phase \notin Early
          /\ request[k].at = rep
      <4>1. PICK owner \in [Ids -> Clients \cup {Nothing}] : Owned(owner)
        BY DEF Ownership
      <4>. QED BY <3>1, <3>2, <4>1 DEF UsesLive, Owned, LiveOwned, LiveAt
    <3>4. ~Load(k)
      BY Zenon, <3>3 DEF Load, Early
    <3>5. ASSUME NEW p \in Replicas, Crash(p) PROVE p # rep
      <4>1. live' = [live EXCEPT ![p] = [x \in Ids |-> 0]]
        BY Zenon, <3>5 DEF Crash
      <4>2. live \in [Replicas -> [Ids -> 0..MaxRequests]]
        BY <1>0 DEF TypeOK
      <4>3. live'[p] = [x \in Ids |-> 0]
        BY <4>1, <4>2
      <4>. QED BY <1>2, <4>3
    <3>6. Turns(runtime[k]) \subseteq Turns(runtime'[k])
      BY <1>0, <3>1, <3>3, <3>4, <3>5, TurnsGrow
    <3>7. ASSUME NEW q \in HeardNext(id) \ Heard(id) PROVE q \in Turns(runtime'[k])
      <4>1. q \in Sent /\ Respond(q) /\ request[q].phase = "saved" /\ request[q].id = id
        BY <3>7, HeardSteps
      <4>2. PICK owner \in [Ids -> Clients \cup {Nothing}] : Owned(owner)
        BY DEF Ownership
      <4>3. request[q].by = owner[id] /\ request[k].by = owner[id]
        BY <1>0, <3>1, <3>2, <4>1, <4>2
           DEF Owned, HandlerOwned, LiveOwned, LiveAt, Ids
      <4>4. request[q].at = rep
        BY <1>0, <3>1, <3>2, <4>1, <4>3 DEF AtHome, InFlight
      <4>5. request[q].runtime = k
        BY <1>0, <3>1, <4>1, <4>4 DEF UsesLive, Early
      <4>6. q \in Turns(runtime[k])
        BY <4>1, <4>5 DEF HistoryKept, HistoryRow, AfterAppend, SessionOf
      <4>. QED BY <3>6, <4>6
    <3>. QED BY <2>2, <3>1, <3>2, <3>6, <3>7
  <2>. QED BY <2>1, <2>2
<1>. QED BY <1>1, <1>2

(* Sessions keep their history in every reachable state.                   *)
LEMMA AlwaysHistory == Spec => [](UsesLive /\ AtHome /\ HistoryKept)
<1>1. Init => AtHome /\ HistoryKept
  BY DEF Init, AtHome, HistoryKept, Sent
<1>. QED BY <1>1, NextAtHome, NextHistoryKept, AlwaysBasic, AlwaysOwnership,
            AlwaysOneAtATime, AlwaysUsesLive, PTL DEF Spec

(* What a client was answered survives the death of any replica at any     *)
(* point: while saves work and clients keep to their replica, every        *)
(* answered turn is in the shared store.                                   *)
THEOREM AnswersSurvive == Spec => []AnsweredTurnsStored
<1>1. Basic /\ HistoryKept => AnsweredTurnsStored
  BY DEF HistoryKept, HistoryRow, InStore, AnsweredTurnsStored, Durable, Answered, Basic,
         TypeOK, Sent, Requests, Unsent
<1>. QED BY <1>1, AlwaysBasic, AlwaysHistory, PTL

(* And the next turn of the session goes on from all of them.              *)
THEOREM SessionsGoOn == Spec => []TurnsContinue
<1>1. Basic /\ UsesLive /\ HistoryKept => TurnsContinue
  <2> SUFFICES ASSUME Basic, UsesLive, HistoryKept, Durable, NEW r \in Requests,
                      InHandler(r), request[r].runtime # 0,
                      NEW q \in Requests, Answered(q), request[q].id = request[r].id
               PROVE  q \in Turns(SessionOf(r))
    BY DEF TurnsContinue, Continues, Durable
  <2>1. r \in Sent /\ q \in Sent
    BY DEF Basic, TypeOK, Sent, Requests, Unsent, InHandler, Answered
  <2>2. Noted(r) /\ request[r].phase \notin Early \cup {"over"}
    BY <2>1 DEF Basic, HandlerOK, Noted, Early, InHandler
  <2>3. request[r].at \in Replicas /\ request[r].id \in Ids
    BY <2>1, <2>2, BasicFacts DEF Noted, Ids, Basic
  <2>4. Heard(request[r].id) \subseteq Turns(SessionOf(r))
    <3>1. CASE request[r].phase = "loaded"
      BY <2>1, <3>1 DEF HistoryKept, HistoryRow
    <3>2. CASE request[r].phase # "loaded"
      <4>1. live[request[r].at][request[r].id] = request[r].runtime
        BY <2>1, <2>2, <3>2 DEF UsesLive, Durable
      <4>2. request[r].runtime # 0
        OBVIOUS
      <4>. QED BY <2>3, <4>1, <4>2 DEF HistoryKept, SessionOf
    <3>. QED BY <3>1, <3>2
  <2>. QED BY <2>1, <2>4 DEF Heard
<1>. QED BY <1>1, AlwaysBasic, AlwaysHistory, PTL

----------------------------------------------------------------------------
(* What a session has used in all is the sum of its turns, except between  *)
(* the two halves of record_turn.                                          *)
Summed(session) == session.total = SumOfTurns(session)

InMiddle(r) == request[r].phase \in {"numbering", "appending"}

TotalsRow(r) ==
    LET q == request[r]
    IN  /\ InMiddle(r) =>
              SessionOf(r).total = SumOfTurns(SessionOf(r)) + TurnTokens(r)
        /\ q.phase = "copying" => q.copy.total = SessionOf(r).total
        /\ q.phase \in {"closing", "saving"} => Summed(q.copy)

TotalsSummed ==
    "timeouts" \notin env =>
        /\ \A k \in Sent :
              (\A r \in Sent : InMiddle(r) => request[r].runtime # k)
                 => Summed(runtime[k])
        /\ \A r \in Sent : TotalsRow(r)
        /\ \A place \in Places, id \in Ids :
              store[place][id] # Nothing => Summed(store[place][id])

(* The sum depends on the turns only, and grows by the tokens of a turn.   *)
LEMMA SumsOfTurns ==
    /\ SumOfTurns(NewSession) = 0
    /\ \A old, new : old.turns = new.turns => SumOfTurns(old) = SumOfTurns(new)
<1>1. \A old, new : old.turns = new.turns => SumOfTurns(old) = SumOfTurns(new)
  BY DEF SumOfTurns
<1>2. SumOfTurns(NewSession) = 0
  <2>1. DOMAIN NewSession.turns = {}
    BY DEF NewSession
  <2>2. SumFunction([k \in {} |-> NewSession.turns[k].tokens]) = 0
    BY SumEmpty DEF SumFunction
  <2>. QED BY <2>1, <2>2 DEF SumOfTurns
<1>. QED BY <1>1, <1>2

(* A turn that is appended adds its tokens.                                *)
LEMMA SumAppended ==
    ASSUME NEW old \in Session, NEW new, NEW turn \in Turn,
           new.turns = Append(old.turns, turn)
    PROVE  SumOfTurns(new) = SumOfTurns(old) + turn.tokens
<1>1. old.turns \in Seq(Turn)
  BY DEF Session
<1> DEFINE n == Len(old.turns)
           f == [k \in DOMAIN old.turns |-> old.turns[k].tokens]
           g == [k \in DOMAIN new.turns |-> new.turns[k].tokens]
<1>2. /\ DOMAIN new.turns = 1..(n + 1) /\ n \in Nat /\ DOMAIN old.turns = 1..n
      /\ \A k \in 1..n : new.turns[k] = old.turns[k]
      /\ new.turns[n + 1] = turn
  BY <1>1
<1>3. /\ \A k \in 1..n : old.turns[k].tokens \in Nat
      /\ turn.tokens \in Nat
  <2>1. \A k \in 1..n : old.turns[k] \in Turn
    BY <1>1
  <2>. QED BY <2>1 DEF Turn
<1>4. /\ DOMAIN f = 1..n /\ n + 1 \notin DOMAIN f
      /\ DOMAIN g = DOMAIN f \cup {n + 1}
      /\ \A k \in DOMAIN f : g[k] = f[k]
      /\ g[n + 1] = turn.tokens
      /\ \A k \in DOMAIN g : g[k] \in Nat
      /\ IsFiniteSet(DOMAIN f)
  <2>1. 1..(n + 1) = (1..n) \cup {n + 1} /\ n + 1 \notin 1..n
    BY <1>2
  <2>2. /\ DOMAIN f = 1..n /\ \A k \in 1..n : f[k] = old.turns[k].tokens
        /\ DOMAIN g = 1..(n + 1)
        /\ \A k \in 1..(n + 1) : g[k] = new.turns[k].tokens
    BY <1>2
  <2>3. \A k \in 1..n : g[k] = f[k]
    BY <1>2, <2>1, <2>2
  <2>4. g[n + 1] = turn.tokens
    BY <1>2, <2>1, <2>2
  <2>5. IsFiniteSet(1..n)
    BY <1>2, FS_Interval
  <2> HIDE DEF f, g
  <2>. QED BY <1>3, <2>1, <2>2, <2>3, <2>4, <2>5
<1>5. SumFunction(g) = SumFunction(f) + g[n + 1]
  <2> HIDE DEF f, g
  <2> QED BY SMTT(30), <1>4, SumExtend
<1>. QED BY <1>4, <1>5 DEF SumOfTurns

(* What a step does to a runtime.                                          *)
LEMMA RuntimeSteps ==
    ASSUME Basic, [Next]_vars, NEW k \in Requests
    PROVE  \/ runtime'[k] = runtime[k]
           \/ runtime'[k] = NewSession
           \/ \E place \in Places, id \in Ids :
                 store[place][id] # Nothing /\ runtime'[k] = store[place][id]
           \/ \E r \in Sent : /\ RecordTotal(r) \/ AppendTurn(r)
                              /\ request[r].runtime = k
<1>0. TypeOK /\ Sent \subseteq Requests
  BY BasicFacts DEF Basic
<1>1. ASSUME NEW r \in Requests, Load(r), runtime'[k] # runtime[k],
             runtime'[k] # NewSession
      PROVE  \E place \in Places, id \in Ids :
                 store[place][id] # Nothing /\ runtime'[k] = store[place][id]
  <2>1. PICK place : place = Place(request[r].at)
    OBVIOUS
  <2>2. PICK id : id = request[r].asked
    OBVIOUS
  <2>3. request[r].phase = "loading"
    BY <1>0, <1>1, LoadEffect
  <2>4. r \in Sent
    BY <1>0, <2>3, SentHandled
  <2>5. place \in Places
    BY <1>0, <2>1, <2>4, BasicFacts DEF Place, Places
  <2>6. CASE runtime' = [runtime EXCEPT ![r] = NewSession]
    BY <1>0, <1>1, <2>6 DEF TypeOK
  <2>7. CASE /\ id # 0 /\ store[place][id] # Nothing
             /\ runtime' = [runtime EXCEPT ![r] = store[place][id]]
    <3>1. id \in Ids
      BY <1>0, <2>2, <2>4, <2>7, BasicFacts DEF Ids
    <3>2. runtime'[k] = store[place][id]
      BY <1>0, <1>1, <2>7 DEF TypeOK
    <3>. QED BY <2>5, <2>7, <3>1, <3>2
  <2>. QED BY <1>0, <1>1, <2>1, <2>2, <2>6, <2>7, LoadRuntime
<1>2. ASSUME NEW r \in Requests, RecordTotal(r), runtime'[k] # runtime[k]
      PROVE  r \in Sent /\ request[r].runtime = k
  BY <1>0, <1>2, RecordTotalEffect, SentHandled
<1>3. ASSUME NEW r \in Requests, AppendTurn(r), runtime'[k] # runtime[k]
      PROVE  r \in Sent /\ request[r].runtime = k
  BY <1>0, <1>3, AppendTurnEffect, SentHandled
<1>4. ASSUME NEW r \in Requests, Handling(r), ~Load(r), ~RecordTotal(r), ~AppendTurn(r)
      PROVE  runtime' = runtime
  BY <1>4 DEF Handling, Find, Register, Pack, PackFails, KeepNothing, Number, Answer, Dump, Save,
              Respond
<1>5. ASSUME NEW rep \in Replicas, Crash(rep)
      PROVE  runtime'[k] \in {runtime[k], NewSession}
  BY Zenon, <1>5 DEF Crash
<1>6. ASSUME NEW c \in Clients, NEW rep \in Replicas, Send(c, rep)
      PROVE  runtime' = runtime
  BY <1>6 DEF Send
<1>7. ASSUME NEW c \in Clients, TimeOut(c) PROVE runtime' = runtime
  BY <1>7 DEF TimeOut
<1>8. ASSUME NEW lost \in Ids, Expire(lost) PROVE runtime' = runtime
  BY <1>8 DEF Expire
<1>9. CASE UNCHANGED vars
  BY <1>9 DEF vars
<1>. QED BY <1>1, <1>2, <1>3, <1>4, <1>5, <1>6, <1>7, <1>8, <1>9
         DEF Next, Handling, Finished

(* What the row of a handler says after its step.                          *)
LEMMA HandlingTotals ==
    ASSUME Basic, Ownership, OneAtATime, "timeouts" \notin env, TotalsSummed,
           [Next]_vars, NEW r \in Sent, Handling(r)
    PROVE  TotalsRow(r)'
<1>0. /\ TypeOK /\ Sent \subseteq Requests /\ r \in Requests /\ Noted(r) /\ TotalsRow(r)
      /\ request[r] \in Handler /\ request[r].copy \in Session
  <2>1. TypeOK /\ Sent \subseteq Requests /\ HandlerOK
    BY BasicFacts DEF Basic
  <2>2. request[r] \in Handler
    BY <2>1 DEF TypeOK
  <2>. QED BY <2>1, <2>2 DEF HandlerOK, TotalsSummed, Handler
<1>1. ASSUME request[r].phase \in {"packed", "copying"} PROVE Summed(SessionOf(r))
  <2>1. request[r].runtime \in Sent /\ request[r].runtime # 0 /\ InFlight(r)
    BY <1>0, <1>1, BasicFacts DEF Noted, Early, InFlight
  <2>2. ASSUME NEW q \in Sent, InMiddle(q), request[q].runtime = request[r].runtime
        PROVE  FALSE
    <3>1. InFlight(q)
      BY <2>2 DEF InMiddle, InFlight
    <3>2. q = r
      BY <2>1, <2>2, <3>1, OnlyOne
    <3>. QED BY <1>1, <2>2, <3>2 DEF InMiddle
  <2>. QED BY <2>1, <2>2 DEF TotalsSummed, SessionOf
<1>2. CASE \/ Find(r) \/ Load(r) \/ Register(r) \/ Pack(r) \/ PackFails(r)
           \/ Answer(r) \/ Save(r) \/ Respond(r)
  <2>1. ASSUME request'[r].phase \notin
                 {"numbering", "appending", "copying", "closing", "saving"}
        PROVE  TotalsRow(r)'
    BY <2>1 DEF TotalsRow, InMiddle
  <2>2. CASE Find(r)
    <3>1. request'[r].phase \in {"found", "loading"}
      BY <1>0, <2>2, FindEffect
    <3>. QED BY <2>1, <3>1
  <2>3. CASE Load(r)
    <3>1. request'[r].phase = "loaded"
      BY <1>0, <2>3, LoadEffect
    <3>. QED BY <2>1, <3>1
  <2>9. CASE Register(r)
    <3>1. request'[r].phase = "found"
      BY <1>0, <2>9, RegisterEffect
    <3>. QED BY <2>1, <3>1
  <2>4. CASE Pack(r)
    <3>1. request'[r].phase = "packed"
      BY <1>0, <2>4, PackEffect
    <3>. QED BY <2>1, <3>1
  <2>5. CASE PackFails(r)
    <3>1. request'[r].phase = "over"
      BY <1>0, <2>5, PackFailsEffect
    <3>. QED BY <2>1, <3>1
  <2>6. CASE Answer(r)
    <3>1. request'[r].phase = "dumping"
      BY <1>0, <2>6, AnswerEffect
    <3>. QED BY <2>1, <3>1
  <2>7. CASE Save(r)
    <3>1. request'[r].phase = "saved"
      BY <1>0, <2>7, SaveEffect
    <3>. QED BY <2>1, <3>1
  <2>8. CASE Respond(r)
    <3>1. request'[r].phase = "over"
      BY <1>0, <2>8, RespondEffect
    <3>. QED BY <2>1, <3>1
  <2>. QED BY <1>2, <2>2, <2>3, <2>4, <2>5, <2>6, <2>7, <2>8, <2>9
<1>3. CASE RecordTotal(r)
  <2>1. /\ request[r].phase = "packed" /\ request'[r].phase = "numbering"
        /\ Keeps(r, {"phase"})
    BY <1>0, <1>3, RecordTotalEffect
  <2>2. PICK k \in Sent : k = request[r].runtime
    BY <1>0, <2>1 DEF Noted, Early
  <2>3. /\ runtime'[k].total = runtime[k].total + TurnTokens(r)
        /\ runtime'[k].turns = runtime[k].turns
    BY <1>0, <1>3, <2>2, RecordTotalEffect
  <2>4. runtime[k].total = SumOfTurns(runtime[k])
    BY <1>1, <2>1, <2>2 DEF Summed, SessionOf
  <2>5. SumOfTurns(runtime'[k]) = SumOfTurns(runtime[k])
    BY <2>3, SumsOfTurns
  <2>6. request'[r].runtime = k /\ request'[r].base = request[r].base
    BY <2>1, <2>2 DEF Keeps, Fields
  <2>7. TurnTokens(r)' = TurnTokens(r)
    BY <2>6 DEF TurnTokens, Reported
  <2>8. SessionOf(r)' = runtime'[k]
    BY <2>6 DEF SessionOf
  <2>9. SumOfTurns(SessionOf(r))' = SumOfTurns(runtime'[k])
    BY <2>8 DEF SumOfTurns
  <2>. QED BY <2>1, <2>3, <2>4, <2>5, <2>7, <2>8, <2>9 DEF TotalsRow, InMiddle
<1>4. CASE Number(r)
  <2>1. /\ request[r].phase = "numbering" /\ request'[r].phase = "appending"
        /\ Keeps(r, {"phase", "num"}) /\ runtime' = runtime
    BY <1>0, <1>4, NumberEffect
  <2>2. request'[r].runtime = request[r].runtime /\ request'[r].base = request[r].base
    BY <2>1 DEF Keeps, Fields
  <2>3. SessionOf(r)' = SessionOf(r) /\ TurnTokens(r)' = TurnTokens(r)
    BY <2>1, <2>2 DEF SessionOf, TurnTokens, Reported
  <2>4. SumOfTurns(SessionOf(r))' = SumOfTurns(SessionOf(r))
    BY <2>3 DEF SumOfTurns
  <2>. QED BY <1>0, <2>1, <2>3, <2>4 DEF TotalsRow, InMiddle
<1>5. CASE AppendTurn(r)
  <2>1. request'[r].phase = "answering"
    BY <1>0, <1>5, AppendTurnEffect
  <2>. QED BY <2>1 DEF TotalsRow, InMiddle
<1>6. CASE Dump(r)
  <2>1. PICK copy \in Session : copy = request[r].copy
    BY <1>0
  <2>2. PICK s \in Session : s = SessionOf(r)
    <3>1. request[r].runtime \in Requests
      BY ZenonT(40), <1>0, <1>6, DumpEffect DEF Noted, Early
    <3>. QED BY <1>0, <3>1 DEF SessionOf, TypeOK
  <2>3. /\ Keeps(r, {"phase", "copy"}) /\ runtime' = runtime
        /\ \/ /\ request[r].phase = "dumping" /\ request'[r].phase = "copying"
              /\ request'[r].copy = [copy EXCEPT !.total = s.total]
           \/ /\ request[r].phase = "copying" /\ request'[r].phase = "closing"
              /\ request'[r].copy = [copy EXCEPT !.turns = s.turns]
           \/ /\ request[r].phase = "closing" /\ request'[r].phase = "saving"
              /\ request'[r].copy = [copy EXCEPT !.artifact = s.artifact]
    BY <1>0, <1>6, <2>1, <2>2, DumpEffect
  <2>4. SessionOf(r)' = s
    BY <2>2, <2>3 DEF Keeps, Fields, SessionOf
  <2>5. CASE request'[r].phase = "copying"
    <3>1. request'[r].copy.total = s.total
      BY <2>3, <2>5 DEF Session
    <3>. QED BY <2>4, <2>5, <3>1 DEF TotalsRow, InMiddle
  <2>6. CASE /\ request[r].phase = "copying" /\ request'[r].phase = "closing"
             /\ request'[r].copy = [copy EXCEPT !.turns = s.turns]
    <3>1. request'[r].copy.turns = s.turns /\ request'[r].copy.total = copy.total
      BY <2>6 DEF Session
    <3>2. copy.total = s.total /\ s.total = SumOfTurns(s)
      BY <1>0, <1>1, <2>1, <2>2, <2>6 DEF TotalsRow, Summed
    <3>3. SumOfTurns(request'[r].copy) = SumOfTurns(s)
      BY <3>1, SumsOfTurns
    <3>. QED BY <2>6, <3>1, <3>2, <3>3 DEF TotalsRow, InMiddle, Summed, SumOfTurns
  <2>7. CASE /\ request[r].phase = "closing" /\ request'[r].phase = "saving"
             /\ request'[r].copy = [copy EXCEPT !.artifact = s.artifact]
    <3>1. request'[r].copy.turns = copy.turns /\ request'[r].copy.total = copy.total
      BY <2>7 DEF Session
    <3>2. copy.total = SumOfTurns(copy)
      BY <1>0, <2>1, <2>7 DEF TotalsRow, Summed
    <3>3. SumOfTurns(request'[r].copy) = SumOfTurns(copy)
      BY <3>1, SumsOfTurns
    <3>. QED BY <2>7, <3>1, <3>2, <3>3 DEF TotalsRow, InMiddle, Summed, SumOfTurns
  <2>. QED BY <2>3, <2>5, <2>6, <2>7
<1>. QED BY <1>2, <1>3, <1>4, <1>5, <1>6 DEF Handling

(* Every step keeps the totals right.                                      *)
LEMMA NextTotals ==
    ASSUME Basic, Ownership, OneAtATime, TotalsSummed, [Next]_vars
    PROVE  TotalsSummed'
<1>0. /\ TypeOK /\ Sent \subseteq Requests /\ HandlerOK /\ Stable
      /\ Sent' \subseteq Requests
  BY BasicFacts, StepStable, SentNext DEF Basic
<1> SUFFICES ASSUME "timeouts" \notin env
             PROVE  /\ \A k \in Requests : k \in Sent' =>
                          ((\A r \in Sent' : InMiddle(r)' => request'[r].runtime # k)
                             => runtime'[k].total = SumOfTurns(runtime'[k]))
                    /\ \A r \in Requests : r \in Sent' => TotalsRow(r)'
                    /\ \A place \in Places, id \in Ids :
                          store'[place][id] # Nothing =>
                             store'[place][id].total = SumOfTurns(store'[place][id])
  BY <1>0 DEF TotalsSummed, Summed, SumOfTurns, Stable
<1>1. ASSUME NEW k \in Requests, k \in Sent',
             \A r \in Sent' : InMiddle(r)' => request'[r].runtime # k
      PROVE  runtime'[k].total = SumOfTurns(runtime'[k])
  <2>1. CASE runtime'[k] = NewSession
    <3>1. NewSession.total = 0
      BY DEF NewSession
    <3>. QED BY <2>1, <3>1, SumsOfTurns
  <2>2. CASE \E place \in Places, id \in Ids :
                store[place][id] # Nothing /\ runtime'[k] = store[place][id]
    BY <2>2 DEF TotalsSummed, Summed
  <2>3. ASSUME NEW r \in Sent, RecordTotal(r), request[r].runtime = k PROVE FALSE
    <3>1. request'[r].phase = "numbering" /\ request'[r].runtime = k
      BY <1>0, <2>3, RecordTotalEffect DEF Keeps, Fields
    <3>. QED BY <1>0, <1>1, <3>1 DEF InMiddle, Stable
  <2>4. ASSUME NEW r \in Sent, AppendTurn(r), request[r].runtime = k
        PROVE  runtime'[k].total = SumOfTurns(runtime'[k])
    <3>1. PICK t \in Nat : t = TurnTokens(r)
      <4>1. request[r].base \in 0..MaxRequests
        BY <1>0 DEF TypeOK, Handler
      <4>. QED BY <1>0, <4>1, TurnTokensNat
    <3>2. PICK num \in Nat : num = request[r].num
      BY <1>0 DEF TypeOK, Handler
    <3>3. PICK turn : turn = [req |-> r, num |-> num, tokens |-> t]
      OBVIOUS
    <3>4. turn \in Turn /\ turn.tokens = t
      BY <1>0, <3>3 DEF Turn
    <3>5. /\ request[r].phase = "appending"
          /\ runtime'[k].turns = Append(runtime[k].turns, turn)
          /\ runtime'[k].total = runtime[k].total
      BY <1>0, <2>4, <3>1, <3>2, <3>3, AppendTurnEffect
    <3>6. runtime[k].total = SumOfTurns(runtime[k]) + t
      BY <2>4, <3>1, <3>5 DEF TotalsSummed, TotalsRow, InMiddle, SessionOf
    <3>7. runtime[k] \in Session
      BY <1>0 DEF TypeOK
    <3>8. SumOfTurns(runtime'[k]) = SumOfTurns(runtime[k]) + turn.tokens
      BY <3>4, <3>5, <3>7, SumAppended
    <3>. QED BY <3>4, <3>5, <3>6, <3>8
  <2>5. CASE runtime'[k] = runtime[k] /\ k \notin Sent
    <3>1. runtime[k] = NewSession
      BY <2>5 DEF Ownership, Owned, RuntimesOwned, RuntimeOwned
    <3>. QED BY <2>1, <2>5, <3>1
  <2>6. CASE /\ runtime'[k] = runtime[k] /\ k \in Sent /\ runtime'[k] # NewSession
             /\ \A r \in Sent : RecordTotal(r) \/ AppendTurn(r) => request[r].runtime # k
    <3>1. ASSUME NEW r \in Sent, InMiddle(r), request[r].runtime = k PROVE FALSE
      <4>1. r \in Sent' /\ r \in Requests
        BY <1>0 DEF Stable
      <4>2. CASE request'[r] = request[r]
        BY <1>1, <3>1, <4>1, <4>2 DEF InMiddle
      <4>3. CASE Handling(r)
        <5>1. Number(r)
          <6>1. ~(Find(r) \/ Load(r) \/ Register(r))
            BY Zenon, <3>1 DEF Find, Load, Register, Pass, InMiddle
          <6>2. ~(RecordTotal(r) \/ AppendTurn(r))
            BY <2>6, <3>1
          <6>3. ~(Pack(r) \/ PackFails(r) \/ Answer(r))
            BY <3>1 DEF Pack, PackFails, Answer, PassNoting, InMiddle
          <6>4. ~(Dump(r) \/ Save(r) \/ Respond(r))
            BY <3>1 DEF Dump, Save, Respond, PassNoting, InMiddle
          <6>. QED BY SMTT(30), <4>3, <6>1, <6>2, <6>3, <6>4 DEF Handling
        <5>2. request'[r].phase = "appending" /\ request'[r].runtime = k
          BY <1>0, <3>1, <4>1, <5>1, NumberEffect DEF Keeps, Fields
        <5>. QED BY <1>1, <4>1, <5>2 DEF InMiddle
      <4>4. CASE Ended(r)
        <5>1. PICK rep \in Replicas : Crash(rep) /\ Dies(r, rep)
          BY <4>4 DEF Ended
        <5>2. request[k].at = request[r].at
          <6>1. PICK owner \in [Ids -> Clients \cup {Nothing}] : Owned(owner)
            BY DEF Ownership
          <6>2. HandlerOwned(owner, r) /\ request[r].runtime # 0
            BY <2>6, <3>1, <6>1, BasicFacts, <1>0 DEF Owned
          <6>. QED BY <3>1, <6>2 DEF HandlerOwned
        <5>3. runtime'[k] = NewSession
          BY Zenon, <5>1, <5>2 DEF Crash, Dies
        <5>. QED BY <2>6, <5>3
      <4>. QED BY <4>1, <4>2, <4>3, <4>4, RequestSteps
    <3>. QED BY <2>6, <3>1 DEF TotalsSummed, Summed
  <2>7. \/ runtime'[k] = runtime[k]
        \/ runtime'[k] = NewSession
        \/ \E place \in Places, id \in Ids :
              store[place][id] # Nothing /\ runtime'[k] = store[place][id]
        \/ \E r \in Sent : /\ RecordTotal(r) \/ AppendTurn(r)
                           /\ request[r].runtime = k
    BY RuntimeSteps
  <2>. QED BY <2>1, <2>2, <2>3, <2>4, <2>5, <2>6, <2>7
<1>2. ASSUME NEW r \in Requests, r \in Sent' PROVE TotalsRow(r)'
  <2>1. CASE r \in Sent /\ Handling(r)
    BY <2>1, HandlingTotals
  <2>2. CASE r \notin Sent /\ Began(r)
    BY <2>2 DEF Began, TotalsRow, InMiddle
  <2>3. CASE r \in Sent /\ Ended(r)
    BY <2>3 DEF Ended, TotalsRow, InMiddle
  <2>4. CASE r \in Sent /\ request'[r] = request[r] /\ ~Handling(r)
    <3>1. TotalsRow(r) /\ Noted(r)
      BY <1>0, <2>4 DEF TotalsSummed, HandlerOK
    <3>2. CASE request[r].phase \in {"numbering", "appending", "copying"}
      <4>1. InFlight(r) /\ request[r].runtime # 0
        BY <2>4, <3>1, <3>2, BasicFacts, <1>0 DEF InFlight, Noted, Early
      <4>2. SessionOf(r)' = SessionOf(r)
        BY <2>4, <4>1, SessionKept
      <4>3. TurnTokens(r)' = TurnTokens(r)
        BY <2>4 DEF TurnTokens, Reported
      <4>4. SumOfTurns(SessionOf(r))' = SumOfTurns(SessionOf(r))
        BY <4>2 DEF SumOfTurns
      <4>. QED BY <2>4, <3>1, <3>2, <4>2, <4>3, <4>4 DEF TotalsRow, InMiddle
    <3>3. CASE request[r].phase \notin {"numbering", "appending", "copying"}
      BY <2>4, <3>1, <3>3 DEF TotalsRow, InMiddle, Summed, SumOfTurns
    <3>. QED BY <3>2, <3>3
  <2>. QED BY <1>2, <2>1, <2>2, <2>3, <2>4, RequestSteps
<1>3. ASSUME NEW place \in Places, NEW id \in Ids, store'[place][id] # Nothing
      PROVE  store'[place][id].total = SumOfTurns(store'[place][id])
  <2>1. CASE store'[place][id] = store[place][id]
    BY <1>3, <2>1 DEF TotalsSummed, Summed
  <2>2. CASE store'[place][id] # store[place][id]
    <3>1. PICK r \in Sent : request[r].phase = "saving" /\ store'[place][id] = request[r].copy
      BY <1>3, <2>2, StoreSteps
    <3>. QED BY <3>1 DEF TotalsSummed, TotalsRow, Summed
  <2>. QED BY <2>1, <2>2
<1>. QED BY <1>1, <1>2, <1>3

(* The totals of the sessions in the store are those of their turns,       *)
(* although as_dict reads the total before the turns: without timeouts no  *)
(* other handler of the session is at work in between.                     *)
THEOREM TotalsAreTrue == Spec => []StoredTotals
<1>1. Init => TotalsSummed
  <2>1. Init => /\ \A r \in Sent : FALSE
                /\ \A place \in Places, id \in Ids : store[place][id] = Nothing
    BY DEF Init, Sent
  <2>. QED BY <2>1 DEF TotalsSummed
<1>2. TotalsSummed => StoredTotals
  BY DEF TotalsSummed, StoredTotals, Summed
<1>. QED BY <1>1, <1>2, NextTotals, AlwaysBasic, AlwaysOwnership, AlwaysOneAtATime, PTL DEF Spec

----------------------------------------------------------------------------
(* What the delta of an answer is made against is the last answer its      *)
(* client has: clients keep to their replica, no request is cut off.       *)
Steady == "sticky" \in env /\ env \cap {"timeouts", "crashes"} = {}

IsLast(a, S) == \/ a = 0 /\ S = {}
                \/ a \in S /\ \A q \in S : q <= a

HeardBefore(r) ==
    {q \in 1..(r - 1) : /\ Answered(q)
                        /\ request[q].by = request[r].by
                        /\ request[q].id = request[r].id}

(* A client has the last of its requests in flight, if any.                *)
InSequence ==
    "timeouts" \notin env =>
        \A r, q \in Sent : InFlight(r) /\ request[q].by = request[r].by => q <= r

(* A live runtime is registered under the id of the request that made it.  *)
LiveNamed ==
    Steady => \A rep \in Replicas, id \in Ids :
                 live[rep][id] # 0 => request[live[rep][id]].id = id

(* The session a client holds is live on its replica.                      *)
HeldLive ==
    /\ \A c \in Clients : sid[c] # 0 =>
          home[c] # Nothing /\ live[home[c]][sid[c]] # 0
    /\ \A r \in Sent :
          /\ request[r].phase = "arrived" /\ request[r].asked # 0 =>
                live[request[r].at][request[r].asked] # 0
          /\ request[r].phase = "loading" => request[r].asked = 0

(* The artifact a handler starts from, the one it leaves, and its base.    *)
BaseRow(r) ==
    LET q == request[r]
    IN  /\ q.phase \in {"loaded", "found", "packed"} =>
              IsLast(SessionOf(r).artifact, Heard(q.id))
        /\ q.phase \notin BeforeRecord \cup {"over"} => SessionOf(r).artifact = r
        /\ q.phase \notin Early \cup {"loaded", "found", "over"} \/ Answered(r) =>
              IsLast(q.base, HeardBefore(r))

AtRest(id) == \A r \in Sent : InFlight(r) => request[r].id # id

BasesLast ==
    Steady =>
        /\ HeldLive
        /\ \A r \in Sent : BaseRow(r)
        /\ \A rep \in Replicas, id \in Ids :
              live[rep][id] # 0 /\ AtRest(id)
              => IsLast(runtime[live[rep][id]].artifact, Heard(id))

(* Only Send adds a request.                                               *)
LEMMA SentChanges ==
    ASSUME [Next]_vars, Sent' # Sent
    PROVE  \E c \in Clients, rep \in Replicas : Send(c, rep)
<1>1. sent' # sent
  BY DEF Sent
<1>2. ASSUME NEW r \in Requests, Handling(r) PROVE FALSE
  <2>1. UNCHANGED sent
    BY Zenon, <1>2 DEF Handling, Find, Load, Register, Pack, PackFails, RecordTotal, Number,
              AppendTurn,
                Answer, Dump, Save, Respond, clients
  <2>. QED BY SMTT(30), <1>1, <2>1
<1>3. ASSUME NEW c \in Clients, TimeOut(c) PROVE FALSE
  BY <1>1, <1>3 DEF TimeOut
<1>4. ASSUME NEW rep \in Replicas, Crash(rep) PROVE FALSE
  BY Zenon, <1>1, <1>4 DEF Crash
<1>5. ASSUME NEW lost \in Ids, Expire(lost) PROVE FALSE
  BY <1>1, <1>5 DEF Expire, clients
<1>6. ~UNCHANGED vars
  BY <1>1 DEF vars, clients
<1>. QED BY <1>2, <1>3, <1>4, <1>5, <1>6 DEF Next, Handling, Finished

(* Every step leaves a client with its last request only.                  *)
LEMMA NextInSequence ==
    ASSUME Basic, OneAtATime, InSequence, [Next]_vars
    PROVE  InSequence'
<1>0. /\ TypeOK /\ Sent \subseteq Requests /\ HandlerOK /\ Stable
      /\ Sent' \subseteq Requests
  BY BasicFacts, StepStable, SentNext DEF Basic
<1> SUFFICES ASSUME "timeouts" \notin env, NEW r \in Requests, r \in Sent',
                    NEW q \in Requests, q \in Sent',
                    request'[r].phase # "over", request'[q].by = request'[r].by
             PROVE  q <= r
  BY <1>0 DEF InSequence, InFlight, Stable
<1>1. ASSUME r \in Sent PROVE InFlight(r)
  BY <1>0, <1>1, OverFixed DEF InFlight
<1>2. CASE r \in Sent /\ q \in Sent
  <2>1. request[q].by = request[r].by
    BY <1>0, <1>2 DEF Stable
  <2>. QED BY <1>1, <1>2, <2>1 DEF InSequence
<1>3. CASE r \notin Sent \/ q \notin Sent
  <2>1. PICK c \in Clients, rep \in Replicas : Send(c, rep)
    BY <1>0, <1>3, SentChanges
  <2>2. /\ Sent' = Sent \cup {sent + 1} /\ sent + 1 \notin Sent /\ sent \in Nat
        /\ request'[sent + 1].by = c /\ waiting[c] = 0
    BY Zenon, <1>0, <2>1, SendOne, BasicFacts DEF Send
  <2>3. CASE r = sent + 1
    BY <2>2, <2>3 DEF Sent
  <2>4. CASE r \in Sent /\ q = sent + 1
    <3>1. request[r].by = c
      BY <1>0, <2>2, <2>4 DEF Stable
    <3>2. waiting[c] = r /\ r # 0
      BY <1>0, <1>1, <2>4, <3>1, BasicFacts DEF OneAtATime
    <3>. QED BY <2>2, <3>2
  <2>. QED BY <1>3, <2>2, <2>3, <2>4
<1>. QED BY <1>2, <1>3

(* Each step keeps the ids under which runtimes are registered.            *)
LEMMA NextLiveNamed ==
    ASSUME Basic, UsesLive, LiveNamed, [Next]_vars
    PROVE  LiveNamed'
<1>0. /\ TypeOK /\ Sent \subseteq Requests /\ Stable /\ Registered
  BY BasicFacts, StepStable DEF Basic
<1> SUFFICES ASSUME Steady, NEW rep \in Replicas, NEW id \in Ids, live'[rep][id] # 0
             PROVE  request'[live'[rep][id]].id = id
  BY <1>0 DEF LiveNamed, Steady, Stable
<1>1. CASE live'[rep][id] # live[rep][id]
  <2>1. ~Crash(rep)
    BY Zenon DEF Crash, Steady
  <2>2. PICK r \in Sent : /\ Register(r) /\ live'[rep][id] = r /\ id = request[r].id
    BY <1>1, <2>1, LiveSteps
  <2>3. request'[r].id = request[r].id
    BY <1>0, <2>2, RegisterEffect DEF Keeps, Fields
  <2>. QED BY <2>2, <2>3
<1>2. CASE live'[rep][id] = live[rep][id]
  <2>1. PICK k \in Sent : k = live[rep][id] /\ k # 0
    BY <1>0, <1>2 DEF Registered
  <2>2. request[k].id = id /\ request[k].phase \notin Early
    BY <2>1 DEF LiveNamed, UsesLive
  <2>3. CASE request'[k] = request[k]
    BY <1>2, <2>1, <2>2, <2>3
  <2>4. CASE Handling(k)
    <3>1. ~Find(k) /\ ~Load(k)
      BY Zenon, <2>2 DEF Find, Load, Early
    <3>2. request'[k].id = request[k].id
      BY <1>0, <2>4, <3>1, HandlingLate
    <3>. QED BY SMTT(30), <1>2, <2>1, <2>2, <3>2
  <2>5. ~Ended(k)
    BY DEF Ended, Steady
  <2>6. k \in Sent' /\ k \in Requests
    BY <1>0 DEF Stable
  <2>. QED BY <2>3, <2>4, <2>5, <2>6, RequestSteps
<1>. QED BY <1>1, <1>2

(* Each step keeps what clients hold alive.                                *)
LEMMA NextHeldLive ==
    ASSUME Basic, UsesLive, AtHome, HeldLive, Steady, [Next]_vars
    PROVE  HeldLive'
<1>0. /\ TypeOK /\ Sent \subseteq Requests /\ Stable /\ Sent' \subseteq Requests
      /\ HandlerOK /\ sent \in Nat /\ ids \in 0..MaxRequests /\ MaxRequests \in Nat
      /\ sid \in [Clients -> 0..ids] /\ home \in [Clients -> Replicas \cup {Nothing}]
  BY SMTT(30), BasicFacts, StepStable, SentNext DEF Basic, TypeOK
<1>1. /\ \A rep \in Replicas : ~Crash(rep)
      /\ \A c \in Clients : ~TimeOut(c)
      /\ \A r : ~Ended(r)
  BY Zenon DEF Crash, TimeOut, Steady, Ended
<1>2. \A rep \in Replicas, id \in Ids : live[rep][id] # 0 => live'[rep][id] # 0
  <2>1. 0 \notin Sent
    BY DEF Sent
  <2>. QED BY <1>1, <2>1, LiveSteps
<1>3. \A c \in Clients : sid[c] # 0 =>
         /\ home[c] \in Replicas /\ sid[c] \in Ids
         /\ live[home[c]][sid[c]] # 0
  BY <1>0 DEF HeldLive, Ids
<1>4. ASSUME NEW c \in Clients, NEW rep \in Replicas, Send(c, rep)
      PROVE  /\ \A d \in Clients : home'[d] = IF d = c THEN rep ELSE home[d]
             /\ sid[c] # 0 => home[c] = rep
             /\ sid' = sid
  BY <1>0, <1>3, <1>4, SessionConstants DEF Send, Steady
<1>5. ASSUME \A c \in Clients, rep \in Replicas : ~Send(c, rep)
      PROVE  home' = home
  <2>1. ASSUME NEW r \in Requests, Handling(r) PROVE home' = home
    BY Zenon, <2>1 DEF Handling, Find, Load, Register, Pack, PackFails, RecordTotal, Number,
              AppendTurn,
                Answer, Dump, Save, Respond, clients
  <2>2. ASSUME NEW lost \in Ids, Expire(lost) PROVE home' = home
    BY <2>2 DEF Expire, clients
  <2>3. UNCHANGED vars => home' = home
    BY DEF vars, clients
  <2>. QED BY SMTT(30), <1>1, <1>5, <2>1, <2>2, <2>3 DEF Next, Handling, Finished
<1>6. ASSUME NEW c \in Clients, sid'[c] # sid[c]
      PROVE  \E r \in Sent : /\ Respond(r) /\ request[r].by = c
                             /\ sid'[c] = request[r].id
  <2>1. ASSUME NEW r \in Requests, Handling(r), ~Respond(r) PROVE FALSE
    <3>1. UNCHANGED sid
      BY Zenon, <2>1 DEF Handling, Find, Load, Register, Pack, PackFails, RecordTotal, Number,
              AppendTurn,
                  Answer, Dump, Save, clients
    <3>. QED BY SMTT(30), <1>6, <3>1
  <2>2. ASSUME NEW lost \in Ids, Expire(lost) PROVE FALSE
    BY <1>6, <2>2 DEF Expire, clients
  <2>3. ASSUME NEW d \in Clients, NEW rep \in Replicas, Send(d, rep) PROVE FALSE
    BY <1>6, <2>3 DEF Send
  <2>4. ~UNCHANGED vars
    BY <1>6 DEF vars, clients
  <2>5. PICK r \in Requests : Respond(r)
    BY <1>1, <2>1, <2>2, <2>3, <2>4 DEF Next, Handling, Finished
  <2>6. r \in Sent
    BY <1>0, <2>5, SentHandled, RespondEffect
  <2>7. sid' = [sid EXCEPT ![request[r].by] = request[r].id]
    BY <1>0, <1>6, <2>5, RespondEffect
  <2>. QED BY <1>0, <1>6, <2>5, <2>6, <2>7
<1>7. ASSUME NEW c \in Clients, sid'[c] # 0
      PROVE  home'[c] # Nothing /\ live'[home'[c]][sid'[c]] # 0
  <2>1. CASE sid'[c] = sid[c]
    <3>1. home'[c] = home[c]
      BY <1>4, <1>5, <1>7, <2>1
    <3>. QED BY <1>2, <1>3, <1>7, <2>1, <3>1, SessionConstants
  <2>2. CASE sid'[c] # sid[c]
    <3>1. PICK r \in Sent : /\ Respond(r) /\ request[r].by = c
                            /\ sid'[c] = request[r].id
      BY <1>6, <2>2
    <3>2. /\ request[r].phase = "saved" /\ home' = home /\ live' = live
      BY <1>0, <3>1, RespondEffect
    <3>3. /\ request[r].id # 0 /\ request[r].id \in Ids
          /\ request[r].at \in Replicas /\ request[r].runtime # 0
      BY <1>0, <3>2, BasicFacts DEF HandlerOK, Noted, Early, Ids
    <3>4. live[request[r].at][request[r].id] # 0
      BY <3>2, <3>3 DEF UsesLive, Early, Steady
    <3>5. home[c] = request[r].at
      BY <3>1, <3>2 DEF AtHome, InFlight, Steady
    <3>. QED BY <3>1, <3>2, <3>3, <3>4, <3>5, SessionConstants
  <2>. QED BY <2>1, <2>2
<1>8. ASSUME NEW r \in Requests, r \in Sent'
      PROVE  /\ request'[r].phase = "arrived" /\ request'[r].asked # 0 =>
                   live'[request'[r].at][request'[r].asked] # 0
             /\ request'[r].phase = "loading" => request'[r].asked = 0
  <2>1. CASE r \in Sent /\ request'[r] = request[r]
    <3>1. request[r].at \in Replicas /\ (request[r].asked # 0 => request[r].asked \in Ids)
      BY <1>0, <2>1, BasicFacts DEF Ids
    <3>. QED BY <1>2, <2>1, <3>1 DEF HeldLive
  <2>2. CASE r \in Sent /\ Handling(r)
    <3>1. request'[r].asked = request[r].asked
      BY <1>0, <2>2, HandlingOne
    <3>2. CASE Find(r)
      <4>1. /\ request[r].phase = "arrived" /\ request'[r].phase \in {"found", "loading"}
            /\ request'[r].phase = "loading" /\ request[r].asked # 0 =>
                  live[request[r].at][request[r].asked] = 0
        BY <1>0, <3>2, FindEffect
      <4>. QED BY <2>2, <3>1, <4>1 DEF HeldLive
    <3>3. CASE ~Find(r)
      <4>1. request'[r].phase \notin Early
        <5>1. CASE Load(r)
          BY <1>0, <5>1, LoadEffect DEF Early
        <5>2. CASE Pack(r) \/ PackFails(r) \/ Number(r) \/ Answer(r) \/ Respond(r)
          BY <1>0, <5>2, PackEffect, PackFailsEffect, NumberEffect, AnswerEffect,
             RespondEffect DEF Early
        <5>3. CASE Register(r) \/ RecordTotal(r) \/ AppendTurn(r)
          <6>1. request'[r].phase \in {"found", "numbering", "answering"}
            BY <1>0, <5>3, RegisterEffect, RecordTotalEffect, AppendTurnEffect
          <6>. QED BY <6>1 DEF Early
        <5>4. CASE Dump(r)
          <6>1. request'[r].phase \in {"copying", "closing", "saving"}
            BY <1>0, <5>4, DumpEffect
          <6>. QED BY <6>1 DEF Early
        <5>5. CASE Save(r)
          <6>1. request'[r].phase = "saved"
            BY <1>0, <5>5, SaveEffect
          <6>. QED BY <6>1 DEF Early
        <5>. QED BY <2>2, <3>3, <5>1, <5>2, <5>3, <5>4, <5>5 DEF Handling
      <4>. QED BY <4>1 DEF Early
    <3>. QED BY <3>2, <3>3
  <2>3. CASE r \notin Sent /\ Began(r)
    <3>1. PICK c \in Clients, rep \in Replicas : Send(c, rep)
      BY <1>8, <2>3, SentChanges
    <3>2. /\ Sent' = Sent \cup {sent + 1}
          /\ request'[sent + 1].at = rep /\ request'[sent + 1].asked = sid[c]
      BY <1>0, <3>1, SendOne
    <3>3. r = sent + 1
      BY <1>8, <2>3, <3>2
    <3>4. sid[c] # 0 => home[c] = rep
      BY <1>4, <3>1
    <3>5. request'[r].phase = "arrived"
      BY <2>3 DEF Began
    <3>. QED BY <1>2, <1>3, <3>2, <3>3, <3>4, <3>5
  <2>. QED BY <1>1, <1>8, <2>1, <2>2, <2>3, RequestSteps
<1>9. HeldLive' <=>
         /\ \A c \in Clients : sid'[c] # 0 =>
               home'[c] # Nothing /\ live'[home'[c]][sid'[c]] # 0
         /\ \A r \in Sent' :
               /\ request'[r].phase = "arrived" /\ request'[r].asked # 0 =>
                     live'[request'[r].at][request'[r].asked] # 0
               /\ request'[r].phase = "loading" => request'[r].asked = 0
  BY DEF HeldLive
<1>. QED BY <1>0, <1>7, <1>8, <1>9

HeardBeforeNext(r) ==
    {q \in 1..(r - 1) : /\ request'[q].status = 200
                        /\ request'[q].by = request'[r].by
                        /\ request'[q].id = request'[r].id}

(* What was heard before a request is settled when the request arrives.    *)
LEMMA HeardBeforeSettled ==
    ASSUME Basic, InSequence, "timeouts" \notin env, [Next]_vars, NEW r \in Sent,
           request'[r].id = request[r].id
    PROVE  HeardBeforeNext(r) = HeardBefore(r)
<1>0. /\ TypeOK /\ Sent \subseteq Requests /\ Stable /\ r \in Nat
      /\ 1..(r - 1) \subseteq Sent
      /\ \A q \in 1..(r - 1) : q \in Nat /\ q < r
  <2>1. TypeOK /\ Sent \subseteq Requests /\ Stable /\ r \in 1..sent /\ sent \in Nat
    BY BasicFacts, StepStable DEF Basic, Sent
  <2>. QED BY <2>1 DEF Sent
<1>1. ASSUME NEW q \in 1..(r - 1)
      PROVE  (q \in HeardBeforeNext(r)) <=> (q \in HeardBefore(r))
  <2>1. request'[q].by = request[q].by /\ request'[r].by = request[r].by
    BY <1>0 DEF Stable
  <2>2. CASE Answered(q)
    <3>1. request'[q] = request[q]
      BY <1>0, <2>2, OverFixed
    <3>. QED BY <2>1, <3>1 DEF HeardBeforeNext, HeardBefore, Answered
  <2>3. CASE ~Answered(q)
    <3>1. ASSUME q \in HeardBeforeNext(r) PROVE FALSE
      <4>1. q \in HeardNext(request[r].id) \ Heard(request[r].id)
        BY <1>0, <2>3, <3>1 DEF HeardBeforeNext, HeardNext, Heard, Stable
      <4>2. request[q].phase = "saved"
        BY <4>1, HeardSteps
      <4>3. request[r].by = request[q].by
        BY <2>1, <3>1 DEF HeardBeforeNext
      <4>4. r <= q
        BY <1>0, <4>2, <4>3 DEF InSequence, InFlight
      <4>. QED BY <1>0, <4>4
    <3>. QED BY <2>3, <3>1 DEF HeardBefore
  <2>. QED BY <2>2, <2>3
<1>. QED BY <1>1 DEF HeardBeforeNext, HeardBefore

(* All that was heard in the session of a handler came before it.          *)
LEMMA HeardIsBefore ==
    ASSUME Basic, Ownership, InSequence, "timeouts" \notin env, NEW r \in Sent,
           InFlight(r), request[r].id # 0
    PROVE  Heard(request[r].id) = HeardBefore(r)
<1>0. /\ TypeOK /\ r \in 1..sent /\ sent \in Nat /\ HandlerOK
      /\ request[r].id \in Ids
  BY BasicFacts DEF Basic, Sent, Ids
<1>1. PICK owner \in [Ids -> Clients \cup {Nothing}] : Owned(owner)
  BY DEF Ownership
<1>2. ASSUME NEW q \in Heard(request[r].id) PROVE q \in HeardBefore(r)
  <2>1. q \in Sent /\ Answered(q) /\ request[q].id = request[r].id
    BY <1>2 DEF Heard
  <2>2. request[q].by = request[r].by
    <3>1. HandlerOwned(owner, q) /\ HandlerOwned(owner, r)
      BY <1>1, <2>1 DEF Owned
    <3>. QED BY <2>1, <3>1 DEF HandlerOwned
  <2>3. q <= r
    BY <2>1, <2>2 DEF InSequence
  <2>4. q # r
    BY <2>1 DEF Basic, HandlerOK, Noted, Answered, InFlight
  <2>5. q \in 1..(r - 1)
    BY <1>0, <2>1, <2>3, <2>4 DEF Sent
  <2>. QED BY <2>1, <2>2, <2>5 DEF HeardBefore
<1>3. ASSUME NEW q \in HeardBefore(r) PROVE q \in Heard(request[r].id)
  <2>1. q \in 1..(r - 1) /\ Answered(q) /\ request[q].id = request[r].id
    BY <1>3 DEF HeardBefore
  <2>. QED BY <1>0, <2>1 DEF Heard, Sent
<1>. QED BY <1>2, <1>3

(* The row of a request after a step, with what it refers to.              *)
LEMMA BaseRowNext ==
    ASSUME NEW r
    PROVE  BaseRow(r)' <=>
              /\ request'[r].phase \in {"loaded", "found", "packed"} =>
                    IsLast(SessionOf(r)'.artifact, HeardNext(request'[r].id))
              /\ request'[r].phase \notin BeforeRecord \cup {"over"} =>
                    SessionOf(r)'.artifact = r
              /\ request'[r].phase \notin Early \cup {"loaded", "found", "over"}
                    \/ request'[r].status = 200 =>
                 IsLast(request'[r].base, HeardBeforeNext(r))
BY DEF BaseRow, Heard, HeardNext, HeardBefore, HeardBeforeNext, Answered

(* What the row of a handler says after its step.                          *)
LEMMA HandlingBase ==
    ASSUME Basic, Ownership, OneAtATime, UsesLive, InSequence, BasesLast, Steady,
           [Next]_vars, NEW r \in Sent, Handling(r)
    PROVE  BaseRow(r)'
<1>0. /\ TypeOK /\ Sent \subseteq Requests /\ r \in Requests /\ Noted(r)
      /\ BaseRow(r) /\ HeldLive /\ "timeouts" \notin env
      /\ request[r].at \in Replicas /\ request[r].asked \in 0..ids /\ ids \in Nat
      /\ request[r].status = 0
  <2>1. TypeOK /\ Sent \subseteq Requests /\ HandlerOK /\ BaseRow(r) /\ HeldLive
    BY BasicFacts DEF Basic, BasesLast
  <2>2. request[r].phase # "over"
    BY <2>1, HandlingPhases
  <2>. QED BY <2>1, <2>2, BasicFacts DEF HandlerOK, Noted, Steady
<1>1. CASE Find(r)
  <2>1. PICK asked \in 0..ids : asked = request[r].asked
    BY <1>0
  <2>2. PICK k : k = live[request[r].at][asked]
    OBVIOUS
  <2>3. CASE request'[r].phase = "loading"
    <3>1. Keeps(r, {"phase", "id", "runtime"})
      BY <1>0, <1>1, FindEffect
    <3>2. request'[r].status = 0
      BY <1>0, <3>1 DEF Keeps, Fields
    <3>. QED BY <2>3, <3>2, BaseRowNext DEF BeforeRecord, Early
  <2>4. CASE request'[r].phase # "loading"
    <3>1. /\ asked # 0 /\ k # 0 /\ request'[r].phase = "found"
          /\ request'[r].id = asked /\ request'[r].runtime = k
          /\ request[r].phase = "arrived" /\ runtime' = runtime
          /\ request'[r].status = 0
      BY <1>0, <1>1, <2>1, <2>2, <2>4, FindEffect DEF Keeps, Fields
    <3>2. asked \in Ids
      BY <1>0, <2>1, <3>1, BasicFacts DEF Ids
    <3>3. AtRest(asked)
      <4>1. ASSUME NEW q \in Sent, InFlight(q), request[q].id = asked PROVE FALSE
        <5>1. InFlight(r)
          BY <3>1 DEF InFlight
        <5>2. r = q
          BY <1>0, <2>1, <3>1, <4>1, <5>1, OnlyOne
        <5>. QED BY <1>0, <3>1, <4>1, <5>2 DEF Noted, Early
      <4>. QED BY <4>1 DEF AtRest
    <3>4. IsLast(runtime[k].artifact, Heard(asked))
      BY <1>0, <2>2, <3>1, <3>2, <3>3 DEF BasesLast
    <3>5. ~Respond(r)
      BY <1>0, <3>1, RespondEffect
    <3>6. HeardNext(asked) = Heard(asked)
      BY <1>1, <3>5, HeardQuiet
    <3>7. SessionOf(r)'.artifact = runtime[k].artifact
      BY <3>1 DEF SessionOf
    <3>. QED BY <3>1, <3>4, <3>6, <3>7, BaseRowNext DEF BeforeRecord, Early
  <2>. QED BY <2>3, <2>4
<1>2. CASE Load(r)
  <2>1. /\ request[r].phase = "loading" /\ request'[r].phase = "loaded"
        /\ request'[r].runtime = r /\ request'[r].status = 0
    <3>1. /\ request[r].phase = "loading" /\ request'[r].phase = "loaded"
          /\ request'[r].runtime = r /\ Keeps(r, {"phase", "id", "runtime"})
      BY <1>0, <1>2, LoadEffect
    <3>. QED BY <1>0, <3>1 DEF Keeps, Fields
  <2>2. request[r].asked = 0
    BY <1>0, <2>1 DEF HeldLive
  <2>3. request'[r].id = ids + 1 /\ runtime' = [runtime EXCEPT ![r] = NewSession]
    BY <1>0, <1>2, <2>2, LoadEffect
  <2>4. runtime'[r] = NewSession /\ NewSession.artifact = 0
    BY <1>0, <2>3 DEF TypeOK, NewSession
  <2>5. Heard(ids + 1) = {}
    BY <1>0, BasicFacts DEF Heard
  <2>6. ~Respond(r)
    BY <1>0, <2>1, RespondEffect
  <2>7. HeardNext(ids + 1) = {}
    BY <1>2, <2>5, <2>6, HeardQuiet
  <2>8. SessionOf(r)'.artifact = 0
    BY <2>1, <2>4 DEF SessionOf
  <2>9. IsLast(SessionOf(r)'.artifact, HeardNext(request'[r].id))
    BY <2>3, <2>7, <2>8 DEF IsLast
  <2>. QED BY <2>1, <2>9, BaseRowNext DEF BeforeRecord, Early
<1>3. ASSUME ~Find(r), ~Load(r)
      PROVE  /\ request'[r].id = request[r].id /\ request'[r].runtime = request[r].runtime
             /\ request[r].phase \notin Early \cup {"over"} /\ InFlight(r)
             /\ request[r].id # 0 /\ request[r].runtime \in Requests
             /\ HeardBeforeNext(r) = HeardBefore(r)
             /\ Heard(request[r].id) = HeardBefore(r)
  <2>1. /\ request'[r].id = request[r].id /\ request'[r].runtime = request[r].runtime
        /\ request[r].phase \notin Early \cup {"over"}
        /\ request[r].id # 0 /\ request[r].runtime \in Sent
    BY <1>0, <1>3, HandlingLate
  <2>2. InFlight(r)
    BY <2>1 DEF InFlight
  <2>. QED BY <1>0, <2>1, <2>2, HeardBeforeSettled, HeardIsBefore
<1>4. CASE Pack(r)
  <2>1. /\ request[r].phase = "found" /\ request'[r].phase = "packed"
        /\ request'[r].base = SessionOf(r).artifact
        /\ request'[r].status = 0 /\ runtime' = runtime
    BY <1>0, <1>4, PackEffect DEF Keeps, Fields
  <2>2. ~Respond(r) /\ ~Find(r) /\ ~Load(r)
    BY <2>1 DEF Find, Load, Respond, PassNoting
  <2>3. IsLast(SessionOf(r).artifact, Heard(request[r].id))
    BY <1>0, <2>1 DEF BaseRow
  <2>4. SessionOf(r)' = SessionOf(r) /\ HeardNext(request[r].id) = Heard(request[r].id)
    BY <1>3, <1>4, <2>1, <2>2, HeardQuiet DEF SessionOf
  <2>. QED BY <1>3, <2>1, <2>2, <2>3, <2>4, BaseRowNext DEF BeforeRecord
<1>5. CASE PackFails(r)
  <2>1. request'[r].phase = "over" /\ request'[r].status = 500
    BY <1>0, <1>5, PackFailsEffect
  <2>. QED BY <2>1, BaseRowNext
<1>6. CASE RecordTotal(r)
  <2>1. /\ request[r].phase = "packed" /\ request'[r].phase = "numbering"
        /\ Keeps(r, {"phase"})
    BY <1>0, <1>6, RecordTotalEffect
  <2>2. request'[r].base = request[r].base /\ request'[r].status = 0
    BY <1>0, <2>1 DEF Keeps, Fields
  <2>3. ~Find(r) /\ ~Load(r)
    BY <2>1 DEF Find, Load
  <2>4. PICK k \in Requests : k = request[r].runtime
    BY <1>3, <2>3
  <2>5. runtime'[k].artifact = r
    BY <1>0, <1>6, <2>4, RecordTotalEffect
  <2>6. SessionOf(r)'.artifact = r
    BY <1>3, <2>3, <2>4, <2>5 DEF SessionOf
  <2>7. IsLast(request[r].base, HeardBefore(r))
    BY <1>0, <2>1 DEF BaseRow, Early
  <2>. QED BY <1>3, <2>1, <2>2, <2>3, <2>6, <2>7, BaseRowNext
<1>7. ASSUME request[r].phase \notin BeforeRecord \cup {"over"},
             request'[r].base = request[r].base,
             \/ request'[r].phase = "over"
             \/ /\ request'[r].phase \notin {"loaded", "found", "packed"}
                /\ request'[r].status = 0,
             runtime'[request[r].runtime].artifact = runtime[request[r].runtime].artifact
      PROVE  BaseRow(r)'
  <2>1. ~Find(r) /\ ~Load(r)
    BY Zenon, <1>7 DEF Find, Load, BeforeRecord
  <2>2. SessionOf(r)'.artifact = r
    BY <1>0, <1>3, <1>7, <2>1 DEF BaseRow, SessionOf
  <2>3. IsLast(request'[r].base, HeardBeforeNext(r))
    BY <1>0, <1>3, <1>7, <2>1 DEF BaseRow, BeforeRecord, Early
  <2>. QED BY SMTT(30), <1>7, <2>2, <2>3, BaseRowNext
<1>8. CASE Number(r)
  <2>1. /\ request[r].phase = "numbering" /\ request'[r].phase = "appending"
        /\ Keeps(r, {"phase", "num"}) /\ runtime' = runtime
    BY <1>0, <1>8, NumberEffect
  <2>. QED BY <1>0, <1>7, <2>1 DEF Keeps, Fields, BeforeRecord
<1>9. CASE AppendTurn(r)
  <2>1. /\ request[r].phase = "appending" /\ request'[r].phase = "answering"
        /\ Keeps(r, {"phase"})
    BY <1>0, <1>9, AppendTurnEffect
  <2>2. PICK k \in Requests : k = request[r].runtime
    BY <1>0, <2>1 DEF Noted, Early
  <2>3. runtime'[k].artifact = runtime[k].artifact
    BY <1>0, <1>9, <2>2, AppendTurnEffect
  <2>. QED BY <1>0, <1>7, <2>1, <2>2, <2>3 DEF Keeps, Fields, BeforeRecord
<1>10. CASE Answer(r)
  <2>1. /\ request[r].phase = "answering" /\ request'[r].phase = "dumping"
        /\ Keeps(r, {"phase", "turn"}) /\ runtime' = runtime
    BY <1>0, <1>10, AnswerEffect
  <2>. QED BY <1>0, <1>7, <2>1 DEF Keeps, Fields, BeforeRecord
<1>11. CASE Dump(r) \/ Save(r)
  <2>1. /\ request[r].phase \in {"dumping", "copying", "closing", "saving"}
        /\ request'[r].phase \in {"copying", "closing", "saving", "saved"}
        /\ Keeps(r, {"phase", "copy"}) /\ runtime' = runtime
    <3>1. CASE Dump(r)
      BY <1>0, <3>1, DumpEffect
    <3>2. CASE Save(r)
      BY <1>0, <3>2, SaveEffect
    <3>. QED BY <1>11, <3>1, <3>2
  <2>. QED BY <1>0, <1>7, <2>1 DEF Keeps, Fields, BeforeRecord
<1>12. CASE Respond(r)
  <2>1. /\ request[r].phase = "saved" /\ request'[r].phase = "over"
        /\ Keeps(r, {"phase", "status"}) /\ runtime' = runtime
    BY <1>0, <1>12, RespondEffect
  <2>. QED BY <1>0, <1>7, <2>1 DEF Keeps, Fields, BeforeRecord
<1>13. CASE Register(r)
  <2>1. /\ request[r].phase = "loaded" /\ request'[r].phase = "found"
        /\ Keeps(r, {"phase"}) /\ runtime' = runtime
    BY <1>0, <1>13, RegisterEffect
  <2>2. ~Respond(r) /\ ~Find(r) /\ ~Load(r) /\ request'[r].status = 0
    BY <1>0, <2>1 DEF Find, Load, Respond, PassNoting, Keeps, Fields
  <2>3. IsLast(SessionOf(r).artifact, Heard(request[r].id))
    BY <1>0, <2>1 DEF BaseRow
  <2>4. SessionOf(r)' = SessionOf(r) /\ HeardNext(request[r].id) = Heard(request[r].id)
    BY <1>3, <1>13, <2>1, <2>2, HeardQuiet DEF SessionOf
  <2>. QED BY <1>3, <2>1, <2>2, <2>3, <2>4, BaseRowNext DEF BeforeRecord, Early
<1>. QED BY <1>1, <1>2, <1>4, <1>5, <1>6, <1>8, <1>9, <1>10, <1>11, <1>12, <1>13
        DEF Handling

(* A live runtime changes only in the hands of a handler that is at work   *)
(* in its session.                                                         *)
LEMMA RestingRuntime ==
    ASSUME Basic, Ownership, UsesLive, LiveNamed, Steady, [Next]_vars,
           NEW rep \in Replicas, NEW id \in Ids, live[rep][id] # 0, AtRest(id)
    PROVE  runtime'[live[rep][id]] = runtime[live[rep][id]]
<1>0. /\ TypeOK /\ Sent \subseteq Requests /\ HandlerOK /\ "timeouts" \notin env
      /\ \A p \in Replicas : ~Crash(p)
  BY Zenon, BasicFacts DEF Basic, Steady, Crash
<1>1. PICK k \in Sent : k = live[rep][id]
  BY DEF Basic, Registered
<1>2. request[k].phase \notin Early /\ request[k].id = id
  BY <1>1 DEF UsesLive, LiveNamed
<1>3. ASSUME NEW r \in Sent, InFlight(r), request[r].phase \notin Early \cup {"loaded"},
             request[r].runtime = k
      PROVE  FALSE
  <2>1. /\ live[request[r].at][request[r].id] = k
        /\ request[r].at \in Replicas /\ request[r].id \in Ids
    BY <1>0, <1>3, BasicFacts DEF UsesLive, HandlerOK, Noted, InFlight, Ids
  <2>2. request[r].id = id
    BY <1>1, <1>2, <2>1, BasicFacts DEF LiveNamed
  <2>. QED BY <1>3, <2>2 DEF AtRest
<1>4. ASSUME NEW r \in Sent, RecordTotal(r) \/ AppendTurn(r), request[r].runtime = k
      PROVE  FALSE
  <2>1. request[r].phase \in {"packed", "appending"}
    BY SMTT(30), <1>4 DEF RecordTotal, AppendTurn, Pass
  <2>. QED BY <1>3, <1>4, <2>1 DEF InFlight, Early
<1>5. ~Load(k)
  BY Zenon, <1>2 DEF Load, Early
<1>6. ASSUME NEW r \in Requests, Handling(r) PROVE runtime'[k] = runtime[k]
  <2>0. r \in Sent
    BY <1>0, <1>6, HandlingOne
  <2>1. CASE Load(r)
    BY <1>0, <1>1, <1>5, <2>1, LoadRuntime DEF TypeOK
  <2>2. CASE RecordTotal(r)
    BY <1>0, <1>1, <1>4, <2>0, <2>2, RecordTotalEffect
  <2>3. CASE AppendTurn(r)
    BY <1>0, <1>1, <1>4, <2>0, <2>3, AppendTurnEffect
  <2>4. CASE ~Load(r) /\ ~RecordTotal(r) /\ ~AppendTurn(r)
    BY <1>6, <2>4 DEF Handling, Find, Register, Pack, PackFails, KeepNothing, Number, Answer,
                      Dump, Save, Respond
  <2>. QED BY <2>1, <2>2, <2>3, <2>4
<1>7. ASSUME NEW c \in Clients, NEW p \in Replicas, Send(c, p) PROVE runtime' = runtime
  BY <1>7 DEF Send
<1>8. ASSUME NEW c \in Clients, TimeOut(c) PROVE runtime' = runtime
  BY <1>8 DEF TimeOut
<1>9. ASSUME NEW lost \in Ids, Expire(lost) PROVE runtime' = runtime
  BY <1>9 DEF Expire
<1>10. CASE UNCHANGED vars
  BY <1>10 DEF vars
<1>. QED BY <1>0, <1>1, <1>6, <1>7, <1>8, <1>9, <1>10 DEF Next, Handling, Finished

(* A session at rest has the artifact of its last answer.                  *)
LEMMA NextAtRest ==
    ASSUME Basic, Ownership, OneAtATime, UsesLive, AtHome, InSequence, LiveNamed,
           BasesLast, Steady, [Next]_vars,
           NEW rep \in Replicas, NEW id \in Ids, live'[rep][id] # 0,
           \A r \in Sent' : request'[r].phase # "over" => request'[r].id # id
    PROVE  IsLast(runtime'[live'[rep][id]].artifact, HeardNext(id))
<1>0. /\ TypeOK /\ Sent \subseteq Requests /\ HandlerOK /\ "timeouts" \notin env
      /\ Stable /\ Sent \subseteq Sent'
      /\ \A p \in Replicas : ~Crash(p)
      /\ \A r : ~Ended(r)
  BY Zenon, BasicFacts, StepStable DEF Basic, Steady, Crash, Ended, Stable
<1>1. live'[rep][id] = live[rep][id]
  <2>1. ASSUME NEW r \in Sent, Register(r), id = request[r].id PROVE FALSE
    <3>1. request'[r].phase = "found" /\ request'[r].id = id
      BY <1>0, <2>1, RegisterEffect DEF Keeps, Fields
    <3>. QED BY <1>0, <2>1, <3>1
  <2>. QED BY <1>0, <2>1, LiveSteps
<1>2. PICK k \in Sent : k = live[rep][id] /\ k # 0
  BY <1>1 DEF Basic, Registered
<1>3. CASE AtRest(id)
  <2>1. runtime'[k] = runtime[k] /\ IsLast(runtime[k].artifact, Heard(id))
    BY <1>1, <1>2, <1>3, RestingRuntime DEF BasesLast
  <2>2. ASSUME NEW q \in HeardNext(id) \ Heard(id) PROVE FALSE
    <3>1. q \in Sent /\ request[q].phase = "saved" /\ request[q].id = id
      BY <2>2, HeardSteps
    <3>. QED BY <1>3, <3>1 DEF AtRest, InFlight
  <2>3. HeardNext(id) = Heard(id)
    BY <2>2, HeardSteps
  <2>. QED BY <1>1, <1>2, <2>1, <2>3
<1>4. CASE ~AtRest(id)
  <2>1. PICK r \in Sent : InFlight(r) /\ request[r].id = id
    BY <1>4 DEF AtRest
  <2>2. r \in Requests /\ r \in Sent' /\ Noted(r) /\ id # 0
    BY <1>0, <2>1 DEF HandlerOK, Ids
  <2>3. Handling(r)
    <3>1. request'[r] # request[r]
      BY <2>1, <2>2 DEF InFlight
    <3>. QED BY <1>0, <2>1, <2>2, <3>1, RequestSteps
  <2>4. request[r].phase \notin Early
    BY SMTT(30), <2>1, <2>2 DEF Noted
  <2>5. ~Find(r) /\ ~Load(r)
    BY Zenon, <2>4 DEF Find, Load, Early
  <2>6. request'[r].id = id
    BY <1>0, <2>1, <2>3, <2>5, HandlingLate
  <2>7. PackFails(r) \/ Respond(r)
    BY <1>0, <2>2, <2>3, <2>6, HandlingPhases
  <2>8. request[r].runtime = k
    <3>1. PICK owner \in [Ids -> Clients \cup {Nothing}] : Owned(owner)
      BY DEF Ownership
    <3>2. request[r].by = owner[id] /\ request[k].by = owner[id]
      <4>1. HandlerOwned(owner, r) /\ LiveAt(owner, rep, id)
        BY <3>1 DEF Owned, LiveOwned
      <4>. QED BY <1>2, <2>1, <2>2, <4>1 DEF HandlerOwned, LiveAt
    <3>3. request[r].at = rep
      BY <1>2, <2>1, <3>2 DEF AtHome, InFlight, Steady
    <3>4. request[r].phase \in {"packed", "saved"}
      BY <1>0, <2>2, <2>7, PackFailsEffect, RespondEffect
    <3>. QED BY <1>0, <1>2, <2>1, <2>4, <3>3, <3>4 DEF UsesLive, InFlight
  <2>9. runtime' = runtime
    BY <2>7 DEF PackFails, KeepNothing, Respond
  <2>10. CASE PackFails(r)
    <3>1. request[r].phase = "packed"
      BY <1>0, <2>2, <2>10, PackFailsEffect
    <3>2. IsLast(runtime[k].artifact, Heard(id))
      BY <2>1, <2>8, <3>1 DEF BasesLast, BaseRow, SessionOf
    <3>3. ~Respond(r)
      BY <3>1 DEF Respond, PassNoting
    <3>4. HeardNext(id) = Heard(id)
      BY <2>3, <3>3, HeardQuiet
    <3>. QED BY <1>1, <1>2, <2>9, <3>2, <3>4
  <2>11. CASE Respond(r)
    <3>1. request[r].phase = "saved" /\ waiting[request[r].by] = r
      <4>1. request[r].phase = "saved"
        BY <1>0, <2>2, <2>11, RespondEffect
      <4>. QED BY <1>0, <2>1, <4>1 DEF OneAtATime
    <3>2. request'[r].status = 200
      BY <1>0, <2>2, <2>11, <3>1, RespondEffect
    <3>3. runtime[k].artifact = r
      BY <2>8, <3>1 DEF BasesLast, BaseRow, SessionOf, BeforeRecord
    <3>4. r \in HeardNext(id)
      BY <2>2, <2>6, <3>2 DEF HeardNext
    <3>5. ASSUME NEW q \in HeardNext(id) PROVE q <= r
      <4>1. CASE q \in Heard(id)
        <5>1. Heard(id) = HeardBefore(r)
          BY <1>0, <2>1, <2>2, HeardIsBefore
        <5>2. r \in Nat
          BY <1>0, BasicFacts
        <5>. QED BY <4>1, <5>1, <5>2 DEF HeardBefore
      <4>2. CASE q \notin Heard(id)
        <5>1. q \in Sent /\ request[q].phase = "saved" /\ request[q].id = id
          BY <3>5, <4>2, HeardSteps
        <5>2. q = r
          BY <1>0, <2>1, <2>2, <5>1, OnlyOne DEF InFlight
        <5>3. r \in Nat
          BY <1>0, BasicFacts
        <5>. QED BY <5>2, <5>3
      <4>. QED BY <4>1, <4>2
    <3>. QED BY <1>1, <1>2, <2>9, <3>3, <3>4, <3>5 DEF IsLast
  <2>. QED BY <2>7, <2>10, <2>11
<1>. QED BY SMTT(30), <1>3, <1>4

(* Every step leaves the bases of deltas where they belong.                *)
LEMMA NextBasesLast ==
    ASSUME Basic, Ownership, OneAtATime, UsesLive, AtHome, InSequence, LiveNamed,
           BasesLast, [Next]_vars
    PROVE  BasesLast'
<1>0. /\ TypeOK /\ Sent \subseteq Requests /\ HandlerOK /\ Stable
      /\ Sent' \subseteq Requests
  BY BasicFacts, StepStable, SentNext DEF Basic
<1> SUFFICES ASSUME Steady
             PROVE  /\ HeldLive'
                    /\ \A r \in Requests : r \in Sent' => BaseRow(r)'
                    /\ \A rep \in Replicas, id \in Ids :
                         /\ live'[rep][id] # 0
                         /\ \A r \in Sent' : request'[r].phase # "over" =>
                                                 request'[r].id # id
                         => IsLast(runtime'[live'[rep][id]].artifact, HeardNext(id))
  BY <1>0 DEF BasesLast, Steady, Stable, AtRest, InFlight, Heard, HeardNext, Answered
<1>1. HeldLive'
  BY NextHeldLive DEF BasesLast
<1>2. ASSUME NEW r \in Requests, r \in Sent' PROVE BaseRow(r)'
  <2>1. CASE r \in Sent /\ Handling(r)
    BY <2>1, HandlingBase
  <2>2. CASE r \notin Sent /\ Began(r)
    BY <2>2, BaseRowNext DEF Began, BeforeRecord, Early
  <2>3. ~Ended(r)
    BY DEF Ended, Steady
  <2>4. CASE r \in Sent /\ request'[r] = request[r] /\ ~Handling(r)
    <3>0. BaseRow(r) /\ Noted(r) /\ "timeouts" \notin env /\ ~Respond(r)
      BY <1>0, <2>4 DEF BasesLast, HandlerOK, Steady, Handling
    <3>1. HeardBeforeNext(r) = HeardBefore(r)
      BY <2>4, <3>0, HeardBeforeSettled
    <3>2. CASE request[r].phase \in Early \cup {"over"}
      BY <2>4, <3>0, <3>1, <3>2, BaseRowNext DEF BaseRow, Answered, BeforeRecord, Early
    <3>3. CASE request[r].phase \notin Early \cup {"over"}
      <4>1. InFlight(r) /\ request[r].id # 0 /\ request[r].runtime # 0
        BY <1>0, <2>4, <3>0, <3>3, BasicFacts DEF InFlight, Noted
      <4>2. SessionOf(r)' = SessionOf(r)
        BY <2>4, <3>0, <4>1, SessionKept
      <4>3. HeardNext(request[r].id) = Heard(request[r].id)
        BY <2>4, <3>0, <4>1, HeardHeld
      <4>. QED BY <2>4, <3>0, <3>1, <4>2, <4>3, BaseRowNext DEF BaseRow, Answered
    <3>. QED BY <3>2, <3>3
  <2>. QED BY <1>2, <2>1, <2>2, <2>3, <2>4, RequestSteps
<1>. QED BY <1>1, <1>2, NextAtRest

(* Bases are where they belong in every reachable state.                   *)
LEMMA AlwaysBasesLast == Spec => [](InSequence /\ LiveNamed /\ BasesLast)
<1>1. Init => InSequence /\ LiveNamed /\ BasesLast
  <2>1. Init => /\ Sent = {}
                /\ \A rep \in Replicas, id \in Ids : live[rep][id] = 0
                /\ \A c \in Clients : sid[c] = 0
    BY DEF Init, Sent
  <2>. QED BY <2>1 DEF InSequence, LiveNamed, BasesLast, HeldLive
<1>. QED BY <1>1, NextInSequence, NextLiveNamed, NextBasesLast, AlwaysBasic, AlwaysOwnership,
            AlwaysOneAtATime, AlwaysUsesLive, AlwaysHistory, PTL DEF Spec

(* The files and tokens a turn reports are counted against the last pack   *)
(* its client received in the session, whatever steps fail and whatever is *)
(* lost in the store: a handler leaves its own turn as the artifact, and   *)
(* no other handler is at work in the session until it is answered         *)
(* (prepare_context, record_turn).                                         *)
THEOREM DeltasAgainstLatest == Spec => []DeltaBaseLatest
<1>1. Basic /\ BasesLast => DeltaBaseLatest
  <2> SUFFICES ASSUME Basic, BasesLast, Steady, NEW r \in Requests, Answered(r)
               PROVE  request[r].base = LastHeard(r)
    BY DEF DeltaBaseLatest, Steady
  <2>1. r \in Sent
    BY DEF Basic, TypeOK, Sent, Requests, Unsent, Answered
  <2>2. PICK base : base = request[r].base
    OBVIOUS
  <2>3. IsLast(base, HeardBefore(r))
    BY <2>1, <2>2 DEF BasesLast, BaseRow
  <2>4. /\ r \in Nat /\ \A q \in HeardBefore(r) : q \in Nat /\ q > 0
        /\ LastHeard(r) = Max({0} \cup HeardBefore(r))
    <3>1. r \in Nat
      BY <2>1, BasicFacts DEF Basic
    <3>. QED BY <3>1 DEF HeardBefore, LastHeard
  <2>5. base \in {0} \cup HeardBefore(r) /\ \A q \in {0} \cup HeardBefore(r) : base >= q
    BY <2>3, <2>4 DEF IsLast
  <2>6. \A m \in {0} \cup HeardBefore(r) :
           (\A q \in {0} \cup HeardBefore(r) : m >= q) => m = base
    BY <2>4, <2>5
  <2>. QED BY <2>2, <2>4, <2>5, <2>6 DEF Max
<1>. QED BY <1>1, AlwaysBasic, AlwaysBasesLast, PTL

============================================================================
