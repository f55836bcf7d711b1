--------------------------- MODULE GatewayProofs ---------------------------
(***************************************************************************)
(* Proofs about GatewaySessions, for every number of replicas, clients and *)
(* requests and every deployment: types, whose session is whose, turn      *)
(* numbers, and what the delta of a turn is made against.                  *)
(*                                                                         *)
(* The argument is layered.  Basic: types, and what a handler has noted in *)
(* which phase.  Ownership: every id drawn so far has one client, to whom  *)
(* belongs whatever is kept under it.  OneAtATime: without timeouts a      *)
(* client has one request in flight, so two handlers never share a         *)
(* session.  Each layer is inductive relative to those before it.          *)
(***************************************************************************)
EXTENDS GatewaySessions, SumTheorems

Sent == 1..sent

Early == {"arrived", "loading"}
BeforeRecord == {"arrived", "loading", "loaded", "found", "packed"}

InFlight(r) == request[r].phase # "over"

(* Every id was drawn by a request that is no longer early.                *)
EarlyRequests == {r \in Sent : request[r].phase \in Early}
DrawnOnce == ids + Cardinality(EarlyRequests) <= sent

(* What a handler has noted in which phase.                                *)
Noted(r) ==
    LET q == request[r]
    IN  /\ q.phase \in Early => q.id = 0 /\ q.runtime = 0
        /\ q.phase \in Early \cup {"loaded", "found"} => q.base = 0
        /\ q.phase = "loaded" => q.runtime = r
        /\ q.phase \notin Early \cup {"over"} => q.id # 0 /\ q.runtime \in Sent
        /\ q.phase # "over" => q.status = 0
        /\ q.status = 200 => q.id # 0

HandlerOK == \A r \in Sent : Noted(r)

UndrawnUnused ==
    \A id \in Ids : id > ids =>
        /\ \A rep \in Replicas : live[rep][id] = 0
        /\ \A place \in Places : store[place][id] = Nothing

Registered ==
    \A rep \in Replicas, id \in Ids : live[rep][id] # 0 => live[rep][id] \in Sent

Of(session, c) ==
    \A q \in Turns(session) \cup ({session.artifact} \ {0}) :
        q \in Sent /\ request[q].by = c

(* Every session id belongs to one client.                                 *)
HandlerOwned(owner, r) ==
    LET q == request[r]
    IN  /\ q.asked # 0 => owner[q.asked] = q.by
        /\ q.id # 0 => owner[q.id] = q.by
        /\ q.runtime # 0 => /\ q.runtime \in Sent
                            /\ request[q.runtime].by = q.by
                            /\ request[q.runtime].at = q.at
        /\ Of(q.copy, q.by)

RuntimeOwned(k) ==
    IF k \in Sent THEN Of(runtime[k], request[k].by) ELSE runtime[k] = NewSession
RuntimesOwned == \A k \in Requests : RuntimeOwned(k)

LiveAt(owner, rep, id) ==
    live[rep][id] # 0 =>
        /\ live[rep][id] \in Sent
        /\ request[live[rep][id]].by = owner[id]
        /\ request[live[rep][id]].at = rep
LiveOwned(owner) == \A rep \in Replicas, id \in Ids : LiveAt(owner, rep, id)

StoredAt(owner, place, id) ==
    store[place][id] # Nothing => Of(store[place][id], owner[id])
StoreOwned(owner) == \A place \in Places, id \in Ids : StoredAt(owner, place, id)

Owned(owner) ==
    /\ \A c \in Clients : sid[c] # 0 => owner[sid[c]] = c
    /\ \A r \in Sent : HandlerOwned(owner, r)
    /\ RuntimesOwned
    /\ LiveOwned(owner)
    /\ StoreOwned(owner)

Ownership == \E owner \in [Ids -> Clients \cup {Nothing}] : Owned(owner)

(* Without timeouts a client waits for the one request it has in flight.   *)
OneAtATime ==
    "timeouts" \notin env =>
        \A r \in Sent : InFlight(r) <=> waiting[request[r].by] = r

(* The artifact a turn may be compared with: that of a turn that was       *)
(* answered or is about to be.                                             *)
Kept(a) == request[a].phase \notin BeforeRecord \cup {"over"} \/ Answered(a)

Recorded(session) == session.artifact # 0 => Kept(session.artifact)

Undisturbed == env \cap {"timeouts", "crashes"} = {}

BasesRecorded ==
    Undisturbed =>
        /\ \A r \in Requests : Recorded(runtime[r])
        /\ \A r \in Sent : Recorded(request[r].copy) /\ BaseReceived(r)
        /\ \A place \in Places, id \in Ids :
              store[place][id] # Nothing => Recorded(store[place][id])

(* The number a handler has noted is that of its turn.                     *)
NumberedRow(r) ==
    LET q == request[r]
    IN  /\ q.phase = "appending" => q.num = Len(SessionOf(r).turns) + 1
        /\ q.phase = "answering" => q.num = Len(SessionOf(r).turns)
        /\ q.phase \in {"dumping", "copying", "closing", "saving", "saved"}
              => q.turn = q.num
        /\ Answered(r) => q.turn = q.num

Numbered == "timeouts" \notin env => \A r \in Sent : NumberedRow(r)

----------------------------------------------------------------------------
(* The tokens of a context, and so of every delta package, are a natural.  *)
LEMMA TokensNat == ASSUME NEW context, IsContext(context) PROVE Tokens(context) \in Nat
<1> DEFINE tokens == [path \in DOMAIN context |-> context[path].tokens]
<1>1. \A path \in DOMAIN context : tokens[path] \in Nat
  BY DEF IsContext
<1>2. SumFunctionOnSet(tokens, DOMAIN context) \in Nat
  <2> HIDE DEF tokens
  <2>. QED BY <1>1, SumNat DEF IsContext
<1>3. DOMAIN tokens = DOMAIN context
  OBVIOUS
<1>. QED BY <1>2, <1>3 DEF Tokens, SumFunction

(* So are the tokens of a package, whole or against an earlier pack        *)
(* (effective_pack_metrics).                                               *)
LEMMA PackageTokensNat ==
    ASSUME NEW old, IsContext(old), NEW new, IsContext(new)
    PROVE  /\ PackageTokens(Whole(new)) \in Nat
           /\ PackageTokens(Package(old, new)) \in Nat
<1>1. PackageTokens(Whole(new)) \in Nat
  <2>1. /\ Whole(new).entries = new
        /\ Cardinality(Whole(new).removed) = 0
    BY FS_EmptySet DEF Whole
  <2>2. Tokens(new) \in Nat
    BY TokensNat
  <2>. QED BY <2>1, <2>2, RemovalTokensOK DEF PackageTokens
<1>2. PackageTokens(Package(old, new)) \in Nat
  <2> DEFINE package == Package(old, new)
             included == Added(old, new) \cup Changed(old, new)
  <2>1. /\ DOMAIN package.entries = included
        /\ \A path \in included : package.entries[path] = new[path]
        /\ package.removed = Removed(old, new)
    BY DEF Package
  <2>2. included \subseteq DOMAIN new /\ Removed(old, new) \subseteq DOMAIN old
    BY DEF Added, Changed, Removed
  <2>3. IsFiniteSet(included) /\ Cardinality(Removed(old, new)) \in Nat
    BY <2>2, FS_Subset, FS_CardinalityType DEF IsContext
  <2>4. IsContext(package.entries)
    BY <2>1, <2>2, <2>3 DEF IsContext
  <2>5. Tokens(package.entries) \in Nat
    BY <2>4, TokensNat
  <2>. QED BY <2>1, <2>3, <2>5, RemovalTokensOK DEF PackageTokens
<1>. QED BY <1>1, <1>2

(* And the tokens a turn adds to its session.                              *)
LEMMA TurnTokensNat ==
    ASSUME NEW r \in Requests, request[r].base \in 0..MaxRequests
    PROVE  TurnTokens(r) \in Nat
<1>1. IsContext(Context[r])
  BY SessionConstants DEF Requests
<1>2. request[r].base # 0 => IsContext(Context[request[r].base])
  BY SessionConstants
<1>. QED BY <1>1, <1>2, PackageTokensNat DEF TurnTokens, Reported

----------------------------------------------------------------------------
Handling(r) ==
    \/ Find(r) \/ Load(r) \/ Register(r) \/ Pack(r) \/ PackFails(r)
    \/ RecordTotal(r) \/ Number(r) \/ AppendTurn(r) \/ Answer(r)
    \/ Dump(r) \/ Save(r) \/ Respond(r)

(* Requests that were sent have a phase.                                   *)
LEMMA SentHandled ==
    ASSUME TypeOK, NEW r \in Requests, request[r].phase # "unsent"
    PROVE  r \in Sent
BY DEF TypeOK, Requests, Sent, Unsent

Fields == {"phase", "by", "at", "asked", "id", "runtime", "base", "num", "turn",
           "copy", "status"}

(* The step of a handler changes the phase, and the field it notes.        *)
LEMMA PassOne ==
    ASSUME TypeOK, NEW r \in Requests, NEW from, NEW to, Pass(r, from, to)
    PROVE  /\ DOMAIN request' = Requests
           /\ \A q \in Requests \ {r} : request'[q] = request[q]
           /\ request[r].phase = from
           /\ request'[r].phase = to
           /\ \A f \in Fields \ {"phase"} : request'[r][f] = request[r][f]
BY DEF TypeOK, Pass, Handler, Fields

(* PassNoting changes the phase and one field of one request.              *)
LEMMA PassNotingOne ==
    ASSUME TypeOK, NEW r \in Requests, NEW from, NEW to, NEW value,
           NEW field \in Fields \ {"phase"}, PassNoting(r, from, to, field, value)
    PROVE  /\ DOMAIN request' = Requests
           /\ \A q \in Requests \ {r} : request'[q] = request[q]
           /\ request[r].phase = from
           /\ request'[r].phase = to
           /\ request'[r][field] = value
           /\ \A f \in Fields \ {"phase", field} : request'[r][f] = request[r][f]
BY DEF TypeOK, PassNoting, Handler, Fields

(* A handler runs for a request that was sent, and changes the state of    *)
(* that request only, never who sent it, to which replica and for what.    *)
LEMMA HandlingOne ==
    ASSUME TypeOK, NEW r \in Requests, Handling(r)
    PROVE  /\ r \in Sent /\ sent' = sent /\ env' = env
           /\ DOMAIN request' = Requests
           /\ \A q \in Requests \ {r} : request'[q] = request[q]
           /\ request'[r].by = request[r].by
           /\ request'[r].at = request[r].at
           /\ request'[r].asked = request[r].asked
<1>1. CASE Find(r)
  BY <1>1, SentHandled DEF Find, TypeOK, Handler, clients
<1>2. CASE Load(r)
  BY <1>2, SentHandled DEF Load, TypeOK, Handler, clients
<1>3. CASE Pack(r)
  BY <1>3, SentHandled, PassNotingOne DEF Pack, Fields, clients
<1>4. CASE PackFails(r)
  BY <1>4, SentHandled, PassNotingOne DEF PackFails, Fields
<1>5. CASE RecordTotal(r)
  BY <1>5, SentHandled, PassOne DEF RecordTotal, Fields, clients
<1>6. CASE Number(r)
  BY <1>6, SentHandled, PassNotingOne DEF Number, Fields, clients
<1>7. CASE AppendTurn(r)
  BY <1>7, SentHandled, PassOne DEF AppendTurn, Fields, clients
<1>8. CASE Answer(r)
  BY <1>8, SentHandled, PassNotingOne DEF Answer, Fields, clients
<1>9. CASE Dump(r)
  BY <1>9, SentHandled, PassNotingOne DEF Dump, Fields, clients
<1>10. CASE Save(r)
  BY <1>10, SentHandled, PassNotingOne DEF Save, Fields, clients
<1>11. CASE Respond(r)
  BY <1>11, SentHandled, PassNotingOne DEF Respond, Fields
<1>12. CASE Register(r)
  BY <1>12, SentHandled, PassOne DEF Register, Fields, clients
<1>. QED BY <1>1, <1>2, <1>3, <1>4, <1>5, <1>6, <1>7, <1>8, <1>9, <1>10, <1>11, <1>12
        DEF Handling

(* A handler with a new value of the right kind in one field.              *)
LEMMA HandlerFields ==
    ASSUME NEW h \in Handler
    PROVE  /\ \A to \in HandlerPhases : [h EXCEPT !.phase = to] \in Handler
           /\ \A v \in 0..MaxRequests : /\ [h EXCEPT !.base = v] \in Handler
                                       /\ [h EXCEPT !.id = v] \in Handler
                                       /\ [h EXCEPT !.runtime = v] \in Handler
           /\ \A v \in Statuses : [h EXCEPT !.status = v] \in Handler
           /\ \A v \in Nat : [h EXCEPT !.num = v] \in Handler
           /\ \A v \in Nat : [h EXCEPT !.turn = v] \in Handler
           /\ \A v \in Session : [h EXCEPT !.copy = v] \in Handler
<1>1. \A to \in HandlerPhases : [h EXCEPT !.phase = to] \in Handler
  BY DEF Handler
<1>2. \A v \in 0..MaxRequests : /\ [h EXCEPT !.base = v] \in Handler
                                /\ [h EXCEPT !.id = v] \in Handler
                                /\ [h EXCEPT !.runtime = v] \in Handler
  BY DEF Handler
<1>3. \A v \in Statuses : [h EXCEPT !.status = v] \in Handler
  BY DEF Handler
<1>4. \A v \in Nat : [h EXCEPT !.num = v] \in Handler
  BY DEF Handler
<1>5. \A v \in Nat : [h EXCEPT !.turn = v] \in Handler
  BY DEF Handler
<1>6. \A v \in Session : [h EXCEPT !.copy = v] \in Handler
  BY DEF Handler
<1>. QED BY <1>1, <1>2, <1>3, <1>4, <1>5, <1>6

(* The types of what a handler notes.                                      *)
LEMMA PassTypes ==
    ASSUME request \in [Requests -> Handler], NEW r \in Requests,
           NEW from, NEW to \in HandlerPhases, NEW value
    PROVE  /\ Pass(r, from, to) => request' \in [Requests -> Handler]
           /\ PassNoting(r, from, to, "base", value) /\ value \in 0..MaxRequests
                => request' \in [Requests -> Handler]
           /\ PassNoting(r, from, to, "status", value) /\ value \in Statuses
                => request' \in [Requests -> Handler]
           /\ PassNoting(r, from, to, "num", value) /\ value \in Nat
                => request' \in [Requests -> Handler]
           /\ PassNoting(r, from, to, "turn", value) /\ value \in Nat
                => request' \in [Requests -> Handler]
           /\ PassNoting(r, from, to, "copy", value) /\ value \in Session
                => request' \in [Requests -> Handler]
<1> DEFINE h == [request[r] EXCEPT !.phase = to]
<1>0. h \in Handler
  BY HandlerFields
<1>1. ASSUME Pass(r, from, to) PROVE request' \in [Requests -> Handler]
  BY <1>0, <1>1 DEF Pass
<1>2. ASSUME PassNoting(r, from, to, "base", value), value \in 0..MaxRequests
      PROVE  request' \in [Requests -> Handler]
  <2>1. request' = [request EXCEPT ![r] = [h EXCEPT !.base = value]]
    BY <1>2 DEF PassNoting, Handler
  <2>2. [h EXCEPT !.base = value] \in Handler
    BY <1>0, <1>2, HandlerFields
  <2>. QED BY <2>1, <2>2
<1>3. ASSUME PassNoting(r, from, to, "status", value), value \in Statuses
      PROVE  request' \in [Requests -> Handler]
  <2>1. request' = [request EXCEPT ![r] = [h EXCEPT !.status = value]]
    BY <1>3 DEF PassNoting, Handler
  <2>2. [h EXCEPT !.status = value] \in Handler
    BY <1>0, <1>3, HandlerFields
  <2>. QED BY <2>1, <2>2
<1>4. ASSUME PassNoting(r, from, to, "num", value), value \in Nat
      PROVE  request' \in [Requests -> Handler]
  <2>1. request' = [request EXCEPT ![r] = [h EXCEPT !.num = value]]
    BY <1>4 DEF PassNoting, Handler
  <2>2. [h EXCEPT !.num = value] \in Handler
    BY <1>0, <1>4, HandlerFields
  <2>. QED BY <2>1, <2>2
<1>5. ASSUME PassNoting(r, from, to, "turn", value), value \in Nat
      PROVE  request' \in [Requests -> Handler]
  <2>1. request' = [request EXCEPT ![r] = [h EXCEPT !.turn = value]]
    BY <1>5 DEF PassNoting, Handler
  <2>2. [h EXCEPT !.turn = value] \in Handler
    BY <1>0, <1>5, HandlerFields
  <2>. QED BY <2>1, <2>2
<1>6. ASSUME PassNoting(r, from, to, "copy", value), value \in Session
      PROVE  request' \in [Requests -> Handler]
  <2>1. request' = [request EXCEPT ![r] = [h EXCEPT !.copy = value]]
    BY <1>6 DEF PassNoting, Handler
  <2>2. [h EXCEPT !.copy = value] \in Handler
    BY <1>0, <1>6, HandlerFields
  <2>. QED BY <2>1, <2>2
<1>. QED BY <1>1, <1>2, <1>3, <1>4, <1>5, <1>6

(* What a handler that has found its runtime works on.                     *)
LEMMA InHandlerTypes ==
    ASSUME TypeOK, HandlerOK, NEW r \in Sent, request[r].phase \notin Early \cup {"over"}
    PROVE  /\ request[r].runtime \in Requests /\ request[r].runtime \in Sent
           /\ SessionOf(r) \in Session
           /\ request[r].num \in Nat
           /\ TurnTokens(r) \in Nat
<1>1. sent \in Nat /\ sent <= MaxRequests
  BY SessionConstants DEF TypeOK
<1>2. request[r].runtime \in Sent /\ Sent \subseteq Requests
  BY <1>1, SessionConstants DEF HandlerOK, Noted, Requests, Sent
<1>3. request[r].base \in 0..MaxRequests /\ request[r].num \in Nat
  BY <1>2 DEF TypeOK, Handler
<1>. QED BY <1>2, <1>3, TurnTokensNat DEF TypeOK, SessionOf
(* What is left to show that a step of a handler preserves the types.      *)
LEMMA HandlingTypes ==
    ASSUME TypeOK, NEW r \in Requests, Handling(r),
           request' \in [Requests -> Handler],
           request'[r].phase # "unsent", request'[r].id \in 0..ids',
           ids' \in ids..sent,
           store' \in [Places -> [Ids -> Session \cup {Nothing}]],
           live' \in [Replicas -> [Ids -> 0..MaxRequests]],
           runtime' \in [Requests -> Session],
           sid' \in [Clients -> 0..ids'],
           home' = home,
           waiting' \in [Clients -> 0..sent]
    PROVE  TypeOK'
<1>1. /\ r \in Sent /\ sent' = sent /\ env' = env
      /\ \A q \in Requests \ {r} : request'[q] = request[q]
      /\ request'[r].by = request[r].by
      /\ request'[r].at = request[r].at
      /\ request'[r].asked = request[r].asked
  BY HandlingOne
<1>2. ASSUME NEW q \in Requests
      PROVE  IF q > sent
               THEN request'[q] = Unsent
               ELSE /\ request'[q].phase # "unsent"
                    /\ request'[q].by \in Clients /\ request'[q].at \in Replicas
                    /\ {request'[q].asked, request'[q].id} \subseteq 0..ids'
  <2>1. CASE q = r
    BY <1>1, <2>1 DEF TypeOK, Sent
  <2>2. CASE q # r
    BY <1>1, <2>2 DEF TypeOK, Sent
  <2>. QED BY <2>1, <2>2
<1>. QED BY <1>1, <1>2, SessionConstants DEF TypeOK

(* A handler that is early has its id still to draw.                       *)
LEMMA EarlyCount ==
    ASSUME sent \in Nat
    PROVE  /\ IsFiniteSet(EarlyRequests)
           /\ Cardinality(EarlyRequests) \in Nat
           /\ EarlyRequests # {} => Cardinality(EarlyRequests) >= 1
<1>1. IsFiniteSet(Sent)
  BY FS_Interval DEF Sent
<1>2. IsFiniteSet(EarlyRequests)
  BY <1>1, FS_Subset DEF EarlyRequests
<1>. QED BY <1>2, FS_EmptySet, FS_CardinalityType

(* Every step of a handler preserves the types.                            *)
LEMMA HandlingTypeOK ==
    ASSUME TypeOK, DrawnOnce, HandlerOK, NEW r \in Requests, Handling(r)
    PROVE  TypeOK'
<1>0. /\ r \in Sent
      /\ ids' = ids /\ request'[r].id = request[r].id => request'[r].id \in 0..ids'
      /\ ids \in ids..sent
      /\ request \in [Requests -> Handler]
      /\ sid \in [Clients -> 0..ids]
      /\ waiting \in [Clients -> 0..sent] /\ sent \in Nat /\ r \in Nat
      /\ request[r].by \in Clients /\ request[r].at \in Replicas
      /\ request[r].asked \in 0..ids /\ request[r].id \in 0..ids
      /\ ids \in 0..MaxRequests
      /\ live \in [Replicas -> [Ids -> 0..MaxRequests]]
      /\ store \in [Places -> [Ids -> Session \cup {Nothing}]]
      /\ runtime \in [Requests -> Session]
  BY SMTT(30), HandlingOne, SessionConstants DEF TypeOK, Sent, Requests
<1>1. CASE Find(r)
  <2>1. request'[r] \in Handler /\ request'[r].phase # "unsent" /\ request'[r].id \in 0..ids
    <3> DEFINE q == request[r]
               known == q.asked # 0 /\ live[q.at][q.asked] # 0
    <3>1. q \in Handler /\ q.asked \in 0..ids /\ q.id \in 0..ids
      BY <1>0 DEF TypeOK, Sent
    <3>2. request'[r] = IF known THEN [q EXCEPT !.phase = "found", !.id = q.asked,
                                                !.runtime = live[q.at][q.asked]]
                        ELSE [q EXCEPT !.phase = "loading"]
      BY <1>0, <1>1 DEF Find
    <3>3. CASE known
      <4>1. live[q.at][q.asked] \in 0..MaxRequests
        <5>1. q.at \in Replicas
          BY <1>0
        <5>2. q.asked # 0 /\ q.asked \in 0..ids /\ ids \in 0..MaxRequests
          BY <1>0, <3>3
        <5>3. q.asked \in Ids
          <6> HIDE DEF q
          <6> QED BY <5>2, SessionConstants DEF Ids
        <5>4. live \in [Replicas -> [Ids -> 0..MaxRequests]]
          BY <1>0
        <5>. QED BY <5>1, <5>3, <5>4
      <4>2. [q EXCEPT !.phase = "found", !.id = q.asked, !.runtime = live[q.at][q.asked]] \in Handler
        <5>1. "found" \in HandlerPhases /\ q.asked \in 0..MaxRequests
          BY <3>1 DEF Handler, HandlerPhases
        <5> DEFINE a == [q EXCEPT !.phase = "found"]
                   b == [a EXCEPT !.id = q.asked]
                   c == [b EXCEPT !.runtime = live[q.at][q.asked]]
        <5>2. a \in Handler /\ b \in Handler /\ c \in Handler
          BY <3>1, <4>1, <5>1, HandlerFields
        <5>. QED BY <5>2
      <4>. QED BY <3>1, <3>2, <3>3, <4>2 DEF Handler
    <3>4. CASE ~known
      <4>1. [q EXCEPT !.phase = "loading"] \in Handler
        BY <3>1, HandlerFields DEF HandlerPhases
      <4>. QED BY <3>1, <3>2, <3>4, <4>1 DEF Handler
    <3>. QED BY <3>3, <3>4
  <2>2. request' \in [Requests -> Handler]
    BY <1>0, <1>1, <2>1 DEF Find
  <2>. QED BY <1>0, <1>1, <2>1, <2>2, HandlingTypes DEF TypeOK, Find, clients
<1>3. CASE Pack(r)
  <2>1. /\ request[r].phase = "found" /\ request'[r].phase = "packed"
        /\ request'[r].id = request[r].id
    BY <1>3, PassNotingOne DEF Pack, Fields
  <2>2. SessionOf(r) \in Session /\ request[r].runtime \in Requests
        /\ request[r].num \in Nat /\ TurnTokens(r) \in Nat
    BY <1>0, <2>1, InHandlerTypes DEF Early
  <2>3. SessionOf(r).artifact \in 0..MaxRequests
    BY <2>2 DEF Session, LastTurn, Statuses
  <2>4. request' \in [Requests -> Handler]
    BY <1>0, <1>3, <2>3, PassTypes DEF Pack, HandlerPhases
  <2>. QED BY <1>0, <1>3, <2>1, <2>4, HandlingTypes DEF TypeOK, Pack, clients
<1>4. CASE PackFails(r)
  <2>1. /\ request[r].phase = "packed" /\ request'[r].phase = "over"
        /\ request'[r].id = request[r].id
    BY <1>4, PassNotingOne DEF PackFails, Fields
  <2>2. SessionOf(r) \in Session /\ request[r].runtime \in Requests
        /\ request[r].num \in Nat /\ TurnTokens(r) \in Nat
    BY <1>0, <2>1, InHandlerTypes DEF Early
  <2>3. 500 \in Statuses
    BY DEF Statuses
  <2>4. request' \in [Requests -> Handler]
    <3>1. "over" \in HandlerPhases
      BY DEF HandlerPhases
    <3>2. PassNoting(r, "packed", "over", "status", 500)
      BY <1>4 DEF PackFails
    <3>3. PICK v : v = 500
      OBVIOUS
    <3>4. PassNoting(r, "packed", "over", "status", v) /\ v \in Statuses
      BY <2>3, <3>2, <3>3
    <3>. QED BY <1>0, <3>1, <3>4, PassTypes
  <2>5. waiting' \in [Clients -> 0..sent]
    BY <1>0, <1>4 DEF PackFails
  <2>. QED BY <1>0, <1>4, <2>1, <2>4, <2>5, HandlingTypes DEF TypeOK, PackFails, KeepNothing
<1>5. CASE RecordTotal(r)
  <2>1. /\ request[r].phase = "packed" /\ request'[r].phase = "numbering"
        /\ request'[r].id = request[r].id
    BY <1>5, PassOne DEF RecordTotal, Fields
  <2>2. SessionOf(r) \in Session /\ request[r].runtime \in Requests
        /\ request[r].num \in Nat /\ TurnTokens(r) \in Nat
    BY <1>0, <2>1, InHandlerTypes DEF Early
  <2>4. request' \in [Requests -> Handler]
    BY <1>0, <1>5, PassTypes DEF RecordTotal, HandlerPhases
  <2>5. runtime' \in [Requests -> Session]
    <3> DEFINE k == request[r].runtime
               s == [[runtime[k] EXCEPT !.total = @ + TurnTokens(r)]
                        EXCEPT !.artifact = r]
    <3>1. runtime' = [runtime EXCEPT ![k] = s]
      BY <1>5, <2>2 DEF RecordTotal, TypeOK, Session
    <3>2. s \in Session
      <4>1. /\ runtime[k] \in Session /\ TurnTokens(r) \in Nat
            /\ r \in 0..MaxRequests
        BY <2>2 DEF SessionOf, Requests
      <4>2. [runtime[k] EXCEPT !.total = @ + TurnTokens(r)] \in Session
        BY <4>1 DEF Session
      <4>. QED BY <4>1, <4>2 DEF Session
    <3>. QED BY <2>2, <3>1, <3>2 DEF TypeOK
  <2>. QED BY <1>0, <1>5, <2>1, <2>4, <2>5, HandlingTypes DEF TypeOK, RecordTotal, clients
<1>6. CASE Number(r)
  <2>1. /\ request[r].phase = "numbering" /\ request'[r].phase = "appending"
        /\ request'[r].id = request[r].id
    BY <1>6, PassNotingOne DEF Number, Fields
  <2>2. SessionOf(r) \in Session /\ request[r].runtime \in Requests
        /\ request[r].num \in Nat /\ TurnTokens(r) \in Nat
    BY <1>0, <2>1, InHandlerTypes DEF Early
  <2>3. Len(SessionOf(r).turns) + 1 \in Nat
    BY <2>2 DEF Session, LastTurn, Statuses
  <2>4. request' \in [Requests -> Handler]
    BY <1>0, <1>6, <2>3, PassTypes DEF Number, HandlerPhases
  <2>. QED BY <1>0, <1>6, <2>1, <2>4, HandlingTypes DEF TypeOK, Number, clients
<1>7. CASE AppendTurn(r)
  <2>1. /\ request[r].phase = "appending" /\ request'[r].phase = "answering"
        /\ request'[r].id = request[r].id
    BY <1>7, PassOne DEF AppendTurn, Fields
  <2>2. SessionOf(r) \in Session /\ request[r].runtime \in Requests
        /\ request[r].num \in Nat /\ TurnTokens(r) \in Nat
    BY <1>0, <2>1, InHandlerTypes DEF Early
  <2>4. request' \in [Requests -> Handler]
    BY <1>0, <1>7, PassTypes DEF AppendTurn, HandlerPhases
  <2> DEFINE turn == [req |-> r, num |-> request[r].num, tokens |-> TurnTokens(r)]
             turns == Append(SessionOf(r).turns, turn)
  <2>5. turn \in Turn
    BY <2>2 DEF Turn
  <2>6. turns \in Seq(Turn)
    BY <2>2, <2>5 DEF Session
  <2>7. runtime' = [runtime EXCEPT ![request[r].runtime].turns = turns]
    BY <1>7 DEF AppendTurn, Note
  <2>8. runtime' \in [Requests -> Session]
    <3> HIDE DEF turns
    <3>. QED BY <2>2, <2>6, <2>7 DEF TypeOK, Session
  <2>. QED BY <1>0, <1>7, <2>1, <2>4, <2>8, HandlingTypes DEF TypeOK, AppendTurn, clients
<1>8. CASE Answer(r)
  <2>1. /\ request[r].phase = "answering" /\ request'[r].phase = "dumping"
        /\ request'[r].id = request[r].id
    BY <1>8, PassNotingOne DEF Answer, Fields
  <2>2. SessionOf(r) \in Session /\ request[r].runtime \in Requests
        /\ request[r].num \in Nat /\ TurnTokens(r) \in Nat
    BY <1>0, <2>1, InHandlerTypes DEF Early
  <2>3. LastTurn(SessionOf(r)) \in Nat
    BY <2>2 DEF Session, LastTurn, Statuses
  <2>4. request' \in [Requests -> Handler]
    BY <1>0, <1>8, <2>3, PassTypes DEF Answer, HandlerPhases
  <2>. QED BY <1>0, <1>8, <2>1, <2>4, HandlingTypes DEF TypeOK, Answer, clients
<1>9. CASE Dump(r)
  <2>1. request[r].phase \notin Early \cup {"over"}
    BY <1>9, PassNotingOne DEF Dump, Fields, Early
  <2>2. SessionOf(r) \in Session
    BY <1>0, <2>1, InHandlerTypes
  <2>3. request[r].copy \in Session
    BY <1>0 DEF Handler
  <2>4. /\ [request[r].copy EXCEPT !.total = SessionOf(r).total] \in Session
        /\ [request[r].copy EXCEPT !.turns = SessionOf(r).turns] \in Session
        /\ [request[r].copy EXCEPT !.artifact = SessionOf(r).artifact] \in Session
    BY <2>2, <2>3 DEF Session
  <2>5. request' \in [Requests -> Handler]
    BY <1>0, <1>9, <2>4, PassTypes DEF Dump, HandlerPhases
  <2>6. request'[r].phase # "unsent" /\ request'[r].id = request[r].id
    BY <1>9, PassNotingOne DEF Dump, Fields
  <2>. QED BY <1>0, <1>9, <2>5, <2>6, HandlingTypes DEF TypeOK, Dump, clients
<1>10. CASE Save(r)
  <2>1. NewSession \in Session
    BY SessionConstants DEF NewSession, Session
  <2>2. request' \in [Requests -> Handler]
    <3>1. "saved" \in HandlerPhases
      BY DEF HandlerPhases
    <3>. QED BY <1>0, <1>10, <2>1, <3>1, PassTypes DEF Save
  <2>3. request'[r].phase # "unsent" /\ request'[r].id = request[r].id
    BY <1>10, PassNotingOne DEF Save, Fields
  <2>4. request[r].copy \in Session
    BY <1>0 DEF Handler
  <2>5. store' \in [Places -> [Ids -> Session \cup {Nothing}]]
    <3>1. PICK place, id :
            store' = store \/ store' = [store EXCEPT ![place][id] = request[r].copy]
      BY <1>10 DEF Save, Persist
    <3>2. store \in [Places -> [Ids -> Session \cup {Nothing}]]
      BY <1>0
    <3>. QED BY <2>4, <3>1, <3>2
  <2>. QED BY <1>0, <1>10, <2>2, <2>3, <2>5, HandlingTypes DEF TypeOK, Save, clients
<1>11. CASE Respond(r)
  <2>2. request' \in [Requests -> Handler]
    <3> DEFINE status == IF waiting[request[r].by] = r THEN 200 ELSE 504
    <3>1. "over" \in HandlerPhases /\ status \in Statuses
      BY DEF HandlerPhases, Statuses
    <3>2. PassNoting(r, "saved", "over", "status", status)
      BY <1>11 DEF Respond
    <3> HIDE DEF status
    <3>. QED BY <1>0, <3>1, <3>2, PassTypes
  <2>3. request'[r].phase # "unsent" /\ request'[r].id = request[r].id
    BY <1>11, PassNotingOne DEF Respond, Fields
  <2>4. waiting' \in [Clients -> 0..sent]
    BY <1>0, <1>11 DEF Respond
  <2>5. sid' \in [Clients -> 0..ids]
    <3>1. request[r].id \in 0..ids
      BY <1>0 DEF TypeOK, Sent
    <3>. QED BY <1>0, <1>11, <3>1 DEF Respond
  <2>. QED BY <1>0, <1>11, <2>2, <2>3, <2>4, <2>5, HandlingTypes DEF TypeOK, Respond
<1>2. CASE Load(r)
  <2>1. request[r].phase = "loading" /\ ids + 1 \in 0..sent
    BY <1>0, <1>2, EarlyCount DEF Load, DrawnOnce, EarlyRequests, Early
  <2>2. PICK stored \in Lookup(request[r].at, request[r].asked) :
          LET id == IF Missing(stored) THEN FreshId ELSE request[r].asked
          IN  /\ runtime' = [runtime EXCEPT ![r] =
                    IF Missing(stored) THEN NewSession ELSE Restored(stored)]
              /\ ids' = IF Missing(stored) THEN FreshId ELSE ids
              /\ request' = [request EXCEPT ![r] =
                    [request[r] EXCEPT !.phase = "loaded", !.id = id, !.runtime = r]]
    BY Zenon, <1>2 DEF Load
  <2> DEFINE id == IF Missing(stored) THEN FreshId ELSE request[r].asked
  <2>3. stored \in Session \cup {Nothing}
    <3>1. CASE request[r].asked = 0
      BY <3>1 DEF Lookup
    <3>2. CASE request[r].asked # 0
      <4>1. request[r].asked \in Ids
        BY <1>0, <3>2, SessionConstants DEF Ids
      <4>2. Place(request[r].at) \in Places
        BY <1>0 DEF Place, Places
      <4>3. store[Place(request[r].at)][request[r].asked] \in Session \cup {Nothing}
        BY <1>0, <4>1, <4>2
      <4>. QED BY <3>2, <4>3 DEF Lookup
    <3>. QED BY <3>1, <3>2
  <2>4. ids' \in ids..sent /\ id \in 0..ids' /\ id \in 0..MaxRequests
    <3>1. /\ ids \in Nat /\ sent \in Nat /\ ids + 1 <= sent /\ sent <= MaxRequests
          /\ MaxRequests \in Nat /\ request[r].asked \in 0..ids
      BY <1>0, <2>1, SessionConstants DEF TypeOK
    <3>2. CASE Missing(stored)
      <4>1. id = ids + 1 /\ ids' = ids + 1
        BY <2>2, <3>2 DEF FreshId
      <4> HIDE DEF id
      <4> QED BY <3>1, <4>1
    <3>3. CASE ~Missing(stored)
      <4>1. id = request[r].asked /\ ids' = ids
        BY <2>2, <3>3
      <4> HIDE DEF id
      <4> QED BY <3>1, <4>1
    <3>. QED BY <3>2, <3>3
  <2>5. NewSession \in Session
    BY SessionConstants DEF NewSession, Session
  <2>6. runtime' \in [Requests -> Session]
    BY <1>0, <2>2, <2>3, <2>5 DEF Missing, Restored
  <2>7. live' \in [Replicas -> [Ids -> 0..MaxRequests]]
    BY <1>0, <1>2 DEF Load
  <2>8. request'[r] \in Handler /\ request'[r].phase = "loaded" /\ request'[r].id = id
    <3> DEFINE a == [request[r] EXCEPT !.phase = "loaded"]
               b == [a EXCEPT !.id = id]
               c == [b EXCEPT !.runtime = r]
    <3>1. r \in 0..MaxRequests /\ "loaded" \in HandlerPhases /\ request[r] \in Handler
      BY <1>0 DEF Requests, HandlerPhases
    <3>2. a \in Handler /\ b \in Handler /\ c \in Handler
      BY <2>4, <3>1, HandlerFields
    <3>3. request'[r] = c
      BY <1>0, <2>2
    <3>4. request[r] \in Handler
      BY <1>0
    <3>. QED BY <3>2, <3>3, <3>4 DEF Handler
  <2>9. request' \in [Requests -> Handler]
    BY <1>0, <2>2, <2>8
  <2>10. sid' \in [Clients -> 0..ids']
    <3>1. sid' = sid /\ ids \in Nat
      BY <1>0, <1>2 DEF Load, clients
    <3>. QED BY <1>0, <2>4, <3>1
  <2>. QED BY <1>0, <1>2, <2>4, <2>6, <2>7, <2>8, <2>9, <2>10, HandlingTypes
           DEF Load, clients
<1>12. CASE Register(r)
  <2>1. /\ request'[r].phase = "found" /\ request'[r].id = request[r].id
        /\ Pass(r, "loaded", "found")
    BY <1>12, PassOne DEF Register, Fields
  <2>2. request' \in [Requests -> Handler]
    BY <1>0, <2>1, PassTypes DEF HandlerPhases
  <2>3. live' \in [Replicas -> [Ids -> 0..MaxRequests]]
    <3>1. r \in 0..MaxRequests
      BY DEF Requests
    <3>. QED BY <1>0, <1>12, <3>1 DEF Register
  <2>. QED BY <1>0, <1>12, <2>1, <2>2, <2>3, HandlingTypes DEF TypeOK, Register, clients
<1>. QED BY <1>1, <1>2, <1>3, <1>4, <1>5, <1>6, <1>7, <1>8, <1>9, <1>10, <1>11, <1>12
        DEF Handling

----------------------------------------------------------------------------
(* A new request: the client has no other under way that it waits for.     *)
LEMMA SendOne ==
    ASSUME TypeOK, NEW c \in Clients, NEW rep \in Replicas, Send(c, rep)
    PROVE  /\ sent + 1 \in Requests /\ sent + 1 \notin Sent /\ sent' = sent + 1
           /\ Sent' = Sent \cup {sent + 1} /\ Sent \subseteq Requests
           /\ \A q \in Requests \ {sent + 1} : request'[q] = request[q]
           /\ LET n == request'[sent + 1]
              IN  /\ n \in Handler
                  /\ n.phase = "arrived" /\ n.by = c /\ n.at = rep
                  /\ n.asked = sid[c] /\ n.id = 0 /\ n.runtime = 0 /\ n.base = 0
                  /\ n.copy = NewSession /\ n.status = 0
<1>1. /\ sent + 1 \in Requests /\ sent + 1 \notin Sent /\ sent' = sent + 1
      /\ Sent' = Sent \cup {sent + 1} /\ Sent \subseteq Requests
  BY SessionConstants DEF Send, TypeOK, Requests, Sent
<1>2. \A q \in Requests \ {sent + 1} : request'[q] = request[q]
  BY <1>1 DEF Send, TypeOK
<1>3. request'[sent + 1] = [Unsent EXCEPT !.phase = "arrived", !.by = c, !.at = rep,
                                          !.asked = sid[c]]
  BY <1>1 DEF Send, TypeOK
<1>4. request'[sent + 1] =
        [phase |-> "arrived", by |-> c, at |-> rep, asked |-> sid[c], id |-> 0,
         runtime |-> 0, base |-> 0, num |-> 0, turn |-> 0, copy |-> NewSession,
         status |-> 0]
  BY ZenonT(40), <1>3 DEF Unsent
<1>5. NewSession \in Session /\ sid[c] \in 0..MaxRequests
  BY SessionConstants DEF NewSession, Session, TypeOK
<1>6. request'[sent + 1] \in Handler
  BY <1>4, <1>5, SessionConstants DEF Handler, HandlerPhases, Statuses
<1>. QED BY <1>1, <1>2, <1>4, <1>6

(* A timeout stops a request that waits for a thread and no other.         *)
LEMMA TimeOutOne ==
    ASSUME TypeOK, NEW c \in Clients, TimeOut(c)
    PROVE  /\ waiting[c] \in Sent
           /\ request' \in [Requests -> Handler]
           /\ \A q \in Requests \ {waiting[c]} : request'[q] = request[q]
           /\ \A f \in Fields \ {"phase"} :
                 request'[waiting[c]][f] = request[waiting[c]][f]
           /\ request'[waiting[c]].phase = IF request[waiting[c]].phase = "arrived"
                                             THEN "over"
                                             ELSE request[waiting[c]].phase
<1>1. waiting[c] \in Sent /\ waiting[c] \in Requests
  BY SessionConstants DEF TimeOut, TypeOK, Sent, Requests
<1> DEFINE w == waiting[c]
           p == IF request[w].phase = "arrived" THEN "over" ELSE request[w].phase
<1>2. p \in HandlerPhases /\ request[w] \in Handler
  BY <1>1 DEF TypeOK, Handler, HandlerPhases, Sent
<1>3. request' = [request EXCEPT ![w] = [request[w] EXCEPT !.phase = p]]
  BY <1>1 DEF TimeOut, TypeOK
<1>4. [request[w] EXCEPT !.phase = p] \in Handler
  <2> HIDE DEF p
  <2>. QED BY <1>2, HandlerFields
<1>5. request' \in [Requests -> Handler]
  BY <1>1, <1>3, <1>4 DEF TypeOK
<1>. QED BY <1>1, <1>2, <1>3, <1>5 DEF TypeOK, Handler, Fields

(* The death of a replica ends its requests and no others.                 *)
Dies(q, rep) == request[q].at = rep /\ request[q].phase # "over"

(* The requests of a replica that dies are over and hold nothing; the      *)
(* others are untouched.                                                   *)
LEMMA CrashOne ==
    ASSUME TypeOK, NEW rep \in Replicas, Crash(rep)
    PROVE  /\ request' \in [Requests -> Handler]
           /\ \A q \in Requests : Dies(q, rep) =>
                 /\ q \in Sent
                 /\ request'[q].phase = "over"
                 /\ request'[q].by = request[q].by /\ request'[q].at = rep
                 /\ request'[q].asked = 0 /\ request'[q].id = 0
                 /\ request'[q].runtime = 0 /\ request'[q].base = 0
                 /\ request'[q].copy = NewSession /\ request'[q].status = 0
           /\ \A q \in Requests : ~Dies(q, rep) => request'[q] = request[q]
<1>1. \A q \in Requests : request'[q] =
         IF Dies(q, rep)
           THEN [Unsent EXCEPT !.phase = "over", !.by = request[q].by, !.at = rep]
           ELSE request[q]
  BY Zenon DEF Crash, Dies
<1>2. \A q \in Requests : Dies(q, rep) => request'[q] =
        [phase |-> "over", by |-> request[q].by, at |-> rep, asked |-> 0, id |-> 0,
         runtime |-> 0, base |-> 0, num |-> 0, turn |-> 0, copy |-> NewSession,
         status |-> 0]
  BY ZenonT(40), <1>1 DEF Unsent
<1>3. NewSession \in Session
  BY SessionConstants DEF NewSession, Session
<1>4. ASSUME NEW q \in Requests, Dies(q, rep)
      PROVE  q \in Sent /\ request[q].by \in Clients
  <2>1. request[q].at = rep /\ Unsent.at = Nothing /\ rep # Nothing
    BY <1>4, SessionConstants DEF Unsent, Dies
  <2>2. request[q] # Unsent
    BY <2>1
  <2>3. ~(q > sent) /\ (q <= sent => request[q].by \in Clients) /\ sent \in 0..MaxRequests
    BY <2>2 DEF TypeOK
  <2>4. q \in Nat /\ sent \in Nat /\ 1 <= q
    BY <2>3, SessionConstants DEF Requests
  <2>. QED BY <2>3, <2>4 DEF Sent
<1>5. ASSUME NEW q \in Requests PROVE request'[q] \in Handler
  <2>1. CASE Dies(q, rep)
    <3>1. "over" \in HandlerPhases /\ 0 \in Statuses /\ 0 \in 0..MaxRequests /\ 0 \in Nat
      BY SessionConstants DEF HandlerPhases, Statuses
    <3>2. request[q].by \in Clients
      BY <1>4, <2>1
    <3>3. request'[q] =
            [phase |-> "over", by |-> request[q].by, at |-> rep, asked |-> 0, id |-> 0,
             runtime |-> 0, base |-> 0, num |-> 0, turn |-> 0, copy |-> NewSession,
             status |-> 0]
      BY <1>2, <2>1
    <3>. QED BY <1>3, <3>1, <3>2, <3>3 DEF Handler
  <2>2. CASE ~Dies(q, rep)
    BY Zenon, <1>1, <2>2 DEF TypeOK
  <2>. QED BY <2>1, <2>2
<1>6. request' \in [Requests -> Handler]
  <2>1. request' = [q \in Requests |-> request'[q]]
    BY Zenon DEF Crash
  <2>. QED BY <1>5, <2>1
<1>7. ASSUME NEW q \in Requests, ~Dies(q, rep) PROVE request'[q] = request[q]
  BY Zenon, <1>1, <1>7
<1>8. ASSUME NEW q \in Requests, Dies(q, rep)
      PROVE  /\ q \in Sent
             /\ request'[q].phase = "over"
             /\ request'[q].by = request[q].by /\ request'[q].at = rep
             /\ request'[q].asked = 0 /\ request'[q].id = 0
             /\ request'[q].runtime = 0 /\ request'[q].base = 0
             /\ request'[q].copy = NewSession /\ request'[q].status = 0
  <2>1. request'[q] =
          [phase |-> "over", by |-> request[q].by, at |-> rep, asked |-> 0, id |-> 0,
           runtime |-> 0, base |-> 0, num |-> 0, turn |-> 0, copy |-> NewSession,
           status |-> 0]
    BY <1>2, <1>8
  <2>2. q \in Sent
    BY <1>4, <1>8
  <2>. QED BY <2>1, <2>2
<1>. QED BY <1>6, <1>7, <1>8


----------------------------------------------------------------------------
(* What the steps of a handler do, field by field.                         *)
Keeps(r, fields) == \A f \in Fields \ fields : request'[r][f] = request[r][f]

(* Find, field by field: a live runtime is taken as it is, else the        *)
(* handler goes on to load one.                                            *)
LEMMA FindEffect ==
    ASSUME TypeOK, NEW r \in Requests, Find(r)
    PROVE  /\ request[r].phase = "arrived"
           /\ \/ /\ request[r].asked # 0
                 /\ live[request[r].at][request[r].asked] # 0
                 /\ request'[r].phase = "found"
                 /\ request'[r].id = request[r].asked
                 /\ request'[r].runtime = live[request[r].at][request[r].asked]
              \/ /\ request[r].asked # 0 => live[request[r].at][request[r].asked] = 0
                 /\ request'[r].phase = "loading"
                 /\ request'[r].id = request[r].id
                 /\ request'[r].runtime = request[r].runtime
           /\ Keeps(r, {"phase", "id", "runtime"})
           /\ UNCHANGED <<env, store, live, runtime, ids, clients>>
<1>1. request[r] \in Handler /\ DOMAIN request = Requests
  BY DEF TypeOK
<1>2. request[r].phase = "arrived" /\ UNCHANGED <<env, store, live, runtime, ids, clients>>
  BY DEF Find
<1> DEFINE q == request[r]
<1>3. CASE q.asked # 0 /\ live[q.at][q.asked] # 0
  <2>1. request'[r] = [q EXCEPT !.phase = "found", !.id = q.asked,
                               !.runtime = live[q.at][q.asked]]
    BY <1>1, <1>3 DEF Find
  <2>. QED BY <1>1, <1>2, <1>3, <2>1 DEF Handler, Keeps, Fields
<1>4. CASE ~(q.asked # 0 /\ live[q.at][q.asked] # 0)
  <2>1. request'[r] = [q EXCEPT !.phase = "loading"]
    BY <1>1, <1>4 DEF Find
  <2>. QED BY <1>1, <1>2, <1>4, <2>1 DEF Handler, Keeps, Fields
<1>. QED BY <1>3, <1>4

(* Load, field by field: a new session under a fresh id, or the stored one *)
(* under the id asked for.                                                 *)
LEMMA LoadEffect ==
    ASSUME TypeOK, NEW r \in Requests, Load(r)
    PROVE  /\ request[r].phase = "loading" /\ request'[r].phase = "loaded"
           /\ request'[r].runtime = r
           /\ Keeps(r, {"phase", "id", "runtime"})
           /\ UNCHANGED <<env, store, live, clients>>
           /\ \/ /\ request'[r].id = ids + 1 /\ ids' = ids + 1
                 /\ runtime' = [runtime EXCEPT ![r] = NewSession]
                 /\ request[r].asked # 0 /\ "lossy" \notin env =>
                       store[Place(request[r].at)][request[r].asked] = Nothing
              \/ /\ request'[r].id = request[r].asked /\ ids' = ids
                 /\ request[r].asked # 0
                 /\ store[Place(request[r].at)][request[r].asked] # Nothing
                 /\ runtime' = [runtime EXCEPT ![r] =
                                   store[Place(request[r].at)][request[r].asked]]
<1>1. request[r] \in Handler /\ DOMAIN request = Requests
  BY DEF TypeOK
<1> DEFINE q == request[r]
<1>2. q.phase = "loading" /\ UNCHANGED <<env, store, live, clients>>
  BY DEF Load
<1>3. PICK stored \in Lookup(q.at, q.asked) :
          LET id == IF Missing(stored) THEN FreshId ELSE q.asked
          IN  /\ runtime' = [runtime EXCEPT ![r] =
                    IF Missing(stored) THEN NewSession ELSE Restored(stored)]
              /\ ids' = IF Missing(stored) THEN FreshId ELSE ids
              /\ request' = [request EXCEPT ![r] =
                    [q EXCEPT !.phase = "loaded", !.id = id, !.runtime = r]]
  BY Zenon DEF Load
<1>4. CASE stored = Nothing
  <2>1. request'[r] = [q EXCEPT !.phase = "loaded", !.id = ids + 1, !.runtime = r]
    BY <1>1, <1>3, <1>4 DEF Missing, FreshId
  <2>2. /\ request'[r].phase = "loaded" /\ request'[r].id = ids + 1
        /\ request'[r].runtime = r /\ Keeps(r, {"phase", "id", "runtime"})
    BY <1>1, <2>1 DEF Handler, Keeps, Fields
  <2>3. /\ ids' = ids + 1
        /\ runtime' = [runtime EXCEPT ![r] = NewSession]
    BY <1>3, <1>4 DEF Missing, FreshId
  <2>4. q.asked # 0 /\ "lossy" \notin env => store[Place(q.at)][q.asked] = Nothing
    BY <1>3, <1>4 DEF Lookup
  <2>. QED BY <1>2, <2>2, <2>3, <2>4
<1>5. CASE stored # Nothing
  <2>1. q.asked # 0 /\ stored = store[Place(q.at)][q.asked]
    BY <1>3, <1>5 DEF Lookup
  <2>2. request'[r] = [q EXCEPT !.phase = "loaded", !.id = q.asked, !.runtime = r]
    BY <1>1, <1>3, <1>5 DEF Missing
  <2>3. /\ request'[r].phase = "loaded" /\ request'[r].id = q.asked
        /\ request'[r].runtime = r /\ Keeps(r, {"phase", "id", "runtime"})
    BY <1>1, <2>2 DEF Handler, Keeps, Fields
  <2>4. /\ ids' = ids
        /\ runtime' = [runtime EXCEPT ![r] = store[Place(q.at)][q.asked]]
    BY <1>3, <1>5, <2>1 DEF Missing, Restored
  <2>. QED BY <1>2, <1>5, <2>1, <2>3, <2>4
<1>. QED BY <1>4, <1>5

(* Register enters the runtime of the request under its id.                *)
LEMMA RegisterEffect ==
    ASSUME TypeOK, NEW r \in Requests, Register(r)
    PROVE  /\ request[r].phase = "loaded" /\ request'[r].phase = "found"
           /\ Keeps(r, {"phase"})
           /\ UNCHANGED <<env, store, runtime, ids, clients>>
           /\ live' = [live EXCEPT ![request[r].at][request[r].id] = r]
BY PassOne DEF Register, Fields, Keeps

(* Pack notes the artifact of the session as the base of the delta.        *)
LEMMA PackEffect ==
    ASSUME TypeOK, NEW r \in Requests, Pack(r)
    PROVE  /\ request[r].phase = "found" /\ request'[r].phase = "packed"
           /\ request'[r].base = SessionOf(r).artifact
           /\ Keeps(r, {"phase", "base"})
           /\ UNCHANGED <<env, store, live, runtime, ids, clients>>
BY PassNotingOne DEF Pack, Fields, Keeps

(* A step that raises ends its request and changes no session.             *)
LEMMA PackFailsEffect ==
    ASSUME TypeOK, NEW r \in Requests, PackFails(r)
    PROVE  /\ request[r].phase = "packed" /\ request'[r].phase = "over"
           /\ request'[r].status = 500
           /\ Keeps(r, {"phase", "status"})
           /\ UNCHANGED <<env, store, live, runtime, ids, sent, sid, home>>
           /\ waiting' = [waiting EXCEPT ![request[r].by] = IF @ = r THEN 0 ELSE @]
BY PassNotingOne DEF PackFails, KeepNothing, Fields, Keeps

(* RecordTotal changes the total and the artifact of one runtime.          *)
LEMMA RecordTotalEffect ==
    ASSUME TypeOK, NEW r \in Requests, RecordTotal(r)
    PROVE  /\ request[r].phase = "packed" /\ request'[r].phase = "numbering"
           /\ Keeps(r, {"phase"})
           /\ UNCHANGED <<env, store, live, ids, clients>>
           /\ \A k \in Requests :
                 IF k = request[r].runtime
                   THEN /\ runtime'[k].total = runtime[k].total + TurnTokens(r)
                        /\ runtime'[k].artifact = r
                        /\ runtime'[k].turns = runtime[k].turns
                   ELSE runtime'[k] = runtime[k]
<1>1. /\ request[r].phase = "packed" /\ request'[r].phase = "numbering"
      /\ Keeps(r, {"phase"})
      /\ UNCHANGED <<env, store, live, ids, clients>>
  BY PassOne DEF RecordTotal, Fields, Keeps
<1>2. PICK t : t = TurnTokens(r)
  OBVIOUS
<1>3. runtime' = [runtime EXCEPT ![request[r].runtime].total = @ + t,
                               ![request[r].runtime].artifact = r]
  BY <1>2 DEF RecordTotal
<1>4. ASSUME NEW k \in Requests
      PROVE  IF k = request[r].runtime
                   THEN /\ runtime'[k].total = runtime[k].total + t
                        /\ runtime'[k].artifact = r
                        /\ runtime'[k].turns = runtime[k].turns
                   ELSE runtime'[k] = runtime[k]
  BY SMTT(30), <1>3 DEF TypeOK, Session
<1>. QED BY <1>1, <1>2, <1>4

(* Number notes one more than the turns of the session.                    *)
LEMMA NumberEffect ==
    ASSUME TypeOK, NEW r \in Requests, Number(r)
    PROVE  /\ request[r].phase = "numbering" /\ request'[r].phase = "appending"
           /\ request'[r].num = Len(SessionOf(r).turns) + 1
           /\ Keeps(r, {"phase", "num"})
           /\ UNCHANGED <<env, store, live, runtime, ids, clients>>
BY PassNotingOne DEF Number, Fields, Keeps

(* AppendTurn adds one turn to one runtime.                                *)
LEMMA AppendTurnEffect ==
    ASSUME TypeOK, NEW r \in Requests, AppendTurn(r)
    PROVE  /\ request[r].phase = "appending" /\ request'[r].phase = "answering"
           /\ Keeps(r, {"phase"})
           /\ UNCHANGED <<env, store, live, ids, clients>>
           /\ \A k \in Requests :
                 IF k = request[r].runtime
                   THEN /\ runtime'[k].turns =
                              Append(runtime[k].turns,
                                     [req |-> r, num |-> request[r].num,
                                      tokens |-> TurnTokens(r)])
                        /\ runtime'[k].artifact = runtime[k].artifact
                        /\ runtime'[k].total = runtime[k].total
                   ELSE runtime'[k] = runtime[k]
<1>1. /\ request[r].phase = "appending" /\ request'[r].phase = "answering"
      /\ Keeps(r, {"phase"})
      /\ UNCHANGED <<env, store, live, ids, clients>>
  BY PassOne DEF AppendTurn, Fields, Keeps
<1>2. PICK turns : turns = Append(SessionOf(r).turns,
                                [req |-> r, num |-> request[r].num,
                                 tokens |-> TurnTokens(r)])
  OBVIOUS
<1>3. runtime' = [runtime EXCEPT ![request[r].runtime].turns = turns]
  BY <1>2 DEF AppendTurn, Note
<1>4. ASSUME NEW k \in Requests
      PROVE  IF k = request[r].runtime
                   THEN /\ runtime'[k].turns = turns
                        /\ runtime'[k].artifact = runtime[k].artifact
                        /\ runtime'[k].total = runtime[k].total
                   ELSE runtime'[k] = runtime[k]
  BY <1>3 DEF TypeOK, Session
<1>. QED BY <1>1, <1>2, <1>4 DEF SessionOf

(* Answer notes the number of turns of the session.                        *)
LEMMA AnswerEffect ==
    ASSUME TypeOK, NEW r \in Requests, Answer(r)
    PROVE  /\ request[r].phase = "answering" /\ request'[r].phase = "dumping"
           /\ request'[r].turn = Len(SessionOf(r).turns)
           /\ Keeps(r, {"phase", "turn"})
           /\ UNCHANGED <<env, store, live, runtime, ids, clients>>
BY PassNotingOne DEF Answer, LastTurn, Fields, Keeps

(* Dump copies the total, then the turns, then the artifact of the         *)
(* session.                                                                *)
LEMMA DumpEffect ==
    ASSUME TypeOK, NEW r \in Requests, Dump(r)
    PROVE  /\ Keeps(r, {"phase", "copy"})
           /\ UNCHANGED <<env, store, live, runtime, ids, clients>>
           /\ \/ /\ request[r].phase = "dumping" /\ request'[r].phase = "copying"
                 /\ request'[r].copy = [request[r].copy EXCEPT !.total = SessionOf(r).total]
              \/ /\ request[r].phase = "copying" /\ request'[r].phase = "closing"
                 /\ request'[r].copy = [request[r].copy EXCEPT !.turns = SessionOf(r).turns]
              \/ /\ request[r].phase = "closing" /\ request'[r].phase = "saving"
                 /\ request'[r].copy =
                       [request[r].copy EXCEPT !.artifact = SessionOf(r).artifact]
BY PassNotingOne DEF Dump, Fields, Keeps

(* Save puts the copy in the store of the replica, or fails unnoticed.     *)
LEMMA SaveEffect ==
    ASSUME TypeOK, NEW r \in Requests, Save(r)
    PROVE  /\ request[r].phase = "saving" /\ request'[r].phase = "saved"
           /\ request'[r].copy = NewSession
           /\ Keeps(r, {"phase", "copy"})
           /\ \/ store' = [store EXCEPT ![Place(request[r].at)][request[r].id] =
                                           request[r].copy]
              \/ "lossy" \in env /\ store' = store
           /\ UNCHANGED <<env, live, runtime, ids, clients>>
BY PassNotingOne DEF Save, Persist, Fields, Keeps

(* Respond reaches the client only if it still waits for this request.     *)
LEMMA RespondEffect ==
    ASSUME TypeOK, NEW r \in Requests, Respond(r)
    PROVE  /\ request[r].phase = "saved" /\ request'[r].phase = "over"
           /\ Keeps(r, {"phase", "status"})
           /\ UNCHANGED <<env, store, live, runtime, ids, sent, home>>
           /\ \/ /\ waiting[request[r].by] = r /\ request'[r].status = 200
                 /\ sid' = [sid EXCEPT ![request[r].by] = request[r].id]
                 /\ waiting' = [waiting EXCEPT ![request[r].by] = 0]
              \/ /\ waiting[request[r].by] # r /\ request'[r].status = 504
                 /\ sid' = sid /\ waiting' = waiting
<1>1. /\ request[r].phase = "saved" /\ request'[r].phase = "over"
      /\ Keeps(r, {"phase", "status"})
      /\ UNCHANGED <<env, store, live, runtime, ids, sent, home>>
      /\ request'[r].status = IF waiting[request[r].by] = r THEN 200 ELSE 504
  BY PassNotingOne DEF Respond, Fields, Keeps
<1>2. CASE waiting[request[r].by] = r
  BY <1>1, <1>2 DEF Respond
<1>3. CASE waiting[request[r].by] # r
  BY <1>1, <1>3 DEF Respond, TypeOK
<1>. QED BY <1>2, <1>3


----------------------------------------------------------------------------
Basic == TypeOK /\ DrawnOnce /\ HandlerOK /\ UndrawnUnused /\ Registered

(* What the types say of the requests sent and of the ids drawn.           *)
LEMMA BasicFacts ==
    ASSUME TypeOK
    PROVE  /\ sent \in Nat /\ sent <= MaxRequests /\ Sent \subseteq Requests
           /\ MaxRequests \in Nat /\ ids \in Nat /\ ids <= sent
           /\ IsFiniteSet(Sent)
           /\ \A r \in Sent : /\ request[r].by \in Clients /\ request[r].at \in Replicas
                             /\ request[r].asked \in 0..ids /\ request[r].id \in 0..ids
                             /\ r # 0 /\ r \in Nat
<1>1. sent \in Nat /\ sent <= MaxRequests /\ MaxRequests \in Nat /\ ids \in Nat /\ ids <= sent
  BY SessionConstants DEF TypeOK
<1>2. Sent \subseteq Requests /\ IsFiniteSet(Sent)
  BY <1>1, FS_Interval DEF Sent, Requests
<1>. QED BY <1>1, <1>2 DEF TypeOK, Sent

(* Handlers do not become early.                                           *)
LEMMA HandlingNoted ==
    ASSUME TypeOK, HandlerOK, Registered, NEW r \in Requests, Handling(r)
    PROVE  /\ request'[r].phase \in Early => request[r].phase \in Early
           /\ HandlerOK'
<1>0. r \in Sent /\ Sent' = Sent /\ Noted(r) /\ r # 0
  BY HandlingOne, BasicFacts DEF Sent, HandlerOK
<1>1. /\ request'[r].phase \in Early => request[r].phase \in Early
      /\ Noted(r)'
  <2>1. CASE Find(r)
    <3>1. /\ request[r].asked # 0 /\ live[request[r].at][request[r].asked] # 0 =>
                live[request[r].at][request[r].asked] \in Sent
      BY <1>0, BasicFacts, SessionConstants DEF Registered, Ids
    <3>. QED BY <1>0, <2>1, <3>1, FindEffect DEF Noted, Early, Keeps, Fields
  <2>2. CASE Load(r)
    <3>1. /\ request[r].phase = "loading" /\ request'[r].phase = "loaded"
          /\ request'[r].runtime = r /\ request'[r].id # 0
          /\ Keeps(r, {"phase", "id", "runtime"})
      <4>1. /\ request[r].phase = "loading" /\ request'[r].phase = "loaded"
            /\ request'[r].runtime = r /\ Keeps(r, {"phase", "id", "runtime"})
            /\ \/ request'[r].id = ids + 1
               \/ request'[r].id = request[r].asked /\ request[r].asked # 0
        BY <2>2, LoadEffect
      <4>2. ids \in Nat
        BY BasicFacts
      <4>. QED BY <4>1, <4>2
    <3>. QED BY <1>0, <3>1 DEF Noted, Early, Keeps, Fields
  <2>3. CASE Pack(r)
    BY <1>0, <2>3, PackEffect DEF Noted, Early, Keeps, Fields
  <2>4. CASE PackFails(r)
    BY <1>0, <2>4, PackFailsEffect DEF Noted, Early, Keeps, Fields
  <2>5. CASE RecordTotal(r)
    BY <1>0, <2>5, RecordTotalEffect DEF Noted, Early, Keeps, Fields
  <2>6. CASE Number(r)
    BY <1>0, <2>6, NumberEffect DEF Noted, Early, Keeps, Fields
  <2>7. CASE AppendTurn(r)
    <3>1. /\ request[r].phase = "appending" /\ request'[r].phase = "answering"
          /\ Keeps(r, {"phase"})
      BY <2>7, AppendTurnEffect
    <3>. QED BY <1>0, <3>1 DEF Noted, Early, Keeps, Fields
  <2>8. CASE Answer(r)
    BY <1>0, <2>8, AnswerEffect DEF Noted, Early, Keeps, Fields
  <2>9. CASE Dump(r)
    BY ZenonT(40), <1>0, <2>9, DumpEffect DEF Noted, Early, Keeps, Fields
  <2>10. CASE Save(r)
    BY ZenonT(40), <1>0, <2>10, SaveEffect DEF Noted, Early, Keeps, Fields
  <2>11. CASE Respond(r)
    BY <1>0, <2>11, RespondEffect DEF Noted, Early, Keeps, Fields
  <2>12. CASE Register(r)
    BY ZenonT(40), <1>0, <2>12, RegisterEffect DEF Noted, Early, Keeps, Fields
  <2>. QED BY <2>1, <2>2, <2>3, <2>4, <2>5, <2>6, <2>7, <2>8, <2>9, <2>10, <2>11, <2>12
           DEF Handling
<1>2. ASSUME NEW q \in Sent, q # r PROVE Noted(q)'
  <2>1. request'[q] = request[q]
    BY <1>2, HandlingOne, BasicFacts
  <2>. QED BY <1>0, <2>1 DEF HandlerOK, Noted
<1>. QED BY <1>0, <1>1, <1>2 DEF HandlerOK

(* The steps of a handler keep Basic.                                      *)
LEMMA HandlingBasic ==
    ASSUME Basic, NEW r \in Requests, Handling(r)
    PROVE  Basic'
<1>0. /\ r \in Sent /\ Sent' = Sent /\ sent' = sent
      /\ sent \in Nat /\ ids \in Nat /\ MaxRequests \in Nat
      /\ request[r].id \in 0..ids /\ request[r].asked \in 0..ids
      /\ request[r].at \in Replicas
      /\ TypeOK /\ DrawnOnce /\ HandlerOK /\ UndrawnUnused /\ Registered
  BY HandlingOne, BasicFacts DEF Sent, Basic
<1>1. TypeOK'
  BY <1>0, HandlingTypeOK
<1>2. HandlerOK'
  BY <1>0, HandlingNoted
<1>3. EarlyRequests' \subseteq EarlyRequests
  BY <1>0, HandlingOne, HandlingNoted, BasicFacts DEF EarlyRequests
<1>4. IsFiniteSet(EarlyRequests) /\ Cardinality(EarlyRequests) \in Nat
  BY <1>0, EarlyCount
<1>5. Cardinality(EarlyRequests') <= Cardinality(EarlyRequests)
  BY <1>3, <1>4, FS_Subset
<1>6. Cardinality(EarlyRequests') \in Nat
  BY <1>3, <1>4, FS_Subset, FS_CardinalityType
<1>7. CASE Load(r)
  <2>1. request[r].phase = "loading" /\ request'[r].phase = "loaded"
    BY <1>0, <1>7, LoadEffect
  <2>2. r \in EarlyRequests /\ r \notin EarlyRequests'
    BY <1>0, <2>1 DEF EarlyRequests, Early
  <2>3. EarlyRequests' \subseteq EarlyRequests \ {r}
    BY <1>3, <2>2
  <2>4. /\ IsFiniteSet(EarlyRequests \ {r})
        /\ Cardinality(EarlyRequests \ {r}) = Cardinality(EarlyRequests) - 1
    BY <1>4, <2>2, FS_RemoveElement
  <2>5. Cardinality(EarlyRequests') <= Cardinality(EarlyRequests) - 1
    BY <2>3, <2>4, FS_Subset
  <2>6. ids' = ids \/ ids' = ids + 1
    BY <1>0, <1>7, LoadEffect
  <2>7. DrawnOnce'
    BY <1>0, <1>4, <1>6, <2>5, <2>6 DEF DrawnOnce
  <2>8. live' = live /\ store' = store
    BY <1>7 DEF Load
  <2>9. UndrawnUnused'
    BY SMTT(30), <1>0, <2>6, <2>8 DEF UndrawnUnused, TypeOK, Ids
  <2>10. Registered'
    BY <1>0, <2>8 DEF Registered, TypeOK
  <2>. QED BY <1>1, <1>2, <2>7, <2>9, <2>10 DEF Basic
<1>9. CASE Register(r)
  <2>1. request[r].phase = "loaded" /\ ids' = ids /\ store' = store
        /\ live' = [live EXCEPT ![request[r].at][request[r].id] = r]
    BY <1>0, <1>9, RegisterEffect
  <2>2. DrawnOnce'
    BY <1>0, <1>4, <1>5, <1>6, <2>1 DEF DrawnOnce
  <2>3. UndrawnUnused'
    BY SMTT(30), <1>0, <2>1 DEF UndrawnUnused, TypeOK, Ids
  <2>4. Registered'
    BY <1>0, <2>1 DEF Registered, TypeOK
  <2>. QED BY <1>1, <1>2, <2>2, <2>3, <2>4 DEF Basic
<1>8. CASE ~Load(r) /\ ~Register(r)
  <2>1. ids' = ids /\ live' = live
    BY ZenonT(30), <1>0, <1>8, FindEffect, PackEffect, PackFailsEffect, RecordTotalEffect,
       NumberEffect, AppendTurnEffect, AnswerEffect, DumpEffect, SaveEffect,
       RespondEffect DEF Handling
  <2>2. DrawnOnce'
    BY <1>0, <1>4, <1>5, <1>6, <2>1 DEF DrawnOnce
  <2>3. Registered'
    BY <1>0, <2>1 DEF Registered
  <2>4. CASE Save(r)
    <3>1. PICK place : \/ store' = [store EXCEPT ![place][request[r].id] = request[r].copy]
                       \/ store' = store
      BY <1>0, <2>4, SaveEffect
    <3>2. ASSUME NEW p \in Places, NEW id \in Ids, id > ids
          PROVE  store'[p][id] = store[p][id]
      <4>1. id # request[r].id
        BY <1>0, <3>2 DEF Ids
      <4>. QED BY <1>0, <3>1, <3>2, <4>1 DEF TypeOK
    <3>3. UndrawnUnused'
      BY <1>0, <2>1, <3>2 DEF UndrawnUnused
    <3>. QED BY <1>1, <1>2, <2>2, <2>3, <3>3 DEF Basic
  <2>5. CASE ~Save(r)
    <3>1. store' = store
      BY <1>0, <1>8, <2>5, FindEffect, PackEffect, PackFailsEffect, RecordTotalEffect,
         NumberEffect, AppendTurnEffect, AnswerEffect, DumpEffect,
         RespondEffect DEF Handling
    <3>2. UndrawnUnused'
      BY <1>0, <2>1, <3>1 DEF UndrawnUnused
    <3>. QED BY <1>1, <1>2, <2>2, <2>3, <3>2 DEF Basic
  <2>. QED BY <2>4, <2>5
<1>. QED BY <1>7, <1>8, <1>9

(* A request that is sent keeps Basic.                                     *)
LEMMA SendBasic ==
    ASSUME Basic, NEW c \in Clients, NEW rep \in Replicas, Send(c, rep)
    PROVE  Basic'
<1>n. PICK n : n = sent + 1
  OBVIOUS
<1>0. /\ sent \in Nat /\ ids \in Nat /\ MaxRequests \in Nat /\ ids <= sent
      /\ TypeOK /\ DrawnOnce /\ HandlerOK /\ UndrawnUnused /\ Registered
      /\ IsFiniteSet(Sent)
  BY BasicFacts DEF Basic
<1>1. /\ n \in Requests /\ n \notin Sent /\ sent' = n /\ n # 0
      /\ n = sent + 1 /\ n \in Nat
      /\ Sent' = Sent \cup {n} /\ Sent \subseteq Requests
      /\ \A q \in Requests \ {n} : request'[q] = request[q]
  BY <1>n, <1>0, SendOne
<1>2. /\ request'[n] \in Handler
      /\ request'[n].phase = "arrived" /\ request'[n].by = c /\ request'[n].at = rep
      /\ request'[n].asked = sid[c] /\ request'[n].id = 0 /\ request'[n].runtime = 0
      /\ request'[n].base = 0 /\ request'[n].status = 0
  BY <1>n, <1>0, SendOne
<1>3. /\ UNCHANGED <<env, store, live, runtime, ids, sid>>
      /\ waiting' = [waiting EXCEPT ![c] = sent']
      /\ home' = [home EXCEPT ![c] = rep]
      /\ DOMAIN request' = Requests
  BY <1>0 DEF Send, TypeOK
<1>4. TypeOK'
  <2>1. request' \in [Requests -> Handler]
    <3>1. \A q \in Requests : request'[q] \in Handler
      BY <1>0, <1>1, <1>2 DEF TypeOK
    <3>2. request' = [q \in Requests |-> request'[q]]
      BY <1>0 DEF Send, TypeOK
    <3>. QED BY <3>1, <3>2
  <2>2. waiting' \in [Clients -> 0..sent']
    BY <1>0, <1>1, <1>3 DEF TypeOK
  <2>3. home' \in [Clients -> Replicas \cup {Nothing}]
    BY <1>0, <1>3 DEF TypeOK
  <2>4. sent' \in 0..MaxRequests /\ ids' \in 0..sent'
    BY <1>0, <1>1, <1>3 DEF Requests
  <2>5. ASSUME NEW q \in Requests
        PROVE  IF q > sent'
                 THEN request'[q] = Unsent
                 ELSE /\ request'[q].phase # "unsent"
                      /\ request'[q].by \in Clients /\ request'[q].at \in Replicas
                      /\ {request'[q].asked, request'[q].id} \subseteq 0..ids'
    <3>1. CASE q = n
      <4>1. sid[c] \in 0..ids /\ 0 \in 0..ids
        BY <1>0 DEF TypeOK
      <4>. QED BY <1>0, <1>1, <1>2, <1>3, <3>1, <4>1
    <3>2. CASE q # n
      <4>1. request'[q] = request[q]
        BY <1>1, <3>2
      <4>2. q > sent' <=> q > sent
        BY <1>0, <1>1, <3>2 DEF Requests
      <4>. QED BY <1>0, <1>3, <4>1, <4>2 DEF TypeOK
    <3>. QED BY <3>1, <3>2
  <2>. QED BY <1>0, <1>3, <2>1, <2>2, <2>3, <2>4, <2>5 DEF TypeOK
<1>5. DrawnOnce'
  <2>1. EarlyRequests' = EarlyRequests \cup {n}
    BY <1>1, <1>2 DEF EarlyRequests, Early
  <2>2. n \notin EarlyRequests /\ IsFiniteSet(EarlyRequests)
        /\ Cardinality(EarlyRequests) \in Nat
    BY <1>0, <1>1, EarlyCount DEF EarlyRequests
  <2>3. Cardinality(EarlyRequests') = Cardinality(EarlyRequests) + 1
    BY <2>1, <2>2, FS_AddElement
  <2>. QED BY <1>0, <1>1, <1>3, <2>2, <2>3 DEF DrawnOnce
<1>6. HandlerOK'
  <2>1. Noted(n)'
    BY <1>1, <1>2 DEF Noted, Early
  <2>2. ASSUME NEW q \in Sent PROVE Noted(q)'
    <3>1. request'[q] = request[q] /\ Sent \subseteq Sent'
      BY <1>1
    <3>2. Noted(q)
      BY <1>0 DEF HandlerOK
    <3>. QED BY <3>1, <3>2 DEF Noted
  <2>. QED BY <1>1, <2>1, <2>2 DEF HandlerOK
<1>7. UndrawnUnused'
  BY <1>0, <1>3 DEF UndrawnUnused
<1>8. Registered'
  BY <1>0, <1>1, <1>3 DEF Registered
<1>. QED BY <1>4, <1>5, <1>6, <1>7, <1>8 DEF Basic

(* A timeout keeps Basic.                                                  *)
LEMMA TimeOutBasic ==
    ASSUME Basic, NEW c \in Clients, TimeOut(c)
    PROVE  Basic'
<1>w. PICK w : w = waiting[c]
  OBVIOUS
<1>0. /\ sent \in Nat /\ ids \in Nat /\ MaxRequests \in Nat /\ ids <= sent
      /\ TypeOK /\ DrawnOnce /\ HandlerOK /\ UndrawnUnused /\ Registered
      /\ Sent \subseteq Requests
  BY BasicFacts DEF Basic
<1>1. /\ w \in Sent /\ request' \in [Requests -> Handler]
      /\ \A q \in Requests \ {w} : request'[q] = request[q]
      /\ \A f \in Fields \ {"phase"} : request'[w][f] = request[w][f]
      /\ request'[w].phase = IF request[w].phase = "arrived" THEN "over"
                                                         ELSE request[w].phase
  BY <1>w, <1>0, TimeOutOne
<1>2. /\ UNCHANGED <<env, store, live, runtime, ids, sent, sid, home>>
      /\ waiting' = [waiting EXCEPT ![c] = 0] /\ Sent' = Sent
  BY DEF TimeOut, Sent
<1>3. TypeOK'
  <2>1. waiting' \in [Clients -> 0..sent']
    BY <1>0, <1>2 DEF TypeOK
  <2>2. ASSUME NEW q \in Requests
        PROVE  IF q > sent'
                 THEN request'[q] = Unsent
                 ELSE /\ request'[q].phase # "unsent"
                      /\ request'[q].by \in Clients /\ request'[q].at \in Replicas
                      /\ {request'[q].asked, request'[q].id} \subseteq 0..ids'
    <3>1. CASE q = w
      BY <1>0, <1>1, <1>2, <3>1 DEF TypeOK, Fields, Sent
    <3>2. CASE q # w
      BY <1>0, <1>1, <1>2, <3>2 DEF TypeOK
    <3>. QED BY <3>1, <3>2
  <2>. QED BY <1>0, <1>1, <1>2, <2>1, <2>2 DEF TypeOK
<1>4. DrawnOnce'
  <2>1. EarlyRequests' \subseteq EarlyRequests
    BY <1>0, <1>1, <1>2 DEF EarlyRequests, Early
  <2>2. IsFiniteSet(EarlyRequests) /\ Cardinality(EarlyRequests) \in Nat
    BY <1>0, EarlyCount
  <2>3. Cardinality(EarlyRequests') <= Cardinality(EarlyRequests)
        /\ Cardinality(EarlyRequests') \in Nat
    BY <2>1, <2>2, FS_Subset, FS_CardinalityType
  <2>. QED BY <1>0, <1>2, <2>2, <2>3 DEF DrawnOnce
<1>5. HandlerOK'
  <2>1. Noted(w)'
    BY <1>0, <1>1, <1>2 DEF HandlerOK, Noted, Early, Fields
  <2>2. ASSUME NEW q \in Sent, q # w PROVE Noted(q)'
    <3>1. request'[q] = request[q]
      BY <1>0, <1>1, <2>2
    <3>2. Noted(q)
      BY <1>0 DEF HandlerOK
    <3>. QED BY <1>2, <3>1, <3>2 DEF Noted
  <2>. QED BY <1>2, <2>1, <2>2 DEF HandlerOK
<1>6. UndrawnUnused' /\ Registered'
  BY <1>0, <1>2 DEF UndrawnUnused, Registered
<1>. QED BY <1>3, <1>4, <1>5, <1>6 DEF Basic

(* The death of a replica keeps Basic.                                     *)
LEMMA CrashBasic ==
    ASSUME Basic, NEW rep \in Replicas, Crash(rep)
    PROVE  Basic'
<1>0. /\ sent \in Nat /\ ids \in Nat /\ MaxRequests \in Nat /\ ids <= sent
      /\ TypeOK /\ DrawnOnce /\ HandlerOK /\ UndrawnUnused /\ Registered
      /\ Sent \subseteq Requests
  BY BasicFacts DEF Basic
<1>1. /\ request' \in [Requests -> Handler]
      /\ \A q \in Requests : Dies(q, rep) =>
            /\ q \in Sent
            /\ request'[q].phase = "over"
            /\ request'[q].by = request[q].by /\ request'[q].at = rep
            /\ request'[q].asked = 0 /\ request'[q].id = 0
            /\ request'[q].runtime = 0 /\ request'[q].base = 0
            /\ request'[q].status = 0
      /\ \A q \in Requests : ~Dies(q, rep) => request'[q] = request[q]
  BY <1>0, CrashOne
<1>2. /\ UNCHANGED <<env, ids, sent, sid>> /\ Sent' = Sent
      /\ live' = [live EXCEPT ![rep] = [id \in Ids |-> 0]]
      /\ store' = [store EXCEPT ![rep] = [id \in Ids |-> Nothing]]
  BY Zenon DEF Crash, Sent
<1>3. TypeOK'
  <2>1. waiting' \in [Clients -> 0..sent']
    <3>1. ASSUME NEW c \in Clients
          PROVE  waiting'[c] \in 0..sent'
      <4>1. waiting'[c] = 0 \/ waiting'[c] = waiting[c]
        BY Zenon DEF Crash
      <4>2. waiting[c] \in 0..sent
        BY <1>0 DEF TypeOK
      <4>. QED BY <1>0, <1>2, <4>1, <4>2
    <3>. QED BY Zenon, <3>1 DEF Crash
  <2>2. home' \in [Clients -> Replicas \cup {Nothing}]
    BY Zenon, <1>0 DEF Crash, TypeOK
  <2>3. live' \in [Replicas -> [Ids -> 0..MaxRequests]]
    BY <1>0, <1>2 DEF TypeOK
  <2>4. store' \in [Places -> [Ids -> Session \cup {Nothing}]]
    BY <1>0, <1>2 DEF TypeOK
  <2>5. runtime' \in [Requests -> Session]
    <3>1. NewSession \in Session
      BY SessionConstants DEF NewSession, Session
    <3>. QED BY Zenon, <1>0, <3>1 DEF Crash, TypeOK
  <2>6. ASSUME NEW q \in Requests
        PROVE  IF q > sent'
                 THEN request'[q] = Unsent
                 ELSE /\ request'[q].phase # "unsent"
                      /\ request'[q].by \in Clients /\ request'[q].at \in Replicas
                      /\ {request'[q].asked, request'[q].id} \subseteq 0..ids'
    <3>1. CASE Dies(q, rep)
      <4>1. q \in Sent /\ q \in Nat
        BY <1>1, <3>1 DEF Requests
      <4>2. request[q].by \in Clients /\ ~(q > sent')
        BY <1>0, <1>2, <4>1 DEF TypeOK, Sent
      <4>. QED BY <1>0, <1>1, <1>2, <3>1, <4>2
    <3>2. CASE ~Dies(q, rep)
      BY <1>0, <1>1, <1>2, <3>2 DEF TypeOK
    <3>. QED BY <3>1, <3>2
  <2>. QED BY <1>0, <1>1, <1>2, <2>1, <2>2, <2>3, <2>4, <2>5, <2>6 DEF TypeOK
<1>4. DrawnOnce'
  <2>1. EarlyRequests' \subseteq EarlyRequests
    BY <1>0, <1>1, <1>2 DEF EarlyRequests, Early
  <2>2. IsFiniteSet(EarlyRequests) /\ Cardinality(EarlyRequests) \in Nat
    BY <1>0, EarlyCount
  <2>3. Cardinality(EarlyRequests') <= Cardinality(EarlyRequests)
        /\ Cardinality(EarlyRequests') \in Nat
    BY <2>1, <2>2, FS_Subset, FS_CardinalityType
  <2>. QED BY <1>0, <1>2, <2>2, <2>3 DEF DrawnOnce
<1>5. HandlerOK'
  <2>1. ASSUME NEW q \in Sent PROVE Noted(q)'
    <3>1. CASE Dies(q, rep)
      BY <1>0, <1>1, <1>2, <3>1 DEF Noted, Early
    <3>2. CASE ~Dies(q, rep)
      <4>1. request'[q] = request[q]
        BY <1>0, <1>1, <3>2
      <4>2. Noted(q)
        BY <1>0 DEF HandlerOK
      <4>. QED BY <1>2, <4>1, <4>2 DEF Noted
    <3>. QED BY <3>1, <3>2
  <2>. QED BY <1>2, <2>1 DEF HandlerOK
<1>6. UndrawnUnused' /\ Registered'
  BY <1>0, <1>2 DEF UndrawnUnused, Registered, TypeOK
<1>. QED BY <1>3, <1>4, <1>5, <1>6 DEF Basic

(* Steps that change neither requests nor sessions in memory.              *)
LEMMA ExpireBasic ==
    ASSUME Basic, NEW id \in Ids, Expire(id)
    PROVE  Basic'
<1>0. TypeOK /\ DrawnOnce /\ HandlerOK /\ UndrawnUnused /\ Registered
  BY DEF Basic
<1>1. /\ UNCHANGED <<env, live, runtime, request, ids, clients>>
      /\ store' = [store EXCEPT !["redis"][id] = Nothing]
  BY DEF Expire
<1>2. store' \in [Places -> [Ids -> Session \cup {Nothing}]]
  BY <1>0, <1>1 DEF TypeOK
<1>3. TypeOK'
  BY <1>0, <1>1, <1>2 DEF TypeOK, clients
<1>4. DrawnOnce'
  BY <1>0, <1>1 DEF DrawnOnce, EarlyRequests, Sent, clients
<1>5. HandlerOK' /\ Registered'
  BY <1>0, <1>1 DEF HandlerOK, Noted, Registered, Sent, clients
<1>6. UndrawnUnused'
  BY <1>0, <1>1 DEF UndrawnUnused, TypeOK
<1>. QED BY <1>3, <1>4, <1>5, <1>6 DEF Basic

(* Basic holds at first.                                                   *)
LEMMA InitBasic == Init => Basic
<1> SUFFICES ASSUME Init PROVE Basic
  OBVIOUS
<1>1. NewSession \in Session /\ Unsent \in Handler
  <2>1. NewSession \in Session
    BY SessionConstants DEF NewSession, Session
  <2>2. 0 \in 0..MaxRequests /\ 0 \in Statuses /\ 0 \in Nat
    BY SessionConstants DEF Statuses
  <2>. QED BY <2>1, <2>2 DEF Unsent, Handler
<1>2. Sent = {} /\ EarlyRequests = {}
  BY DEF Init, Sent, EarlyRequests
<1>3. TypeOK
  <2>1. /\ env \in Deployments /\ sent = 0 /\ ids = 0
        /\ store \in [Places -> [Ids -> Session \cup {Nothing}]]
        /\ live \in [Replicas -> [Ids -> 0..MaxRequests]]
        /\ sid \in [Clients -> 0..ids] /\ waiting \in [Clients -> 0..sent]
        /\ home \in [Clients -> Replicas \cup {Nothing}]
    BY SessionConstants DEF Init
  <2>2. runtime \in [Requests -> Session] /\ request \in [Requests -> Handler]
    BY <1>1 DEF Init
  <2>3. \A r \in Requests : r > sent /\ request[r] = Unsent
    BY DEF Init, Requests
  <2>. QED BY <2>1, <2>2, <2>3, SessionConstants DEF TypeOK
<1>4. DrawnOnce
  BY <1>2, FS_EmptySet DEF DrawnOnce, Init
<1>5. HandlerOK /\ UndrawnUnused /\ Registered
  BY <1>2 DEF HandlerOK, UndrawnUnused, Registered, Init
<1>. QED BY <1>3, <1>4, <1>5 DEF Basic

(* Every step keeps Basic.                                                 *)
LEMMA NextBasic == Basic /\ [Next]_vars => Basic'
<1> SUFFICES ASSUME Basic, [Next]_vars PROVE Basic'
  OBVIOUS
<1>1. ASSUME NEW c \in Clients, NEW rep \in Replicas, Send(c, rep) PROVE Basic'
  BY <1>1, SendBasic
<1>2. ASSUME NEW r \in Requests, Handling(r) PROVE Basic'
  BY <1>2, HandlingBasic
<1>3. ASSUME NEW c \in Clients, TimeOut(c) PROVE Basic'
  BY <1>3, TimeOutBasic
<1>4. ASSUME NEW rep \in Replicas, Crash(rep) PROVE Basic'
  BY <1>4, CrashBasic
<1>5. ASSUME NEW id \in Ids, Expire(id) PROVE Basic'
  BY <1>5, ExpireBasic
<1>6. CASE UNCHANGED vars
  BY <1>6 DEF Basic, TypeOK, DrawnOnce, EarlyRequests, HandlerOK, Noted, UndrawnUnused,
              Registered, Sent, vars, clients
<1>. QED BY <1>1, <1>2, <1>3, <1>4, <1>5, <1>6 DEF Next, Handling, Finished

(* Types, ids and phases fit together in every reachable state.            *)
LEMMA AlwaysBasic == Spec => []Basic
BY InitBasic, NextBasic, PTL DEF Spec

(* The state of the gateway keeps its type: a handler notes what belongs   *)
(* in its fields, and there is an id for every session that is created.    *)
THEOREM GatewayTypes == Spec => []TypeOK
<1>1. Basic => TypeOK
  BY DEF Basic
<1>. QED BY <1>1, AlwaysBasic, PTL

----------------------------------------------------------------------------
(* A step adds a request at most; the requests that were sent stay with    *)
(* their client and replica.                                               *)
Stable ==
    /\ env' = env
    /\ Sent \subseteq Sent'
    /\ \A q \in Sent : /\ request'[q].by = request[q].by
                       /\ request'[q].at = request[q].at

(* No step forgets a request or changes its client or its replica; the     *)
(* deployment stays what it is.                                            *)
LEMMA StepStable == ASSUME TypeOK, [Next]_vars PROVE Stable
<1>0. Sent \subseteq Requests
  BY BasicFacts
<1>1. ASSUME NEW c \in Clients, NEW rep \in Replicas, Send(c, rep) PROVE Stable
  <2>1. /\ Sent' = Sent \cup {sent + 1} /\ sent + 1 \notin Sent
        /\ \A q \in Requests \ {sent + 1} : request'[q] = request[q]
    BY <1>1, SendOne
  <2>2. env' = env
    BY <1>1 DEF Send
  <2>. QED BY <1>0, <2>1, <2>2 DEF Stable
<1>2. ASSUME NEW r \in Requests, Handling(r) PROVE Stable
  BY <1>0, <1>2, HandlingOne DEF Stable, Sent
<1>3. ASSUME NEW c \in Clients, TimeOut(c) PROVE Stable
  <2>1. /\ waiting[c] \in Sent
        /\ \A q \in Requests \ {waiting[c]} : request'[q] = request[q]
        /\ \A f \in Fields \ {"phase"} :
              request'[waiting[c]][f] = request[waiting[c]][f]
    BY <1>3, TimeOutOne
  <2>2. env' = env /\ Sent' = Sent
    BY <1>3 DEF TimeOut, Sent
  <2>. QED BY <1>0, <2>1, <2>2 DEF Stable, Fields
<1>4. ASSUME NEW rep \in Replicas, Crash(rep) PROVE Stable
  <2>1. /\ \A q \in Requests : Dies(q, rep) =>
              request'[q].by = request[q].by /\ request'[q].at = rep
        /\ \A q \in Requests : ~Dies(q, rep) => request'[q] = request[q]
    BY <1>4, CrashOne
  <2>2. env' = env /\ Sent' = Sent
    BY Zenon, <1>4 DEF Crash, Sent
  <2>. QED BY <1>0, <2>1, <2>2 DEF Stable, Dies
<1>5. ASSUME NEW id \in Ids, Expire(id) PROVE Stable
  BY <1>5 DEF Expire, Stable, Sent, clients
<1>6. CASE UNCHANGED vars
  BY <1>6 DEF vars, clients, Stable, Sent
<1>. QED BY <1>1, <1>2, <1>3, <1>4, <1>5, <1>6 DEF Next, Handling, Finished

(* The requests a session tells of.                                        *)
Members(session) == Turns(session) \cup ({session.artifact} \ {0})

(* A new session has no turn and no artifact.                              *)
LEMMA MembersNew == Members(NewSession) = {}
BY DEF Members, Turns, NewSession

(* An appended turn is added to the turns of the session.                  *)
LEMMA TurnsAppend ==
    ASSUME NEW old \in Session, NEW new, NEW turn, new.turns = Append(old.turns, turn)
    PROVE  Turns(new) = Turns(old) \cup {turn.req}
<1>1. old.turns \in Seq(Turn)
  BY DEF Session
<1>2. /\ DOMAIN new.turns = 1..(Len(old.turns) + 1)
      /\ Len(old.turns) \in Nat /\ DOMAIN old.turns = 1..Len(old.turns)
      /\ \A k \in 1..Len(old.turns) : new.turns[k] = old.turns[k]
      /\ new.turns[Len(old.turns) + 1] = turn
  BY <1>1
<1>3. DOMAIN new.turns = DOMAIN old.turns \cup {Len(old.turns) + 1}
  BY <1>2
<1>. QED BY <1>2, <1>3 DEF Turns

(* Every request in T was sent by client c.                                *)
AllBy(T, c) == \A q \in T : q \in Sent /\ request[q].by = c
AllByNext(T, c) == \A q \in T : q \in Sent' /\ request'[q].by = c

(* A session is of a client when all its members were sent by the client.  *)
LEMMA OfAllBy ==
    \A session, c : Of(session, c) <=> AllBy(Members(session), c)
BY DEF Of, AllBy, Members

(* What a client has sent stays its own.                                   *)
LEMMA AllByStable ==
    ASSUME Stable, NEW T, NEW c, AllBy(T, c)
    PROVE  AllByNext(T, c)
BY DEF Stable, AllBy, AllByNext

(* Ownership, with the requests of the sessions named by their set.        *)
LEMMA OwnedDef ==
    ASSUME NEW owner, TypeOK
    PROVE  /\ \A r \in Sent : HandlerOwned(owner, r) =>
                 AllBy(Members(request[r].copy), request[r].by)
           /\ RuntimesOwned =>
                 \A k \in Sent : AllBy(Members(runtime[k]), request[k].by)
           /\ StoreOwned(owner) =>
                 \A place \in Places, id \in Ids : store[place][id] # Nothing =>
                     AllBy(Members(store[place][id]), owner[id])
BY OfAllBy, BasicFacts DEF HandlerOwned, RuntimesOwned, RuntimeOwned, StoreOwned, StoredAt

(* What a step leaves alone stays owned as it was, also when a new id is   *)
(* given an owner.                                                         *)
Agree(owner, next) == \A id \in 1..ids : next[id] = owner[id]

(* What a step leaves alone stays owned as it was, if the step agrees on   *)
(* the owners of the ids drawn before.                                     *)
LEMMA OwnedKept ==
    ASSUME Basic, Stable, NEW owner, NEW next, Agree(owner, next), Owned(owner)
    PROVE  /\ \A q \in Sent : request'[q] = request[q] => HandlerOwned(next, q)'
           /\ \A k \in Sent : runtime'[k] = runtime[k] => RuntimeOwned(k)'
           /\ \A rep \in Replicas, id \in Ids :
                 live'[rep][id] = live[rep][id] => LiveAt(next, rep, id)'
           /\ \A place \in Places, id \in Ids :
                 store'[place][id] = store[place][id] => StoredAt(next, place, id)'
           /\ \A c \in Clients : sid'[c] = sid[c] =>
                 (sid'[c] # 0 => next[sid'[c]] = c)
<1>0. /\ TypeOK /\ UndrawnUnused /\ Sent \subseteq Requests
      /\ ids \in Nat /\ sent \in Nat /\ ids <= sent
  BY BasicFacts DEF Basic
<1>1. ASSUME NEW q \in Sent, request'[q] = request[q]
      PROVE  HandlerOwned(next, q)'
  <2>1. HandlerOwned(owner, q)
    BY DEF Owned
  <2>2. /\ request[q].asked # 0 => next[request[q].asked] = owner[request[q].asked]
        /\ request[q].id # 0 => next[request[q].id] = owner[request[q].id]
    BY <1>0, BasicFacts DEF Agree
  <2>. QED BY <1>1, <2>1, <2>2 DEF HandlerOwned, Of, Stable
<1>2. ASSUME NEW k \in Sent, runtime'[k] = runtime[k]
      PROVE  RuntimeOwned(k)'
  <2>1. RuntimeOwned(k)
    BY <1>0 DEF Owned, RuntimesOwned
  <2>. QED BY <1>2, <2>1 DEF RuntimeOwned, Of, Stable
<1>3. ASSUME NEW rep \in Replicas, NEW id \in Ids, live'[rep][id] = live[rep][id]
      PROVE  LiveAt(next, rep, id)'
  <2>1. LiveAt(owner, rep, id)
    BY DEF Owned, LiveOwned
  <2>2. live[rep][id] # 0 => next[id] = owner[id]
    BY <1>0, SessionConstants DEF UndrawnUnused, Agree, Ids
  <2>. QED BY <1>3, <2>1, <2>2 DEF LiveAt, Stable
<1>4. ASSUME NEW place \in Places, NEW id \in Ids, store'[place][id] = store[place][id]
      PROVE  StoredAt(next, place, id)'
  <2>1. StoredAt(owner, place, id)
    BY DEF Owned, StoreOwned
  <2>2. store[place][id] # Nothing => next[id] = owner[id]
    BY <1>0, SessionConstants DEF UndrawnUnused, Agree, Ids
  <2>. QED BY <1>4, <2>1, <2>2 DEF StoredAt, Of, Stable
<1>5. ASSUME NEW c \in Clients, sid'[c] = sid[c], sid'[c] # 0
      PROVE  next[sid'[c]] = c
  <2>1. owner[sid[c]] = c
    BY <1>5 DEF Owned
  <2>2. sid[c] \in 1..ids
    BY <1>0, <1>5 DEF TypeOK
  <2>. QED BY <1>5, <2>1, <2>2 DEF Agree
<1>. QED BY <1>1, <1>2, <1>3, <1>4, <1>5

(* A step of handler r keeps the ownership of everything if it keeps that  *)
(* of what it touches.                                                     *)
LEMMA HandlingOwnedBy ==
    ASSUME Basic, NEW r \in Requests, Handling(r),
           NEW owner, NEW next, Agree(owner, next), Owned(owner),
           HandlerOwned(next, r)',
           \A k \in Sent : runtime'[k] # runtime[k] => RuntimeOwned(k)',
           \A k \in Requests \ Sent : runtime'[k] = runtime[k],
           \A rep \in Replicas, id \in Ids :
              live'[rep][id] # live[rep][id] => LiveAt(next, rep, id)',
           \A place \in Places, id \in Ids :
              store'[place][id] # store[place][id] => StoredAt(next, place, id)',
           \A c \in Clients : sid'[c] # sid[c] => (sid'[c] # 0 => next[sid'[c]] = c)
    PROVE  Owned(next)'
<1>0. /\ r \in Sent /\ Sent' = Sent /\ Sent \subseteq Requests /\ TypeOK
      /\ \A q \in Requests \ {r} : request'[q] = request[q]
  BY HandlingOne, BasicFacts DEF Basic, Sent
<1>1. Stable
  BY <1>0, StepStable DEF Next, Handling
<1>2. \A q \in Sent : HandlerOwned(next, q)'
  BY <1>0, <1>1, OwnedKept
<1>3. RuntimesOwned'
  <2>1. ASSUME NEW k \in Requests \ Sent PROVE RuntimeOwned(k)'
    BY <1>0, <2>1 DEF Owned, RuntimesOwned, RuntimeOwned
  <2>2. \A k \in Sent : RuntimeOwned(k)'
    BY <1>1, OwnedKept
  <2>. QED BY <2>1, <2>2 DEF RuntimesOwned
<1>4. LiveOwned(next)'
  BY <1>1, OwnedKept DEF LiveOwned
<1>5. StoreOwned(next)'
  BY <1>1, OwnedKept DEF StoreOwned
<1>6. \A c \in Clients : sid'[c] # 0 => next[sid'[c]] = c
  BY <1>1, OwnedKept
<1>. QED BY <1>0, <1>2, <1>3, <1>4, <1>5, <1>6 DEF Owned

(* Load: a fresh id gets the client as its owner, a restored session had   *)
(* it.                                                                     *)
LEMMA LoadOwned ==
    ASSUME Basic, NEW r \in Requests, Load(r),
           NEW owner \in [Ids -> Clients \cup {Nothing}], Owned(owner)
    PROVE  \E next \in [Ids -> Clients \cup {Nothing}] : Owned(next)'
<1> DEFINE q == request[r]
<1>0. /\ Handling(r) /\ TypeOK /\ r \in Sent /\ Sent' = Sent /\ r # 0
      /\ ids \in Nat /\ UndrawnUnused /\ HandlerOwned(owner, r)
      /\ q.at \in Replicas /\ q.by \in Clients /\ q.asked \in 0..ids
      /\ request'[r].by = q.by /\ request'[r].at = q.at /\ request'[r].asked = q.asked
      /\ store' = store /\ live' = live /\ sid' = sid /\ Sent \subseteq Requests /\ Basic'
      /\ request'[r].copy = q.copy /\ request'[r].runtime = r
      /\ Stable
  <2>1. Handling(r) /\ TypeOK /\ UndrawnUnused
    BY DEF Handling, Basic
  <2>2. /\ r \in Sent /\ Sent' = Sent
        /\ request'[r].by = q.by /\ request'[r].at = q.at /\ request'[r].asked = q.asked
    BY <2>1, HandlingOne DEF Sent
  <2>3. /\ ids \in Nat /\ Sent \subseteq Requests /\ r # 0
        /\ q.at \in Replicas /\ q.by \in Clients /\ q.asked \in 0..ids
    BY <2>1, <2>2, BasicFacts
  <2>4. HandlerOwned(owner, r)
    BY <2>2 DEF Owned
  <2>5. /\ store' = store /\ live' = live /\ sid' = sid
        /\ request'[r].copy = q.copy /\ request'[r].runtime = r
    <3>1. Keeps(r, {"phase", "id", "runtime"}) /\ request'[r].runtime = r
      BY <2>1, LoadEffect
    <3>2. store' = store /\ live' = live /\ sid' = sid
      BY DEF Load, clients
    <3>. QED BY <3>1, <3>2 DEF Keeps, Fields
  <2>6. Basic' /\ Stable
    BY <2>1, HandlingBasic, StepStable DEF Next, Handling
  <2>. QED BY <2>1, <2>2, <2>3, <2>4, <2>5, <2>6
<1>1. Of(q.copy, q.by)'
  BY <1>0 DEF HandlerOwned, Of, Stable
<1>2. CASE /\ request'[r].id = ids + 1 /\ ids' = ids + 1
           /\ runtime' = [runtime EXCEPT ![r] = NewSession]
  <2>1. PICK new : new = ids + 1
    OBVIOUS
  <2>2. PICK c \in Clients : c = q.by
    BY <1>0
  <2>3. new \in Ids /\ new # 0
    <3>1. TypeOK'
      BY <1>0 DEF Basic
    <3>2. ids' <= MaxRequests /\ MaxRequests \in Nat
      BY <3>1, SessionConstants DEF TypeOK
    <3>. QED BY <1>0, <1>2, <2>1, <3>2 DEF Ids
  <2>4. PICK next : next = [owner EXCEPT ![new] = c]
    OBVIOUS
  <2>5. next \in [Ids -> Clients \cup {Nothing}] /\ next[new] = c
    BY <2>3, <2>4
  <2>6. Agree(owner, next)
    BY <1>0, <2>1, <2>4, BasicFacts, SessionConstants DEF Agree, Ids
  <2>7. HandlerOwned(next, r)'
    <3>1. q.asked # 0 => next[q.asked] = q.by
      BY <1>0, <2>6 DEF Agree, HandlerOwned
    <3>. QED BY <1>0, <1>1, <1>2, <2>1, <2>2, <2>5, <3>1 DEF HandlerOwned
  <2>8. RuntimeOwned(r)'
    <3>1. runtime'[r] = NewSession
      BY <1>0, <1>2 DEF TypeOK
    <3>. QED BY <1>0, <3>1, MembersNew DEF RuntimeOwned, Of, Members
  <2>9. \A k \in Requests : k # r => runtime'[k] = runtime[k]
    BY <1>0, <1>2 DEF TypeOK
  <2>12. Owned(next)'
    BY <1>0, <2>6, <2>7, <2>8, <2>9, HandlingOwnedBy
  <2>. QED BY <2>5, <2>12
<1>3. CASE /\ request'[r].id = q.asked /\ q.asked # 0
           /\ store[Place(q.at)][q.asked] # Nothing
           /\ runtime' = [runtime EXCEPT ![r] = store[Place(q.at)][q.asked]]
  <2>1. Agree(owner, owner)
    BY DEF Agree
  <2>2. q.asked \in Ids /\ Place(q.at) \in Places
    BY <1>0, <1>3, BasicFacts, SessionConstants DEF Ids, Place, Places
  <2>3. HandlerOwned(owner, r)'
    BY SMTT(30), <1>0, <1>1, <1>3 DEF HandlerOwned
  <2>4. RuntimeOwned(r)'
    <3>1. runtime'[r] = store[Place(q.at)][q.asked]
      BY <1>0, <1>3 DEF TypeOK
    <3>2. StoredAt(owner, Place(q.at), q.asked)
      BY <2>2 DEF Owned, StoreOwned
    <3>3. owner[q.asked] = q.by
      BY <1>0, <1>3 DEF HandlerOwned
    <3>. QED BY <1>0, <1>3, <3>1, <3>2, <3>3 DEF RuntimeOwned, StoredAt, Of, Stable
  <2>9. \A k \in Requests : k # r => runtime'[k] = runtime[k]
    BY <1>0, <1>3 DEF TypeOK
  <2>12. Owned(owner)'
    BY <1>0, <2>1, <2>3, <2>4, <2>9, HandlingOwnedBy
  <2>. QED BY <2>12
<1>. QED BY <1>0, <1>2, <1>3, LoadEffect

(* The steps of a handler keep every session with its client.              *)
LEMMA HandlingOwned ==
    ASSUME Basic, NEW r \in Requests, Handling(r),
           NEW owner \in [Ids -> Clients \cup {Nothing}], Owned(owner)
    PROVE  \E next \in [Ids -> Clients \cup {Nothing}] : Owned(next)'
<1> DEFINE q == request[r]
<1>0. /\ TypeOK /\ r \in Sent /\ Sent' = Sent /\ r # 0
      /\ HandlerOwned(owner, r) /\ HandlerOK /\ Noted(r)
      /\ q.at \in Replicas /\ q.by \in Clients /\ q.asked \in 0..ids /\ q.id \in 0..ids
      /\ request'[r].by = q.by /\ request'[r].at = q.at /\ request'[r].asked = q.asked
      /\ Sent \subseteq Requests /\ Stable /\ Agree(owner, owner)
      /\ ids \in Nat /\ ids <= MaxRequests /\ MaxRequests \in Nat
  <2>1. TypeOK /\ HandlerOK
    BY DEF Basic
  <2>2. /\ r \in Sent /\ Sent' = Sent
        /\ request'[r].by = q.by /\ request'[r].at = q.at /\ request'[r].asked = q.asked
    BY <2>1, HandlingOne DEF Sent
  <2>3. /\ Sent \subseteq Requests /\ r # 0
        /\ q.at \in Replicas /\ q.by \in Clients /\ q.asked \in 0..ids /\ q.id \in 0..ids
        /\ ids \in Nat /\ ids <= MaxRequests /\ MaxRequests \in Nat
    BY <2>1, <2>2, BasicFacts
  <2>4. Stable
    BY <2>1, StepStable DEF Next, Handling
  <2>5. HandlerOwned(owner, r) /\ Noted(r)
    BY <2>1, <2>2 DEF Owned, HandlerOK
  <2>. QED BY <2>1, <2>2, <2>3, <2>4, <2>5 DEF Agree
<1>1. ASSUME q.runtime # 0
      PROVE  /\ q.runtime \in Sent /\ request[q.runtime].by = q.by
             /\ request[q.runtime].at = q.at
             /\ Of(SessionOf(r), q.by)
  <2>1. q.runtime \in Sent /\ request[q.runtime].by = q.by /\ request[q.runtime].at = q.at
    BY <1>0, <1>1 DEF HandlerOwned
  <2>. QED BY <1>0, <2>1 DEF SessionOf, Owned, RuntimesOwned, RuntimeOwned
<1>2. ASSUME request'[r].id = q.id, request'[r].runtime = q.runtime,
             Of(q.copy, q.by)'
      PROVE  HandlerOwned(owner, r)'
  BY <1>0, <1>2 DEF HandlerOwned, Stable
<1>3. ASSUME request'[r].copy = q.copy
      PROVE  Of(q.copy, q.by)'
  BY <1>0, <1>3 DEF HandlerOwned, Of, Stable
<1>4. CASE Load(r)
  BY <1>4, LoadOwned
<1>5. CASE Find(r)
  <2>1. UNCHANGED <<store, live, runtime, sid>> /\ request'[r].copy = q.copy
    BY <1>0, <1>5, FindEffect DEF Keeps, Fields, clients
  <2>2. \/ request'[r].id = q.id /\ request'[r].runtime = q.runtime
        \/ /\ q.asked # 0 /\ live[q.at][q.asked] # 0 /\ request'[r].id = q.asked
           /\ request'[r].runtime = live[q.at][q.asked]
    BY <1>0, <1>5, FindEffect
  <2>3. HandlerOwned(owner, r)'
    <3>1. CASE request'[r].id = q.id /\ request'[r].runtime = q.runtime
      BY SMTT(30), <1>2, <1>3, <2>1, <3>1
    <3>2. CASE /\ q.asked # 0 /\ live[q.at][q.asked] # 0 /\ request'[r].id = q.asked
               /\ request'[r].runtime = live[q.at][q.asked]
      <4>1. q.asked \in Ids
        BY <1>0, <3>2 DEF Ids
      <4>2. LiveAt(owner, q.at, q.asked)
        BY <1>0, <4>1 DEF Owned, LiveOwned
      <4>. QED BY <1>0, <1>3, <2>1, <3>2, <4>2 DEF LiveAt, HandlerOwned, Stable
    <3>. QED BY <2>2, <3>1, <3>2
  <2>4. Owned(owner)'
    BY <1>0, <2>1, <2>3, HandlingOwnedBy
  <2>. QED BY <2>4
<1>6. CASE RecordTotal(r)
  <2>1. /\ UNCHANGED <<store, live, sid>> /\ request'[r].copy = q.copy
        /\ request'[r].id = q.id /\ request'[r].runtime = q.runtime
        /\ q.phase = "packed"
    BY <1>0, <1>6, RecordTotalEffect DEF Keeps, Fields, clients
  <2>2. \A k \in Requests : \/ runtime'[k] = runtime[k]
                            \/ /\ k = q.runtime /\ runtime'[k].artifact = r
                               /\ runtime'[k].turns = runtime[k].turns
    BY <1>0, <1>6, RecordTotalEffect
  <2>3. q.runtime # 0
    BY <1>0, <2>1, BasicFacts DEF Noted, Early
  <2>4. HandlerOwned(owner, r)'
    BY <1>2, <1>3, <2>1
  <2>5. ASSUME NEW k \in Requests, runtime'[k] # runtime[k]
        PROVE  k \in Sent /\ RuntimeOwned(k)'
    <3>1. k = q.runtime /\ runtime'[k].artifact = r /\ runtime'[k].turns = runtime[k].turns
      BY <2>2, <2>5
    <3>2. Of(runtime[k], q.by) /\ k \in Sent /\ request'[k].by = q.by
      BY <1>0, <1>1, <2>3, <3>1 DEF SessionOf, Stable
    <3>3. Turns(runtime'[k]) = Turns(runtime[k])
      BY <3>1 DEF Turns
    <3>. QED BY <1>0, <3>1, <3>2, <3>3 DEF RuntimeOwned, Of, Stable
  <2>6. Owned(owner)'
    BY <1>0, <2>1, <2>4, <2>5, HandlingOwnedBy
  <2>. QED BY <2>6
<1>7. CASE AppendTurn(r)
  <2>1. /\ UNCHANGED <<store, live, sid>> /\ request'[r].copy = q.copy
        /\ request'[r].id = q.id /\ request'[r].runtime = q.runtime
        /\ q.phase = "appending"
    <3>1. Keeps(r, {"phase"}) /\ q.phase = "appending"
      BY <1>0, <1>7, AppendTurnEffect
    <3>2. UNCHANGED <<store, live, sid>>
      BY <1>7 DEF AppendTurn, clients
    <3>. QED BY <3>1, <3>2 DEF Keeps, Fields
  <2> DEFINE turn == [req |-> r, num |-> q.num, tokens |-> TurnTokens(r)]
  <2>2. \A k \in Requests :
            \/ runtime'[k] = runtime[k]
            \/ /\ k = q.runtime /\ runtime'[k].artifact = runtime[k].artifact
               /\ runtime'[k].turns = Append(runtime[k].turns, turn)
    BY <1>0, <1>7, AppendTurnEffect
  <2>3. q.runtime # 0
    BY <1>0, <2>1, BasicFacts DEF Noted, Early
  <2>4. HandlerOwned(owner, r)'
    BY SMTT(30), <1>2, <1>3, <2>1
  <2>5. ASSUME NEW k \in Requests, runtime'[k] # runtime[k]
        PROVE  k \in Sent /\ RuntimeOwned(k)'
    <3>1. /\ k = q.runtime /\ runtime'[k].artifact = runtime[k].artifact
          /\ runtime'[k].turns = Append(runtime[k].turns, turn)
      BY <2>2, <2>5
    <3>2. Of(runtime[k], q.by) /\ k \in Sent /\ request'[k].by = q.by
      BY <1>0, <1>1, <2>3, <3>1 DEF SessionOf, Stable
    <3>3. runtime[k] \in Session
      BY <1>0 DEF TypeOK
    <3>4. Turns(runtime'[k]) = Turns(runtime[k]) \cup {r}
      <4>1. PICK t : t = turn
        OBVIOUS
      <4>2. runtime'[k].turns = Append(runtime[k].turns, t) /\ t.req = r
        BY <3>1, <4>1
      <4>. QED BY <3>3, <4>2, TurnsAppend
    <3>. QED BY SMTT(30), <1>0, <3>1, <3>2, <3>4 DEF RuntimeOwned, Of, Stable
  <2>6. Owned(owner)'
    BY <1>0, <2>1, <2>4, <2>5, HandlingOwnedBy
  <2>. QED BY <2>6
<1>8. CASE Dump(r)
  <2>1. /\ UNCHANGED <<store, live, runtime, sid>>
        /\ request'[r].id = q.id /\ request'[r].runtime = q.runtime
        /\ q.phase \notin Early \cup {"over"}
    BY ZenonT(40), <1>0, <1>8, DumpEffect DEF Keeps, Fields, clients, Early
  <2>2. q.runtime # 0
    BY <1>0, <2>1, BasicFacts DEF Noted
  <2>3. q.copy \in Session
    BY <1>0 DEF TypeOK, Handler
  <2>4. /\ request'[r].copy.turns \in {q.copy.turns, SessionOf(r).turns}
        /\ request'[r].copy.artifact \in {q.copy.artifact, SessionOf(r).artifact}
    BY <1>0, <1>8, <2>3, DumpEffect DEF Session
  <2>5. Turns(request'[r].copy) \in {Turns(q.copy), Turns(SessionOf(r))}
    BY <2>4 DEF Turns
  <2>6. Of(q.copy, q.by) /\ Of(SessionOf(r), q.by)
    BY <1>0, <1>1, <2>2 DEF HandlerOwned
  <2>7. Of(q.copy, q.by)'
    BY <1>0, <2>4, <2>5, <2>6 DEF Of, Stable
  <2>8. Owned(owner)'
    BY <1>0, <1>2, <2>1, <2>7, HandlingOwnedBy
  <2>. QED BY <2>8
<1>9. CASE Save(r)
  <2>1. /\ UNCHANGED <<live, runtime, sid>>
        /\ request'[r].id = q.id /\ request'[r].runtime = q.runtime
        /\ q.phase = "saving" /\ request'[r].copy = NewSession
    BY ZenonT(40), <1>0, <1>9, SaveEffect DEF Keeps, Fields, clients
  <2>2. HandlerOwned(owner, r)'
    <3>1. Of(q.copy, q.by)'
      BY <2>1, MembersNew DEF Of, Members
    <3>. QED BY <1>2, <2>1, <3>1
  <2>3. PICK place : \/ store' = [store EXCEPT ![place][q.id] = q.copy]
                     \/ store' = store
    BY <1>0, <1>9, SaveEffect
  <2>4. \A p \in Places, id \in Ids : store'[p][id] # store[p][id] =>
            id = q.id /\ store'[p][id] = q.copy
    BY <1>0, <2>3 DEF TypeOK
  <2>5. owner[q.id] = q.by /\ Of(q.copy, q.by)
    BY <1>0, <2>1 DEF HandlerOwned, Noted, Early
  <2>6. \A p \in Places, id \in Ids : store'[p][id] # store[p][id] =>
            StoredAt(owner, p, id)'
    BY <1>0, <2>4, <2>5 DEF StoredAt, Of, Stable
  <2>7. Owned(owner)'
    BY <1>0, <2>1, <2>2, <2>6, HandlingOwnedBy
  <2>. QED BY <2>7
<1>10. CASE Respond(r)
  <2>1. /\ UNCHANGED <<live, runtime, store>>
        /\ request'[r].id = q.id /\ request'[r].runtime = q.runtime
        /\ q.phase = "saved" /\ request'[r].copy = q.copy
        /\ sid' = sid \/ sid' = [sid EXCEPT ![q.by] = q.id]
    BY <1>0, <1>10, RespondEffect DEF Keeps, Fields
  <2>2. HandlerOwned(owner, r)'
    BY <1>2, <1>3, <2>1
  <2>3. \A c \in Clients : sid'[c] # sid[c] => c = q.by /\ sid'[c] = q.id
    BY <1>0, <2>1 DEF TypeOK
  <2>4. q.id # 0 => owner[q.id] = q.by
    BY <1>0 DEF HandlerOwned
  <2>7. Owned(owner)'
    BY <1>0, <2>1, <2>2, <2>3, <2>4, HandlingOwnedBy
  <2>. QED BY <2>7
<1>11. CASE Pack(r) \/ PackFails(r) \/ Number(r) \/ Answer(r)
  <2>1. /\ UNCHANGED <<live, runtime, store, sid>>
        /\ request'[r].id = q.id /\ request'[r].runtime = q.runtime
        /\ request'[r].copy = q.copy
    BY <1>0, <1>11, PackEffect, PackFailsEffect, NumberEffect, AnswerEffect
       DEF Keeps, Fields, clients
  <2>2. HandlerOwned(owner, r)'
    BY <1>2, <1>3, <2>1
  <2>7. Owned(owner)'
    BY <1>0, <2>1, <2>2, HandlingOwnedBy
  <2>. QED BY <2>7
<1>12. CASE Register(r)
  <2>1. /\ UNCHANGED <<runtime, store, sid>>
        /\ request'[r].id = q.id /\ request'[r].runtime = q.runtime
        /\ request'[r].copy = q.copy
        /\ q.phase = "loaded" /\ live' = [live EXCEPT ![q.at][q.id] = r]
    BY <1>0, <1>12, RegisterEffect DEF Keeps, Fields, clients
  <2>2. HandlerOwned(owner, r)'
    BY <1>2, <1>3, <2>1
  <2>3. owner[q.id] = q.by
    BY <1>0, <2>1 DEF HandlerOwned, Noted, Early
  <2>4. \A rep \in Replicas, id \in Ids :
            live'[rep][id] # live[rep][id] => rep = q.at /\ id = q.id /\ live'[rep][id] = r
    BY <1>0, <2>1 DEF TypeOK
  <2>5. \A rep \in Replicas, id \in Ids :
            live'[rep][id] # live[rep][id] => LiveAt(owner, rep, id)'
    BY <1>0, <2>3, <2>4 DEF LiveAt
  <2>6. Owned(owner)'
    BY <1>0, <2>1, <2>2, <2>5, HandlingOwnedBy
  <2>. QED BY <2>6
<1>. QED BY <1>4, <1>5, <1>6, <1>7, <1>8, <1>9, <1>10, <1>11, <1>12 DEF Handling

(* A request that is sent asks for a session of its client.                *)
LEMMA SendOwned ==
    ASSUME Basic, NEW c \in Clients, NEW rep \in Replicas, Send(c, rep),
           NEW owner, Owned(owner)
    PROVE  Owned(owner)'
<1>n. PICK n : n = sent + 1
  OBVIOUS
<1>0. /\ n \in Requests /\ n \notin Sent /\ n # 0
      /\ Sent' = Sent \cup {n} /\ Sent \subseteq Requests
      /\ \A q \in Requests \ {n} : request'[q] = request[q]
      /\ request'[n].by = c /\ request'[n].at = rep
      /\ request'[n].asked = sid[c] /\ request'[n].id = 0 /\ request'[n].runtime = 0
      /\ request'[n].copy = NewSession
      /\ UNCHANGED <<store, live, runtime, ids, sid>>
      /\ TypeOK /\ Stable /\ Agree(owner, owner)
  <2>1. TypeOK
    BY DEF Basic
  <2>2. Stable
    BY <2>1, StepStable DEF Next
  <2>3. n # 0
    BY <1>n, <2>1, BasicFacts
  <2>4. UNCHANGED <<store, live, runtime, ids, sid>> /\ Agree(owner, owner)
    BY DEF Send, Agree
  <2>. QED BY <1>n, <2>1, <2>2, <2>3, <2>4, SendOne
<1>1. HandlerOwned(owner, n)'
  <2>1. sid[c] # 0 => owner[sid[c]] = c
    BY DEF Owned
  <2>. QED BY <1>0, <2>1, MembersNew DEF HandlerOwned, Of, Members
<1>2. ASSUME NEW q \in Sent PROVE HandlerOwned(owner, q)'
  <2>1. request'[q] = request[q]
    BY <1>0
  <2>. QED BY <1>0, <2>1, OwnedKept
<1>3. ASSUME NEW k \in Requests PROVE RuntimeOwned(k)'
  <2>1. CASE k \in Sent
    BY <1>0, <2>1, OwnedKept
  <2>2. CASE k \notin Sent
    <3>1. runtime'[k] = NewSession
      BY <1>0, <2>2 DEF Owned, RuntimesOwned, RuntimeOwned
    <3>. QED BY <3>1, MembersNew DEF RuntimeOwned, Of, Members
  <2>. QED BY <2>1, <2>2
<1>4. LiveOwned(owner)' /\ StoreOwned(owner)'
  BY <1>0, OwnedKept DEF LiveOwned, StoreOwned
<1>5. \A d \in Clients : sid'[d] # 0 => owner[sid'[d]] = d
  BY <1>0, OwnedKept
<1>. QED BY <1>0, <1>1, <1>2, <1>3, <1>4, <1>5 DEF Owned, RuntimesOwned

(* A timeout changes no owner.                                             *)
LEMMA TimeOutOwned ==
    ASSUME Basic, NEW c \in Clients, TimeOut(c), NEW owner, Owned(owner)
    PROVE  Owned(owner)'
<1>w. PICK w : w = waiting[c]
  OBVIOUS
<1>0. /\ w \in Sent /\ Sent' = Sent /\ Sent \subseteq Requests
      /\ \A q \in Requests \ {w} : request'[q] = request[q]
      /\ \A f \in Fields \ {"phase"} : request'[w][f] = request[w][f]
      /\ UNCHANGED <<store, live, runtime, ids, sid>>
      /\ TypeOK /\ Stable /\ Agree(owner, owner)
  <2>1. TypeOK
    BY DEF Basic
  <2>2. Stable
    BY <2>1, StepStable DEF Next
  <2>4. UNCHANGED <<store, live, runtime, ids, sid>> /\ Agree(owner, owner) /\ Sent' = Sent
    BY DEF TimeOut, Agree, Sent
  <2>. QED BY <1>w, <2>1, <2>2, <2>4, TimeOutOne, BasicFacts
<1>1. HandlerOwned(owner, w)'
  <2>1. HandlerOwned(owner, w)
    BY <1>0 DEF Owned
  <2>. QED BY <1>0, <2>1 DEF HandlerOwned, Of, Fields, Stable
<1>2. ASSUME NEW q \in Sent, q # w PROVE HandlerOwned(owner, q)'
  BY <1>0, <1>2, OwnedKept
<1>3. ASSUME NEW k \in Requests PROVE RuntimeOwned(k)'
  <2>1. CASE k \in Sent
    BY <1>0, <2>1, OwnedKept
  <2>2. CASE k \notin Sent
    BY <1>0, <2>2 DEF Owned, RuntimesOwned, RuntimeOwned
  <2>. QED BY <2>1, <2>2
<1>4. LiveOwned(owner)' /\ StoreOwned(owner)'
  BY <1>0, OwnedKept DEF LiveOwned, StoreOwned
<1>5. \A d \in Clients : sid'[d] # 0 => owner[sid'[d]] = d
  BY <1>0, OwnedKept
<1>. QED BY <1>0, <1>1, <1>2, <1>3, <1>4, <1>5 DEF Owned, RuntimesOwned

(* The death of a replica changes no owner.                                *)
LEMMA CrashOwned ==
    ASSUME Basic, NEW rep \in Replicas, Crash(rep), NEW owner, Owned(owner)
    PROVE  Owned(owner)'
<1>0. /\ Sent' = Sent /\ Sent \subseteq Requests
      /\ \A q \in Requests : Dies(q, rep) =>
            /\ request'[q].asked = 0 /\ request'[q].id = 0
            /\ request'[q].runtime = 0 /\ request'[q].copy = NewSession
      /\ \A q \in Requests : ~Dies(q, rep) => request'[q] = request[q]
      /\ ids' = ids /\ sid' = sid
      /\ live' = [live EXCEPT ![rep] = [id \in Ids |-> 0]]
      /\ store' = [store EXCEPT ![rep] = [id \in Ids |-> Nothing]]
      /\ \A k \in Requests : runtime'[k] = NewSession \/ runtime'[k] = runtime[k]
      /\ TypeOK /\ Stable /\ Agree(owner, owner)
  <2>1. TypeOK
    BY DEF Basic
  <2>2. Stable
    BY <2>1, StepStable DEF Next
  <2>3. /\ \A q \in Requests : Dies(q, rep) =>
            /\ request'[q].asked = 0 /\ request'[q].id = 0
            /\ request'[q].runtime = 0 /\ request'[q].copy = NewSession
        /\ \A q \in Requests : ~Dies(q, rep) => request'[q] = request[q]
    BY <2>1, CrashOne
  <2>4. /\ ids' = ids /\ sid' = sid /\ Agree(owner, owner) /\ Sent' = Sent
        /\ live' = [live EXCEPT ![rep] = [id \in Ids |-> 0]]
        /\ store' = [store EXCEPT ![rep] = [id \in Ids |-> Nothing]]
    BY Zenon DEF Crash, Agree, Sent
  <2>5. \A k \in Requests : runtime'[k] = NewSession \/ runtime'[k] = runtime[k]
    BY Zenon DEF Crash
  <2>. QED BY <2>1, <2>2, <2>3, <2>4, <2>5, BasicFacts
<1>1. ASSUME NEW q \in Sent PROVE HandlerOwned(owner, q)'
  <2>1. CASE Dies(q, rep)
    <3>1. /\ request'[q].asked = 0 /\ request'[q].id = 0
          /\ request'[q].runtime = 0 /\ request'[q].copy = NewSession
      BY <1>0, <2>1
    <3>. QED BY <3>1, MembersNew DEF HandlerOwned, Of, Members
  <2>2. CASE ~Dies(q, rep)
    BY <1>0, <2>2, OwnedKept
  <2>. QED BY <2>1, <2>2
<1>3. ASSUME NEW k \in Requests PROVE RuntimeOwned(k)'
  <2>1. CASE runtime'[k] = NewSession
    BY <2>1, MembersNew DEF RuntimeOwned, Of, Members
  <2>2. CASE runtime'[k] = runtime[k] /\ k \in Sent
    BY <1>0, <2>2, OwnedKept
  <2>3. CASE runtime'[k] = runtime[k] /\ k \notin Sent
    BY <1>0, <2>3 DEF Owned, RuntimesOwned, RuntimeOwned
  <2>. QED BY <1>0, <2>1, <2>2, <2>3
<1>4. LiveOwned(owner)'
  <2>1. ASSUME NEW p \in Replicas, NEW id \in Ids PROVE LiveAt(owner, p, id)'
    <3>1. live'[p][id] = 0 \/ live'[p][id] = live[p][id]
      BY <1>0 DEF TypeOK
    <3>. QED BY <1>0, <3>1, OwnedKept DEF LiveAt
  <2>. QED BY <2>1 DEF LiveOwned
<1>5. StoreOwned(owner)'
  <2>1. ASSUME NEW p \in Places, NEW id \in Ids PROVE StoredAt(owner, p, id)'
    <3>1. store'[p][id] = Nothing \/ store'[p][id] = store[p][id]
      BY <1>0 DEF TypeOK
    <3>. QED BY <1>0, <3>1, OwnedKept DEF StoredAt
  <2>. QED BY <2>1 DEF StoreOwned
<1>6. \A d \in Clients : sid'[d] # 0 => owner[sid'[d]] = d
  BY <1>0, OwnedKept
<1>. QED BY <1>0, <1>1, <1>3, <1>4, <1>5, <1>6 DEF Owned, RuntimesOwned

(* A session that expires changes no owner.                                *)
LEMMA ExpireOwned ==
    ASSUME Basic, NEW lost \in Ids, Expire(lost), NEW owner, Owned(owner)
    PROVE  Owned(owner)'
<1>0. /\ UNCHANGED <<live, runtime, request, sid, sent>> /\ TypeOK
      /\ store' = [store EXCEPT !["redis"][lost] = Nothing]
  BY DEF Expire, clients, Basic
<1>1. ASSUME NEW p \in Places, NEW id \in Ids PROVE StoredAt(owner, p, id)'
  <2>1. store'[p][id] = Nothing \/ store'[p][id] = store[p][id]
    BY <1>0 DEF TypeOK
  <2>. QED BY <1>0, <2>1 DEF StoredAt, Of, Sent, Owned, StoreOwned
<1>2. StoreOwned(owner)'
  BY <1>1 DEF StoreOwned
<1>. QED BY <1>0, <1>2 DEF Owned, HandlerOwned, RuntimesOwned, RuntimeOwned, LiveOwned,
                           LiveAt, Of, Sent

(* Every step keeps every session with one client.                         *)
LEMMA NextOwnership == Basic /\ Ownership /\ [Next]_vars => Ownership'
<1> SUFFICES ASSUME Basic, Ownership, [Next]_vars PROVE Ownership'
  OBVIOUS
<1>0. PICK owner \in [Ids -> Clients \cup {Nothing}] : Owned(owner)
  BY DEF Ownership
<1>1. ASSUME NEW c \in Clients, NEW rep \in Replicas, Send(c, rep) PROVE Ownership'
  BY <1>0, <1>1, SendOwned DEF Ownership, Ids
<1>2. ASSUME NEW r \in Requests, Handling(r) PROVE Ownership'
  BY <1>0, <1>2, HandlingOwned DEF Ownership, Ids
<1>3. ASSUME NEW c \in Clients, TimeOut(c) PROVE Ownership'
  BY <1>0, <1>3, TimeOutOwned DEF Ownership, Ids
<1>4. ASSUME NEW rep \in Replicas, Crash(rep) PROVE Ownership'
  BY <1>0, <1>4, CrashOwned DEF Ownership, Ids
<1>5. ASSUME NEW id \in Ids, Expire(id) PROVE Ownership'
  BY <1>0, <1>5, ExpireOwned DEF Ownership, Ids
<1>6. CASE UNCHANGED vars
  BY <1>6 DEF Ownership, Owned, HandlerOwned, RuntimesOwned, RuntimeOwned, LiveOwned,
              LiveAt, StoreOwned, StoredAt, Of, Sent, vars, clients
<1>. QED BY <1>1, <1>2, <1>3, <1>4, <1>5, <1>6 DEF Next, Handling, Finished

(* At first there are no sessions to own.                                  *)
LEMMA InitOwnership == Init => Ownership
<1> SUFFICES ASSUME Init PROVE Ownership
  OBVIOUS
<1> DEFINE owner == [id \in Ids |-> Nothing]
<1>1. Sent = {} /\ \A k \in Requests : runtime[k] = NewSession
  BY DEF Sent, Init
<1>2. Owned(owner)
  BY <1>1 DEF Owned, RuntimesOwned, RuntimeOwned, LiveOwned, LiveAt, StoreOwned,
              StoredAt, Init
<1>. QED BY <1>2 DEF Ownership

(* Every session id has one owner in every reachable state.                *)
LEMMA AlwaysOwnership == Spec => []Ownership
BY InitOwnership, NextOwnership, AlwaysBasic, PTL DEF Spec

(* Conversations never mix: the turns and the artifact of the session a    *)
(* handler works on are of the client it works for, with any number of     *)
(* replicas, clients and requests and under every combination of timeouts, *)
(* crashes, roaming clients and losses of the store.                       *)
THEOREM ConversationsApart == Spec => []SessionsApart
<1>1. Basic /\ Ownership => SessionsApart
  <2> SUFFICES ASSUME Basic, Ownership, NEW r \in Requests, InHandler(r),
                      request[r].runtime # 0,
                      NEW q \in Turns(SessionOf(r)) \cup ({SessionOf(r).artifact} \ {0})
               PROVE  request[q].by = request[r].by
    BY DEF SessionsApart
  <2>1. PICK owner \in [Ids -> Clients \cup {Nothing}] : Owned(owner)
    BY DEF Ownership
  <2>2. r \in Sent
    BY SentHandled DEF Basic, InHandler
  <2>3. /\ request[r].runtime \in Sent /\ request[r].runtime \in Requests
        /\ request[request[r].runtime].by = request[r].by
    BY <2>1, <2>2, BasicFacts DEF Owned, HandlerOwned, Basic
  <2>4. Of(SessionOf(r), request[r].by)
    BY <2>1, <2>3 DEF Owned, RuntimesOwned, RuntimeOwned, SessionOf
  <2>. QED BY <2>4 DEF Of
<1>. QED BY <1>1, AlwaysBasic, AlwaysOwnership, PTL

----------------------------------------------------------------------------
(* What a step can mean for one request.                                   *)
Began(q) ==
    /\ request'[q].phase = "arrived" /\ request'[q].status = 0
    /\ request'[q].id = 0 /\ request'[q].runtime = 0 /\ request'[q].base = 0
    /\ request'[q].copy = NewSession

Ended(q) ==
    /\ env \cap {"timeouts", "crashes"} # {}
    /\ "timeouts" \notin env => \E rep \in Replicas : Crash(rep) /\ Dies(q, rep)
    /\ request'[q].phase = "over" /\ request'[q].status = 0
    /\ request'[q].id = 0 /\ request'[q].runtime = 0 /\ request'[q].base = 0

(* What a step does to one request: nothing, a step of its handler, its    *)
(* end by a timeout or a crash, or its arrival.                            *)
LEMMA RequestSteps ==
    ASSUME Basic, [Next]_vars, NEW q \in Requests, q \in Sent'
    PROVE  \/ q \in Sent /\ request'[q] = request[q]
           \/ q \in Sent /\ Handling(q)
           \/ q \in Sent /\ Ended(q)
           \/ q \notin Sent /\ Began(q)
<1>0. TypeOK /\ HandlerOK /\ Sent \subseteq Requests
  BY BasicFacts DEF Basic
<1>1. ASSUME NEW c \in Clients, NEW rep \in Replicas, Send(c, rep)
      PROVE  \/ q \in Sent /\ request'[q] = request[q]
             \/ q \notin Sent /\ Began(q)
  <2>1. /\ Sent' = Sent \cup {sent + 1} /\ sent + 1 \notin Sent
        /\ \A p \in Requests \ {sent + 1} : request'[p] = request[p]
    BY <1>0, <1>1, SendOne
  <2>2. Began(sent + 1)
    BY <1>0, <1>1, SendOne DEF Began
  <2>3. CASE q = sent + 1
    BY <2>1, <2>2, <2>3
  <2>4. CASE q # sent + 1
    BY <2>1, <2>4
  <2>. QED BY <2>3, <2>4
<1>2. ASSUME NEW r \in Requests, Handling(r)
      PROVE  q \in Sent /\ (request'[q] = request[q] \/ Handling(q))
  <2>1. Sent' = Sent /\ \A p \in Requests \ {r} : request'[p] = request[p]
    BY <1>0, <1>2, HandlingOne DEF Sent
  <2>. QED BY <1>2, <2>1
<1>3. ASSUME NEW c \in Clients, TimeOut(c)
      PROVE  q \in Sent /\ (request'[q] = request[q] \/ Ended(q))
  <2>1. PICK w : w = waiting[c]
    OBVIOUS
  <2>2. "timeouts" \in env /\ Sent' = Sent
    BY <1>3 DEF TimeOut, Sent
  <2>3. /\ w \in Sent /\ Sent' = Sent
        /\ \A p \in Requests \ {w} : request'[p] = request[p]
        /\ \A f \in Fields \ {"phase"} : request'[w][f] = request[w][f]
        /\ request'[w].phase = IF request[w].phase = "arrived"
                                 THEN "over" ELSE request[w].phase
    BY <1>0, <1>3, <2>1, <2>2, TimeOutOne
  <2>4. CASE q = w /\ request[w].phase = "arrived"
    <3>1. Noted(w)
      BY <1>0, <2>3 DEF HandlerOK
    <3>. QED BY <2>3, <2>2, <2>4, <3>1 DEF Ended, Noted, Early, Fields
  <2>5. CASE q = w /\ request[w].phase # "arrived"
    <3>1. request' = [request EXCEPT ![w].phase = IF @ = "arrived" THEN "over" ELSE @]
      BY <1>3, <2>1 DEF TimeOut
    <3>2. request'[w] = [request[w] EXCEPT !.phase = request[w].phase]
      BY <1>0, <2>3, <2>5, <3>1 DEF TypeOK
    <3>3. request[w] \in Handler
      BY <1>0, <2>3 DEF TypeOK
    <3>4. request'[w] = request[w]
      BY <3>2, <3>3 DEF Handler
    <3>. QED BY <2>3, <2>5, <3>4
  <2>6. CASE q # w
    BY <2>3, <2>6
  <2>. QED BY <2>4, <2>5, <2>6
<1>4. ASSUME NEW rep \in Replicas, Crash(rep)
      PROVE  q \in Sent /\ (request'[q] = request[q] \/ Ended(q))
  <2>1. /\ Sent' = Sent /\ "crashes" \in env
    BY Zenon, <1>4 DEF Crash, Sent
  <2>2. CASE Dies(q, rep)
    <3>1. /\ request'[q].phase = "over" /\ request'[q].status = 0
          /\ request'[q].id = 0 /\ request'[q].runtime = 0 /\ request'[q].base = 0
          /\ request'[q].copy = NewSession
      BY <1>0, <1>4, <2>2, CrashOne
    <3>. QED BY <1>4, <2>1, <2>2, <3>1 DEF Ended
  <2>3. CASE ~Dies(q, rep)
    BY <1>0, <1>4, <2>1, <2>3, CrashOne
  <2>. QED BY <2>2, <2>3
<1>5. ASSUME NEW id \in Ids, Expire(id) PROVE q \in Sent /\ request'[q] = request[q]
  BY <1>5 DEF Expire, clients, Sent
<1>6. CASE UNCHANGED vars
  BY <1>6 DEF vars, clients, Sent
<1>. QED BY <1>1, <1>2, <1>3, <1>4, <1>5, <1>6 DEF Next, Handling, Finished

(* A handler that steps is not over, and only two of its steps end it.     *)
LEMMA HandlingPhases ==
    ASSUME TypeOK, NEW r \in Requests, Handling(r)
    PROVE  /\ request[r].phase # "over"
           /\ PackFails(r) \/ Respond(r) \/
                 (request'[r].phase # "over" /\ waiting' = waiting)
<1>0. request[r].phase # "over"
  <2>1. CASE Find(r) \/ Load(r)
    BY Zenon, <2>1 DEF Find, Load
  <2>2. CASE Register(r) \/ RecordTotal(r) \/ AppendTurn(r)
    BY <2>2 DEF Register, RecordTotal, AppendTurn, Pass
  <2>3. CASE Pack(r) \/ PackFails(r) \/ Number(r) \/ Answer(r)
    BY <2>3 DEF Pack, PackFails, Number, Answer, PassNoting
  <2>4. CASE Dump(r) \/ Save(r) \/ Respond(r)
    BY <2>4 DEF Dump, Save, Respond, PassNoting
  <2>. QED BY SMTT(30), <2>1, <2>2, <2>3, <2>4 DEF Handling
<1>1. CASE Find(r)
  BY <1>0, <1>1, FindEffect DEF clients
<1>2. CASE Load(r)
  BY <1>0, <1>2, LoadEffect DEF clients
<1>3. CASE Pack(r) \/ Number(r) \/ Answer(r)
  BY <1>0, <1>3, PackEffect, NumberEffect, AnswerEffect DEF clients
<1>4. CASE RecordTotal(r)
  BY <1>0, <1>4, RecordTotalEffect DEF clients
<1>5. CASE AppendTurn(r)
  BY <1>0, <1>5, AppendTurnEffect DEF clients
<1>6. CASE Dump(r)
  BY <1>0, <1>6, DumpEffect DEF clients
<1>7. CASE Save(r)
  BY <1>0, <1>7, SaveEffect DEF clients
<1>8. CASE Register(r)
  BY <1>0, <1>8, RegisterEffect DEF clients
<1>. QED BY <1>0, <1>1, <1>2, <1>3, <1>4, <1>5, <1>6, <1>7, <1>8 DEF Handling

(* A request that is over does not change, and an answer is not taken back.*)
LEMMA OverFixed ==
    ASSUME Basic, [Next]_vars, NEW q \in Sent
    PROVE  /\ request[q].phase = "over" => request'[q] = request[q]
           /\ Answered(q) => request[q].phase = "over" /\ request'[q] = request[q]
<1>0. TypeOK /\ HandlerOK /\ Sent \subseteq Requests /\ Sent \subseteq Sent'
  BY BasicFacts, StepStable DEF Basic, Stable
<1>1. Answered(q) => request[q].phase = "over"
  BY <1>0 DEF HandlerOK, Noted, Answered
<1>2. ASSUME request[q].phase = "over" PROVE request'[q] = request[q]
  <2>1. ~Handling(q)
    BY <1>0, <1>2, HandlingPhases
  <2>2. ASSUME NEW rep \in Replicas, Crash(rep) PROVE request'[q] = request[q]
    BY <1>0, <1>2, <2>2, CrashOne DEF Dies
  <2>3. ASSUME NEW c \in Clients, TimeOut(c) PROVE request'[q] = request[q]
    <3>1. waiting[c] \in Sent /\ request' = [request EXCEPT ![waiting[c]].phase =
                     IF @ = "arrived" THEN "over" ELSE @]
      BY <1>0, <2>3, TimeOutOne DEF TimeOut
    <3>2. CASE waiting[c] = q
      <4>1. request'[q] = [request[q] EXCEPT !.phase = request[q].phase]
        BY <1>0, <1>2, <3>1, <3>2 DEF TypeOK
      <4>2. request[q] \in Handler
        BY <1>0 DEF TypeOK
      <4>. QED BY <4>1, <4>2 DEF Handler
    <3>3. CASE waiting[c] # q
      BY <1>0, <3>1, <3>3 DEF TypeOK
    <3>. QED BY <3>2, <3>3
  <2>4. ASSUME NEW r \in Requests, Handling(r) PROVE request'[q] = request[q]
    BY <1>0, <2>1, <2>4, HandlingOne
  <2>5. ASSUME NEW c \in Clients, NEW rep \in Replicas, Send(c, rep)
        PROVE  request'[q] = request[q]
    BY <1>0, <2>5, SendOne
  <2>6. ASSUME NEW id \in Ids, Expire(id) PROVE request'[q] = request[q]
    BY <2>6 DEF Expire
  <2>7. CASE UNCHANGED vars
    BY <2>7 DEF vars
  <2>. QED BY <2>2, <2>3, <2>4, <2>5, <2>6, <2>7 DEF Next, Handling, Finished
<1>. QED BY <1>1, <1>2

----------------------------------------------------------------------------
(* No more than MaxRequests requests are sent.                             *)
LEMMA SentNext == ASSUME Basic, [Next]_vars PROVE Sent' \subseteq Requests
<1>1. TypeOK'
  BY NextBasic DEF Basic
<1>2. sent' \in 0..MaxRequests /\ MaxRequests \in Nat
  BY <1>1, SessionConstants DEF TypeOK
<1>. QED BY <1>2 DEF Sent, Requests

(* A client waits for one request at a time.                               *)
LEMMA NextOneAtATime ==
    ASSUME Basic, OneAtATime, [Next]_vars
    PROVE  OneAtATime'
<1> SUFFICES ASSUME "timeouts" \notin env, NEW q \in Requests, q \in Sent'
             PROVE  (InFlight(q) <=> waiting[request[q].by] = q)'
  BY StepStable, SentNext DEF Basic, Stable, OneAtATime, InFlight
<1>0. /\ TypeOK /\ Sent \subseteq Requests /\ Stable
      /\ \A p \in Sent : InFlight(p) <=> waiting[request[p].by] = p
      /\ \A p \in Sent : request[p].by \in Clients /\ p # 0
      /\ waiting \in [Clients -> 0..sent]
  BY BasicFacts, StepStable DEF Basic, OneAtATime, TypeOK
<1>1. ASSUME NEW c \in Clients, NEW rep \in Replicas, Send(c, rep)
      PROVE  (InFlight(q) <=> waiting[request[q].by] = q)'
  <2>1. PICK n : n = sent + 1
    OBVIOUS
  <2>2. /\ Sent' = Sent \cup {n} /\ n \notin Sent
        /\ \A p \in Requests \ {n} : request'[p] = request[p]
        /\ request'[n].phase = "arrived" /\ request'[n].by = c
        /\ waiting' = [waiting EXCEPT ![c] = n] /\ waiting[c] = 0
    BY Zenon, <1>0, <1>1, <2>1, SendOne DEF Send
  <2>3. CASE q = n
    BY <1>0, <2>2, <2>3 DEF InFlight
  <2>4. CASE q # n
    BY <1>0, <2>2, <2>4 DEF InFlight
  <2>. QED BY <2>3, <2>4
<1>2. ASSUME NEW r \in Requests, Handling(r)
      PROVE  (InFlight(q) <=> waiting[request[q].by] = q)'
  <2>1. /\ Sent' = Sent /\ r \in Sent
        /\ \A p \in Requests \ {r} : request'[p] = request[p]
        /\ request'[r].by = request[r].by
        /\ request[r].phase # "over"
    BY <1>0, <1>2, HandlingOne, HandlingPhases DEF Sent
  <2>2. waiting[request[r].by] = r
    BY <1>0, <2>1 DEF InFlight
  <2>3. CASE PackFails(r)
    BY <1>0, <2>1, <2>2, <2>3, PackFailsEffect DEF InFlight
  <2>4. CASE Respond(r)
    BY <1>0, <2>1, <2>2, <2>4, RespondEffect DEF InFlight
  <2>5. CASE request'[r].phase # "over" /\ waiting' = waiting
    BY <1>0, <2>1, <2>2, <2>5 DEF InFlight
  <2>. QED BY <1>0, <1>2, <2>3, <2>4, <2>5, HandlingPhases
<1>3. ASSUME NEW c \in Clients, TimeOut(c)
      PROVE  (InFlight(q) <=> waiting[request[q].by] = q)'
  BY <1>3 DEF TimeOut
<1>4. ASSUME NEW rep \in Replicas, Crash(rep)
      PROVE  (InFlight(q) <=> waiting[request[q].by] = q)'
  <2>1. /\ Sent' = Sent
        /\ \A c \in Clients : waiting'[c] =
              IF waiting[c] # 0 /\ request[waiting[c]].at = rep THEN 0 ELSE waiting[c]
    BY Zenon, <1>4 DEF Crash, Sent
  <2>2. request'[q].by = request[q].by /\ request[q].by \in Clients
    BY <1>0, <2>1 DEF Stable
  <2>3. CASE Dies(q, rep)
    BY <1>0, <1>4, <2>1, <2>2, <2>3, CrashOne DEF InFlight, Dies
  <2>4. CASE ~Dies(q, rep)
    BY <1>0, <1>4, <2>1, <2>2, <2>4, CrashOne DEF InFlight, Dies
  <2>. QED BY <2>3, <2>4
<1>5. ASSUME NEW id \in Ids, Expire(id)
      PROVE  (InFlight(q) <=> waiting[request[q].by] = q)'
  BY <1>0, <1>5 DEF Expire, clients, InFlight, Sent
<1>6. CASE UNCHANGED vars
  BY <1>0, <1>6 DEF vars, clients, InFlight, Sent
<1>. QED BY <1>1, <1>2, <1>3, <1>4, <1>5, <1>6 DEF Next, Handling, Finished

(* Without timeouts a client has one request in flight at most.            *)
LEMMA AlwaysOneAtATime == Spec => []OneAtATime
<1>1. Init => OneAtATime
  BY DEF Init, OneAtATime, Sent
<1>. QED BY <1>1, NextOneAtATime, AlwaysBasic, PTL DEF Spec

(* So two handlers at work for one client, in one session or on one        *)
(* runtime are the same.                                                   *)
LEMMA OnlyOne ==
    ASSUME Basic, Ownership, OneAtATime, "timeouts" \notin env,
           NEW r \in Sent, NEW q \in Sent, InFlight(r), InFlight(q),
           \/ request[r].by = request[q].by
           \/ request[r].id # 0 /\ request[r].id = request[q].id
           \/ request[r].runtime # 0 /\ request[r].runtime = request[q].runtime
           \/ request[r].runtime = q
           \/ request[r].asked # 0 /\ request[r].asked = request[q].id
    PROVE  r = q
<1>1. PICK owner \in [Ids -> Clients \cup {Nothing}] : Owned(owner)
  BY DEF Ownership
<1>2. HandlerOwned(owner, r) /\ HandlerOwned(owner, q) /\ q # 0
  BY <1>1, BasicFacts DEF Owned, Basic
<1>3. request[r].by = request[q].by
  BY <1>2 DEF HandlerOwned
<1>. QED BY <1>3 DEF OneAtATime

(* The session a handler works on is changed by that handler only.         *)
LEMMA SessionKept ==
    ASSUME Basic, Ownership, OneAtATime, "timeouts" \notin env, [Next]_vars,
           NEW q \in Sent, InFlight(q), request[q].runtime # 0,
           request'[q] = request[q], ~Handling(q)
    PROVE  SessionOf(q)' = SessionOf(q)
<1> DEFINE k == request[q].runtime
<1>0. /\ TypeOK /\ Sent \subseteq Requests /\ k \in Sent
      /\ request[k].at = request[q].at
  <2>1. PICK owner \in [Ids -> Clients \cup {Nothing}] : Owned(owner)
    BY DEF Ownership
  <2>2. TypeOK /\ Sent \subseteq Requests
    BY BasicFacts DEF Basic
  <2>. QED BY <2>1, <2>2 DEF Owned, HandlerOwned
<1> SUFFICES runtime'[k] = runtime[k]
  BY DEF SessionOf
<1>1. ASSUME NEW r \in Requests, Handling(r) PROVE runtime'[k] = runtime[k]
  <2>1. r \in Sent /\ InFlight(r)
    BY <1>0, <1>1, HandlingOne, HandlingPhases DEF InFlight
  <2>2. k # r /\ k # request[r].runtime
    BY <1>0, <1>1, <2>1, OnlyOne
  <2>3. CASE Load(r)
    BY <1>0, <2>2, <2>3 DEF Load, TypeOK
  <2>4. CASE RecordTotal(r)
    BY <1>0, <2>2, <2>4, RecordTotalEffect
  <2>5. CASE AppendTurn(r)
    BY <1>0, <2>2, <2>5, AppendTurnEffect
  <2>6. CASE ~(Load(r) \/ RecordTotal(r) \/ AppendTurn(r))
    BY <1>1, <2>6 DEF Handling, Find, Register, Pack, PackFails, KeepNothing, Number,
                      Answer, Dump, Save, Respond
  <2>. QED BY <2>3, <2>4, <2>5, <2>6
<1>2. ASSUME NEW rep \in Replicas, Crash(rep) PROVE runtime'[k] = runtime[k]
  <2>1. ~Dies(q, rep)
    <3>1. Dies(q, rep) => request'[q].phase = "over"
      BY <1>0, <1>2, CrashOne
    <3>. QED BY <3>1 DEF InFlight
  <2>2. request[k].at # rep
    BY <1>0, <2>1 DEF Dies, InFlight
  <2>. QED BY Zenon, <1>0, <1>2, <2>2 DEF Crash
<1>3. ASSUME NEW c \in Clients, NEW rep \in Replicas, Send(c, rep)
      PROVE  runtime'[k] = runtime[k]
  BY <1>3 DEF Send
<1>4. ASSUME NEW c \in Clients, TimeOut(c) PROVE runtime'[k] = runtime[k]
  BY <1>4 DEF TimeOut
<1>5. ASSUME NEW id \in Ids, Expire(id) PROVE runtime'[k] = runtime[k]
  BY <1>5 DEF Expire
<1>6. CASE UNCHANGED vars
  BY <1>6 DEF vars
<1>. QED BY <1>1, <1>2, <1>3, <1>4, <1>5, <1>6 DEF Next, Handling, Finished

----------------------------------------------------------------------------
(* The number of a turn.                                                   *)
LEMMA NextNumbered ==
    ASSUME Basic, Ownership, OneAtATime, Numbered, [Next]_vars
    PROVE  Numbered'
<1> SUFFICES ASSUME "timeouts" \notin env, NEW q \in Requests, q \in Sent'
             PROVE  NumberedRow(q)'
  BY StepStable, SentNext DEF Basic, Stable, Numbered
<1>0. TypeOK /\ HandlerOK /\ Sent \subseteq Requests
  BY BasicFacts DEF Basic
<1>1. CASE q \notin Sent /\ Began(q)
  BY <1>1 DEF Began, NumberedRow, Answered
<1>2. CASE q \in Sent /\ Ended(q)
  BY <1>2 DEF Ended, NumberedRow, Answered
<1>3. CASE q \in Sent /\ ~Handling(q) /\ request'[q] = request[q]
  <2>1. NumberedRow(q)
    BY <1>3 DEF Numbered
  <2>2. CASE request[q].phase \in {"appending", "answering"}
    <3>1. SessionOf(q)' = SessionOf(q)
      <4>1. InFlight(q) /\ request[q].runtime # 0
        BY <1>0, <1>3, <2>2, BasicFacts DEF InFlight, HandlerOK, Noted, Early
      <4>. QED BY <1>3, <4>1, SessionKept
    <3>. QED BY <1>3, <2>1, <3>1 DEF NumberedRow, Answered
  <2>3. CASE request[q].phase \notin {"appending", "answering"}
    BY <1>3, <2>1, <2>3 DEF NumberedRow, Answered
  <2>. QED BY <2>2, <2>3
<1>4. CASE q \in Sent /\ Handling(q)
  <2>1. NumberedRow(q) /\ (request[q].phase # "over" => request[q].status = 0)
        /\ (request[q].phase \notin Early \cup {"over"} => request[q].runtime \in Requests)
    BY <1>0, <1>4 DEF Numbered, HandlerOK, Noted
  <2>2. request[q].phase # "over"
    BY <1>0, <1>4, HandlingPhases
  <2>3. CASE Find(q)
    BY <1>0, <2>1, <2>2, <2>3, FindEffect DEF NumberedRow, Answered, Keeps, Fields
  <2>4. CASE Load(q)
    <3>1. request'[q].phase = "loaded" /\ request'[q].status = request[q].status
      <4>1. request'[q].phase = "loaded" /\ Keeps(q, {"phase", "id", "runtime"})
        BY <1>0, <2>4, LoadEffect
      <4>. QED BY <4>1 DEF Keeps, Fields
    <3>. QED BY <2>1, <2>2, <3>1 DEF NumberedRow, Answered
  <2>5. CASE Pack(q)
    BY <1>0, <2>1, <2>2, <2>5, PackEffect DEF NumberedRow, Answered, Keeps, Fields
  <2>6. CASE PackFails(q)
    BY <1>0, <2>1, <2>2, <2>6, PackFailsEffect DEF NumberedRow, Answered, Keeps, Fields
  <2>7. CASE RecordTotal(q)
    BY <1>0, <2>1, <2>2, <2>7, RecordTotalEffect DEF NumberedRow, Answered, Keeps, Fields
  <2>8. CASE Number(q)
    <3>1. SessionOf(q)' = SessionOf(q)
      BY <1>0, <2>8, NumberEffect DEF Keeps, Fields, SessionOf
    <3>. QED BY <1>0, <2>1, <2>2, <2>8, <3>1, NumberEffect
             DEF NumberedRow, Answered, Keeps, Fields
  <2>9. CASE AppendTurn(q)
    <3>1. /\ request[q].phase = "appending" /\ request'[q].phase = "answering"
          /\ Keeps(q, {"phase"})
      BY <1>0, <2>9, AppendTurnEffect
    <3>2. request[q].runtime \in Requests
      BY <2>1, <3>1 DEF Early
    <3>3. PICK t : SessionOf(q)'.turns = Append(SessionOf(q).turns, t)
      <4>1. PICK k \in Requests : k = request[q].runtime
        BY <3>2
      <4>2. PICK t : runtime'[k].turns = Append(runtime[k].turns, t)
        <5>1. runtime'[k].turns = Append(runtime[k].turns,
                  [req |-> q, num |-> request[q].num, tokens |-> TurnTokens(q)])
          BY <1>0, <2>9, <4>1, AppendTurnEffect
        <5>. QED BY <5>1
      <4>3. request'[q].runtime = k
        BY <3>1, <4>1 DEF Keeps, Fields
      <4>. QED BY <4>1, <4>2, <4>3 DEF SessionOf
    <3>4. SessionOf(q).turns \in Seq(Turn)
      BY <1>0, <3>2 DEF TypeOK, SessionOf, Session
    <3>5. Len(SessionOf(q)'.turns) = Len(SessionOf(q).turns) + 1
      BY <3>3, <3>4
    <3>. QED BY <2>1, <2>2, <3>1, <3>5 DEF NumberedRow, Answered, Keeps, Fields
  <2>10. CASE Answer(q)
    BY <1>0, <2>1, <2>2, <2>10, AnswerEffect DEF NumberedRow, Answered, Keeps, Fields
  <2>11. CASE Dump(q)
    <3>1. /\ request[q].phase \in {"dumping", "copying", "closing"}
          /\ request'[q].phase \in {"copying", "closing", "saving"}
          /\ Keeps(q, {"phase", "copy"})
      BY <1>0, <2>11, DumpEffect
    <3>. QED BY <2>1, <2>2, <3>1 DEF NumberedRow, Answered, Keeps, Fields
  <2>12. CASE Save(q)
    <3>1. /\ request[q].phase = "saving" /\ request'[q].phase = "saved"
          /\ Keeps(q, {"phase", "copy"})
      BY <1>0, <2>12, SaveEffect
    <3>. QED BY <2>1, <2>2, <3>1 DEF NumberedRow, Answered, Keeps, Fields
  <2>13. CASE Respond(q)
    BY <1>0, <2>1, <2>2, <2>13, RespondEffect DEF NumberedRow, Answered, Keeps, Fields
  <2>14. CASE Register(q)
    <3>1. /\ request'[q].phase = "found" /\ Keeps(q, {"phase"})
      BY <1>0, <2>14, RegisterEffect
    <3>. QED BY <2>1, <2>2, <3>1 DEF NumberedRow, Answered, Keeps, Fields
  <2>. QED BY <1>4, <2>3, <2>4, <2>5, <2>6, <2>7, <2>8, <2>9, <2>10, <2>11, <2>12, <2>13,
              <2>14 DEF Handling
<1>. QED BY <1>1, <1>2, <1>3, <1>4, RequestSteps

(* Handlers have noted the numbers of their own turns.                     *)
LEMMA AlwaysNumbered == Spec => []Numbered
<1>1. Init => Numbered
  BY DEF Init, Numbered, Sent
<1>. QED BY <1>1, NextNumbered, AlwaysBasic, AlwaysOwnership, AlwaysOneAtATime, PTL DEF Spec

(* The number an answer names is that of the turn its request recorded,    *)
(* although run reads it back from the session after the append, unless a  *)
(* timeout lets two handlers work on one session.                          *)
THEOREM AnswerNumbersItsTurn == Spec => []OwnTurnAnswered
<1>1. Basic /\ Numbered => OwnTurnAnswered
  BY DEF Numbered, NumberedRow, OwnTurnAnswered, Answered, Basic, TypeOK, Sent, Requests,
         Unsent
<1>. QED BY <1>1, AlwaysBasic, AlwaysNumbered, PTL

----------------------------------------------------------------------------
(* A turn that was recorded is on its way to be answered, and an answer    *)
(* stays, as long as nothing cuts requests off.                            *)
KeptNext(a) ==
    request'[a].phase \notin BeforeRecord \cup {"over"} \/ request'[a].status = 200

(* A turn that was recorded and not cut off stays so until it is answered. *)
LEMMA KeptStable ==
    ASSUME Basic, OneAtATime, [Next]_vars, Undisturbed, NEW a \in Sent, Kept(a)
    PROVE  KeptNext(a)
<1>0. TypeOK /\ Sent \subseteq Requests /\ a \in Requests /\ a \in Sent'
  BY BasicFacts, StepStable DEF Basic, Stable
<1>1. CASE request'[a] = request[a]
  BY <1>1 DEF Kept, KeptNext, Answered
<1>2. CASE Answered(a)
  BY <1>2, OverFixed DEF KeptNext, Answered
<1>3. CASE request[a].phase \notin BeforeRecord \cup {"over"} /\ Handling(a)
  <2>1. waiting[request[a].by] = a
    BY <1>3 DEF OneAtATime, Undisturbed, InFlight
  <2>2. CASE Number(a) \/ Answer(a)
    BY <1>0, <2>2, NumberEffect, AnswerEffect DEF Kept, KeptNext, BeforeRecord
  <2>3. CASE AppendTurn(a)
    BY ZenonT(30), <1>0, <2>3, AppendTurnEffect DEF Kept, KeptNext, BeforeRecord
  <2>4. CASE Dump(a)
    BY ZenonT(40), <1>0, <2>4, DumpEffect DEF Kept, KeptNext, BeforeRecord
  <2>5. CASE Save(a)
    BY ZenonT(40), <1>0, <2>5, SaveEffect DEF Kept, KeptNext, BeforeRecord
  <2>6. CASE Respond(a)
    BY <1>0, <2>1, <2>6, RespondEffect DEF Kept, KeptNext, Answered
  <2>7. ~(Find(a) \/ Load(a) \/ Register(a) \/ Pack(a) \/ PackFails(a) \/ RecordTotal(a))
    BY Zenon, <1>3 DEF Find, Load, Register, Pack, PackFails, RecordTotal, Pass, PassNoting, BeforeRecord
  <2>. QED BY <1>3, <2>2, <2>3, <2>4, <2>5, <2>6, <2>7 DEF Handling
<1>4. ~Ended(a)
  BY DEF Ended, Undisturbed
<1>. QED BY <1>0, <1>1, <1>2, <1>3, <1>4, RequestSteps DEF Kept, KeptNext

(* The artifact a session compares with was recorded for the client of     *)
(* the session.                                                            *)
LEMMA ArtifactSent ==
    ASSUME Basic, Ownership
    PROVE  /\ \A k \in Requests : runtime[k].artifact # 0 => runtime[k].artifact \in Sent
           /\ \A r \in Sent : request[r].copy.artifact # 0 => request[r].copy.artifact \in Sent
           /\ \A place \in Places, id \in Ids :
                 store[place][id] # Nothing /\ store[place][id].artifact # 0
                    => store[place][id].artifact \in Sent
<1>1. PICK owner \in [Ids -> Clients \cup {Nothing}] : Owned(owner)
  BY DEF Ownership
<1>2. \A k \in Requests : runtime[k].artifact # 0 => runtime[k].artifact \in Sent
  BY <1>1 DEF Owned, RuntimesOwned, RuntimeOwned, Of, NewSession
<1>3. \A r \in Sent : request[r].copy.artifact # 0 => request[r].copy.artifact \in Sent
  BY <1>1 DEF Owned, HandlerOwned, Of
<1>4. \A place \in Places, id \in Ids :
                 store[place][id] # Nothing /\ store[place][id].artifact # 0
                    => store[place][id].artifact \in Sent
  BY <1>1 DEF Owned, StoreOwned, StoredAt, Of
<1>. QED BY <1>2, <1>3, <1>4

(* Before its record a turn has not been answered.                         *)
LEMMA NotKept ==
    ASSUME Basic, NEW r \in Sent, request[r].phase \in BeforeRecord
    PROVE  ~Kept(r)
BY DEF Basic, HandlerOK, Noted, Kept, Answered, BeforeRecord

(* What a loaded runtime starts from.                                      *)
LEMMA LoadRuntime ==
    ASSUME TypeOK, NEW r \in Requests, Load(r)
    PROVE  \/ runtime' = [runtime EXCEPT ![r] = NewSession]
           \/ /\ request[r].asked # 0
              /\ store[Place(request[r].at)][request[r].asked] # Nothing
              /\ runtime' = [runtime EXCEPT ![r] =
                                store[Place(request[r].at)][request[r].asked]]
BY LoadEffect, Zenon

(* Where the artifact of a session comes from.                             *)
LEMMA RuntimeArtifact ==
    ASSUME Basic, Ownership, [Next]_vars, NEW k \in Requests
    PROVE  \/ runtime'[k].artifact = 0
           \/ runtime'[k].artifact = runtime[k].artifact
           \/ \E place \in Places, id \in Ids :
                 store[place][id] # Nothing /\ runtime'[k].artifact = store[place][id].artifact
           \/ \E r \in Sent : /\ RecordTotal(r) /\ runtime'[k].artifact = r
                              /\ request'[r].phase = "numbering"
<1>0. TypeOK /\ Sent \subseteq Requests /\ NewSession.artifact = 0
  BY BasicFacts DEF Basic, NewSession
<1>1. ASSUME NEW r \in Requests, Load(r), runtime'[k].artifact # 0,
             runtime'[k].artifact # runtime[k].artifact
      PROVE  \E place \in Places, id \in Ids :
                 store[place][id] # Nothing /\ runtime'[k].artifact = store[place][id].artifact
  <2> DEFINE place == Place(request[r].at)
             id == request[r].asked
  <2>2. \/ runtime' = [runtime EXCEPT ![r] = NewSession]
        \/ /\ id # 0 /\ store[place][id] # Nothing
           /\ runtime' = [runtime EXCEPT ![r] = store[place][id]]
    BY <1>0, <1>1, LoadRuntime
  <2>3. id # 0 /\ store[place][id] # Nothing /\ runtime' = [runtime EXCEPT ![r] = store[place][id]]
    BY <1>0, <1>1, <2>2 DEF TypeOK
  <2>4. runtime'[k].artifact = store[place][id].artifact
    BY <1>0, <1>1, <2>3 DEF TypeOK
  <2>5. r \in Sent
    BY <1>0, <1>1, SentHandled DEF Load
  <2>6. place \in Places /\ id \in Ids
    BY <1>0, <2>3, <2>5, BasicFacts DEF Place, Places, Ids
  <2>. QED BY <2>3, <2>4, <2>6
<1>2. ASSUME NEW r \in Requests, RecordTotal(r), runtime'[k].artifact # runtime[k].artifact
      PROVE  \E x \in Sent : /\ RecordTotal(x) /\ runtime'[k].artifact = x
                             /\ request'[x].phase = "numbering"
  <2>1. r \in Sent
    BY <1>0, <1>2, SentHandled, RecordTotalEffect
  <2>2. request'[r].phase = "numbering" /\ runtime'[k].artifact = r
    BY <1>0, <1>2, RecordTotalEffect
  <2>. QED BY <1>2, <2>1, <2>2
<1>3. ASSUME NEW r \in Requests, AppendTurn(r) PROVE runtime'[k].artifact = runtime[k].artifact
  BY <1>0, <1>3, AppendTurnEffect
<1>4. ASSUME NEW r \in Requests, Handling(r), ~(Load(r) \/ RecordTotal(r) \/ AppendTurn(r))
      PROVE  runtime' = runtime
  BY <1>4 DEF Handling, Find, Register, Pack, PackFails, KeepNothing, Number, Answer, Dump,
              Save, Respond
<1>5. ASSUME NEW rep \in Replicas, Crash(rep) PROVE runtime'[k] \in {NewSession, runtime[k]}
  BY Zenon, <1>5 DEF Crash
<1>6. ASSUME NEW c \in Clients, NEW rep \in Replicas, Send(c, rep) PROVE runtime' = runtime
  BY <1>6 DEF Send
<1>7. ASSUME NEW c \in Clients, TimeOut(c) PROVE runtime' = runtime
  BY <1>7 DEF TimeOut
<1>8. ASSUME NEW id \in Ids, Expire(id) PROVE runtime' = runtime
  BY <1>8 DEF Expire
<1>9. CASE UNCHANGED vars
  BY <1>9 DEF vars
<1>10. CASE \E r \in Requests : Handling(r)
  BY <1>1, <1>2, <1>3, <1>4, <1>10
<1>. QED BY <1>0, <1>5, <1>6, <1>7, <1>8, <1>9, <1>10 DEF Next, Handling, Finished

(* Where the artifact of a copy comes from.                                *)
LEMMA CopySteps ==
    ASSUME Basic, NEW r \in Requests, Handling(r)
    PROVE  \/ request'[r].copy = request[r].copy \/ request'[r].copy = NewSession
           \/ /\ request'[r].copy.artifact = request[r].copy.artifact
              /\ request[r].phase \in {"dumping", "copying"}
           \/ /\ request'[r].copy.artifact = SessionOf(r).artifact
              /\ request[r].runtime \in Requests
<1>0. /\ TypeOK /\ r \in Sent /\ request[r].copy \in Session
      /\ request[r].phase \notin Early \cup {"over"} => request[r].runtime \in Requests
  BY HandlingOne, BasicFacts DEF Basic, TypeOK, Handler, HandlerOK, Noted
<1>1. CASE Dump(r)
  BY <1>0, <1>1, DumpEffect DEF Session, Early
<1>2. CASE Save(r)
  BY <1>0, <1>2, SaveEffect
<1>3. CASE ~(Dump(r) \/ Save(r))
  <2>1. CASE Find(r)
    BY <1>0, <2>1, FindEffect DEF Keeps, Fields
  <2>2. CASE Load(r)
    <3>1. Keeps(r, {"phase", "id", "runtime"})
      BY <1>0, <2>2, LoadEffect
    <3>. QED BY <3>1 DEF Keeps, Fields
  <2>3. CASE Pack(r) \/ PackFails(r) \/ Number(r) \/ Answer(r) \/ Respond(r)
    BY <1>0, <2>3, PackEffect, PackFailsEffect, NumberEffect, AnswerEffect, RespondEffect
       DEF Keeps, Fields
  <2>4. CASE Register(r) \/ RecordTotal(r) \/ AppendTurn(r)
    <3>1. Keeps(r, {"phase"})
      BY <1>0, <2>4, RegisterEffect, RecordTotalEffect, AppendTurnEffect
    <3>. QED BY <3>1 DEF Keeps, Fields
  <2>. QED BY <1>3, <2>1, <2>2, <2>3, <2>4 DEF Handling
<1>. QED BY <1>1, <1>2, <1>3

(* What is in the store was there, or was saved by a handler.              *)
LEMMA StoreSteps ==
    ASSUME Basic, [Next]_vars, NEW place \in Places, NEW id \in Ids,
           store'[place][id] # store[place][id], store'[place][id] # Nothing
    PROVE  \E r \in Sent : /\ Save(r) /\ request[r].phase = "saving"
                           /\ request[r].id = id /\ request[r].id # 0
                           /\ store'[place][id] = request[r].copy
                           /\ place = Place(request[r].at)
<1>0. TypeOK /\ HandlerOK /\ Sent \subseteq Requests
  BY BasicFacts DEF Basic
<1>1. PICK r \in Requests : Save(r)
  <2>1. ASSUME NEW r \in Requests, Handling(r), ~Save(r) PROVE store' = store
    BY Zenon, <2>1 DEF Handling, Find, Load, Register, Pack, PackFails, RecordTotal, Number,
                AppendTurn, Answer, Dump, Respond
  <2>2. ASSUME NEW rep \in Replicas, Crash(rep)
        PROVE  store'[place][id] \in {Nothing, store[place][id]}
    BY Zenon, <1>0, <2>2 DEF Crash, TypeOK
  <2>3. ASSUME NEW lost \in Ids, Expire(lost)
        PROVE  store'[place][id] \in {Nothing, store[place][id]}
    BY <1>0, <2>3 DEF Expire, TypeOK
  <2>4. ASSUME NEW c \in Clients, NEW rep \in Replicas, Send(c, rep) PROVE store' = store
    BY <2>4 DEF Send
  <2>5. ASSUME NEW c \in Clients, TimeOut(c) PROVE store' = store
    BY <2>5 DEF TimeOut
  <2>6. CASE UNCHANGED vars
    BY <2>6 DEF vars
  <2>. QED BY SMTT(30), <2>1, <2>2, <2>3, <2>4, <2>5, <2>6 DEF Next, Handling, Finished
<1>2. r \in Sent /\ request[r].phase = "saving" /\ request[r].id # 0
  <2>1. request[r].phase = "saving"
    BY <1>0, <1>1, SaveEffect
  <2>2. r \in Sent
    BY <1>0, <2>1, SentHandled
  <2>. QED BY <1>0, <2>1, <2>2 DEF HandlerOK, Noted, Early
<1>3. store' = [store EXCEPT ![Place(request[r].at)][request[r].id] = request[r].copy]
  BY <1>0, <1>1, SaveEffect
<1>4. PICK p, i : p = Place(request[r].at) /\ i = request[r].id
  OBVIOUS
<1>5. place = p /\ id = i /\ store'[place][id] = request[r].copy
  BY <1>0, <1>3, <1>4 DEF TypeOK
<1>. QED BY <1>1, <1>2, <1>4, <1>5

(* Every step keeps the artifacts that deltas are made against recorded.   *)
LEMMA NextBasesRecorded ==
    ASSUME Basic, Ownership, OneAtATime, BasesRecorded, [Next]_vars
    PROVE  BasesRecorded'
<1> SUFFICES ASSUME Undisturbed
             PROVE  /\ \A r \in Requests : Recorded(runtime[r])'
                    /\ \A r \in Requests : r \in Sent' =>
                          Recorded(request[r].copy)' /\ BaseReceived(r)'
                    /\ \A place \in Places, id \in Ids :
                          store'[place][id] # Nothing => Recorded(store[place][id])'
  BY StepStable, SentNext DEF Basic, Stable, BasesRecorded, Undisturbed, Recorded, BaseReceived
<1> DEFINE Old(a) == a = 0 \/ KeptNext(a)
<1>0. /\ TypeOK /\ HandlerOK /\ Sent \subseteq Requests /\ "timeouts" \notin env
      /\ \A a \in Sent : Kept(a) => KeptNext(a)
      /\ Stable /\ NewSession.artifact = 0
  BY BasicFacts, KeptStable, StepStable DEF Basic, Undisturbed, NewSession
<1>1. /\ \A r \in Requests : Recorded(runtime[r])
      /\ \A r \in Sent : Recorded(request[r].copy) /\ BaseReceived(r)
      /\ \A place \in Places, id \in Ids :
            store[place][id] # Nothing => Recorded(store[place][id])
  BY DEF BasesRecorded
<1>2. /\ \A r \in Requests : Old(runtime[r].artifact)
      /\ \A r \in Sent : Old(request[r].copy.artifact)
      /\ \A place \in Places, id \in Ids :
            store[place][id] # Nothing => Old(store[place][id].artifact)
  BY <1>0, <1>1, ArtifactSent DEF Recorded
<1>3. ASSUME NEW k \in Requests PROVE Old(runtime'[k].artifact)
  BY <1>0, <1>2, RuntimeArtifact DEF KeptNext, BeforeRecord
<1>4. ASSUME NEW r \in Requests, r \in Sent' PROVE Old(request'[r].copy.artifact)
  <2>1. CASE r \in Sent /\ Handling(r)
    BY <1>0, <1>2, <2>1, CopySteps DEF SessionOf
  <2>2. CASE r \notin Sent /\ Began(r)
    BY <1>0, <2>2 DEF Began
  <2>3. CASE r \in Sent /\ request'[r] = request[r]
    BY <1>2, <2>3
  <2>4. ~Ended(r)
    BY DEF Ended, Undisturbed
  <2>. QED BY <1>4, <2>1, <2>2, <2>3, <2>4, RequestSteps
<1>5. ASSUME NEW place \in Places, NEW id \in Ids, store'[place][id] # Nothing
      PROVE  Old(store'[place][id].artifact)
  <2>1. CASE store'[place][id] = store[place][id]
    BY <1>2, <1>5, <2>1
  <2>2. CASE store'[place][id] # store[place][id]
    BY <1>2, <1>5, <2>2, StoreSteps
  <2>. QED BY <2>1, <2>2
<1>6. ASSUME NEW r \in Requests, r \in Sent', request'[r].base # 0
      PROVE  request'[request'[r].base].status = 200
  <2>1. CASE r \in Sent /\ request'[r].base = request[r].base
    <3>1. PICK b : b = request[r].base
      OBVIOUS
    <3>2. Answered(b)
      BY <1>1, <1>6, <2>1, <3>1 DEF BaseReceived
    <3>3. b \in Sent
      <4>1. b \in Requests
        BY <1>0, <1>6, <2>1, <3>1 DEF TypeOK, Handler, Requests
      <4>. QED BY <1>0, <3>2, <4>1 DEF TypeOK, Unsent, Answered, Sent, Requests
    <3>. QED BY <2>1, <3>1, <3>2, <3>3, OverFixed DEF Answered
  <2>2. CASE r \in Sent /\ Pack(r)
    <3>1. /\ request[r].phase = "found" /\ InFlight(r)
          /\ request'[r].base = SessionOf(r).artifact
      BY <1>0, <2>2, PackEffect DEF InFlight
    <3>2. PICK owner \in [Ids -> Clients \cup {Nothing}] : Owned(owner)
      BY DEF Ownership
    <3>3. /\ request[r].runtime \in Sent
          /\ request[request[r].runtime].by = request[r].by
      BY <1>0, <2>2, <3>1, <3>2, BasicFacts DEF Owned, HandlerOwned, HandlerOK, Noted, Early
    <3>4. PICK b : b = SessionOf(r).artifact
      OBVIOUS
    <3>5. Kept(b) /\ b \in Sent /\ request[b].by = request[r].by
      BY <1>0, <1>1, <1>6, <3>1, <3>2, <3>3, <3>4
         DEF Recorded, SessionOf, Owned, RuntimesOwned, RuntimeOwned, Of
    <3>6. b # r
      BY <2>2, <3>1, <3>5, NotKept DEF BeforeRecord
    <3>7. ~InFlight(b)
      BY <1>0, <2>2, <3>1, <3>5, <3>6, OnlyOne
    <3>8. Answered(b)
      BY <3>5, <3>7 DEF Kept, InFlight
    <3>. QED BY <3>1, <3>4, <3>5, <3>8, OverFixed DEF Answered
  <2>3. CASE r \in Sent /\ Handling(r) /\ ~Pack(r)
    <3>1. CASE Find(r)
      BY <1>0, <2>1, <2>3, <3>1, FindEffect DEF Keeps, Fields
    <3>2. CASE Load(r)
      <4>1. Keeps(r, {"phase", "id", "runtime"})
        BY <1>0, <3>2, LoadEffect
      <4>. QED BY <2>1, <2>3, <4>1 DEF Keeps, Fields
    <3>3. CASE PackFails(r) \/ Number(r) \/ Answer(r) \/ Respond(r)
      BY <1>0, <2>1, <2>3, <3>3, PackFailsEffect, NumberEffect, AnswerEffect, RespondEffect
         DEF Keeps, Fields
    <3>4. CASE Register(r) \/ RecordTotal(r) \/ AppendTurn(r)
      <4>1. Keeps(r, {"phase"})
        BY <1>0, <3>4, RegisterEffect, RecordTotalEffect, AppendTurnEffect
      <4>. QED BY <2>1, <2>3, <4>1 DEF Keeps, Fields
    <3>5. CASE Dump(r) \/ Save(r)
      <4>1. Keeps(r, {"phase", "copy"})
        BY <1>0, <3>5, DumpEffect, SaveEffect
      <4>. QED BY <2>1, <2>3, <4>1 DEF Keeps, Fields
    <3>. QED BY <2>3, <3>1, <3>2, <3>3, <3>4, <3>5 DEF Handling
  <2>4. CASE r \notin Sent /\ Began(r)
    BY <1>6, <2>4 DEF Began
  <2>5. ~Ended(r)
    BY DEF Ended, Undisturbed
  <2>. QED BY <1>6, <2>1, <2>2, <2>3, <2>4, <2>5, RequestSteps
<1>. QED BY <1>3, <1>4, <1>5, <1>6 DEF Recorded, Kept, KeptNext, BaseReceived, Answered

(* Undisturbed, only recorded turns are compared with.                     *)
LEMMA AlwaysBasesRecorded == Spec => []BasesRecorded
<1>1. Init => BasesRecorded
  BY DEF Init, BasesRecorded, Sent, Recorded, NewSession
<1>. QED BY <1>1, NextBasesRecorded, AlwaysBasic, AlwaysOwnership, AlwaysOneAtATime, PTL
         DEF Spec

(* While nothing cuts a request off, the delta of a turn is against a      *)
(* context the client has received, although the artifact of a turn is in  *)
(* the session before the turn is answered: one client has one handler at  *)
(* work, and the handler of its turn before was answered or recorded       *)
(* nothing.                                                                *)
THEOREM DeltasAgainstReceived == Spec => []DeltaBaseReceived
<1>1. Basic /\ BasesRecorded => DeltaBaseReceived
  BY DEF BasesRecorded, DeltaBaseReceived, BaseReceived, Undisturbed, Basic, TypeOK, Sent,
         Requests, Unsent
<1>. QED BY <1>1, AlwaysBasic, AlwaysBasesRecorded, PTL

============================================================================
