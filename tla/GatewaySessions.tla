-------------------------- MODULE GatewaySessions --------------------------
(***************************************************************************)
(* Agent sessions behind the gateway: POST /run-agent-step                 *)
(* (redcon/gateway/handlers.py, session_store.py, server.py and            *)
(* redcon/runtime/).                                                       *)
(*                                                                         *)
(* A replica keeps a live AgentRuntime for every session it has served and *)
(* saves the session to a store after each turn: in Redis, shared by the   *)
(* replicas, or in a dict of its own.  A request that names a session is   *)
(* served from the live runtime, else from the store, else in a new        *)
(* session.  An answer carries the pack of its turn in full; the files it  *)
(* says it includes, its tokens and what the policy is checked on are      *)
(* those of the delta against the artifact of the turn before it.          *)
(*                                                                         *)
(* Handlers run in threads; the steps of a handler are the points between  *)
(* which another thread can run.  A client waits for its answer, for the   *)
(* 504 of a timeout (the thread goes on), or for the loss of its           *)
(* connection when the replica dies.                                       *)
(*                                                                         *)
(* A request stands for the turn it records and for its run artifact, the  *)
(* pack of Context[r].                                                     *)
(***************************************************************************)
EXTENDS Naturals, Sequences, FiniteSets, SequencesExt, DeltaReport

CONSTANTS
    Replicas,       \* gateway processes
    Clients,        \* agents, each holding one conversation
    MaxRequests,    \* bound on the requests sent
    Deployments,    \* subsets of Conditions that are considered
    Context,        \* Context[r]: what the pack of request r selects
    Nothing         \* no stored session

(* What a deployment has or has to endure: a shared store, a balancer that *)
(* keeps a client on its replica, requests that time out, replicas that    *)
(* die, stored sessions that expire or are not saved.                      *)
Conditions == {"redis", "sticky", "timeouts", "crashes", "lossy"}

ASSUME SessionConstants ==
    /\ MaxRequests \in Nat
    /\ Deployments \subseteq SUBSET Conditions
    /\ \A r \in 1..MaxRequests : IsContext(Context[r])
    /\ Nothing \notin Replicas \cup Clients
    /\ "redis" \notin Replicas

VARIABLES
    env,        \* the deployment, constant
    store,      \* store[place][id]: the saved session, or Nothing
    live,       \* live[rep][id]: the runtime in _sessions, 0 when absent
    runtime,    \* runtime[r]: session of the runtime that request r created
    request,    \* request[r]: a request and the state of its handler
    sent,       \* requests sent so far
    ids,        \* session ids drawn so far
    sid,        \* sid[c]: the session id client c holds, 0 for none
    home,       \* home[c]: the replica that serves client c, or Nothing
    waiting     \* waiting[c]: the request client c waits for, 0 for none

clients == <<sent, sid, home, waiting>>
vars == <<env, store, live, runtime, request, ids, clients>>

Requests == 1..MaxRequests
Ids == 1..MaxRequests
Places == Replicas \cup {"redis"}

Turn == [req : Requests, num : Nat, tokens : Nat]
Session == [turns : Seq(Turn), artifact : 0..MaxRequests, total : Nat]
NewSession == [turns |-> <<>>, artifact |-> 0, total |-> 0]

ASSUME NothingIsNoSession == Nothing \notin Session

Unsent ==
    [phase |-> "unsent", by |-> Nothing, at |-> Nothing, asked |-> 0, id |-> 0,
     runtime |-> 0, base |-> 0, num |-> 0, turn |-> 0, copy |-> NewSession,
     status |-> 0]

(* The store a replica uses.                                               *)
Place(rep) == IF "redis" \in env THEN "redis" ELSE rep

SessionOf(r) == runtime[request[r].runtime]
Turns(session) == {session.turns[k].req : k \in DOMAIN session.turns}

InHandler(r) == request[r].phase \notin {"unsent", "arrived", "over"}

----------------------------------------------------------------------------
Init ==
    /\ env \in Deployments
    /\ store = [place \in Places |-> [id \in Ids |-> Nothing]]
    /\ live = [rep \in Replicas |-> [id \in Ids |-> 0]]
    /\ runtime = [r \in Requests |-> NewSession]
    /\ request = [r \in Requests |-> Unsent]
    /\ sent = 0
    /\ ids = 0
    /\ sid = [c \in Clients |-> 0]
    /\ home = [c \in Clients |-> Nothing]
    /\ waiting = [c \in Clients |-> 0]

(* Handler r passes from one phase to the next, with what it notes.        *)
Pass(r, from, to) ==
    /\ request[r].phase = from
    /\ request' = [request EXCEPT ![r].phase = to]

PassNoting(r, from, to, field, value) ==
    /\ request[r].phase = from
    /\ request' = [request EXCEPT ![r].phase = to, ![r][field] = value]

(* A client sends the next request of its conversation.                    *)
Send(c, rep) ==
    /\ sent < MaxRequests
    /\ waiting[c] = 0
    /\ "sticky" \in env => home[c] \in {Nothing, rep}
    /\ sent' = sent + 1
    /\ request' = [request EXCEPT ![sent'] =
           [Unsent EXCEPT !.phase = "arrived", !.by = c, !.at = rep,
                          !.asked = sid[c]]]
    /\ waiting' = [waiting EXCEPT ![c] = sent']
    /\ home' = [home EXCEPT ![c] = rep]
    /\ UNCHANGED <<env, store, live, runtime, ids, sid>>

(* handle_run_agent_step: the live runtime of the session is used as it is.*)
Find(r) ==
    LET q == request[r]
        known == q.asked # 0 /\ live[q.at][q.asked] # 0
    IN  /\ q.phase = "arrived"
        /\ request' = [request EXCEPT ![r] =
              IF known THEN [q EXCEPT !.phase = "found", !.id = q.asked,
                                      !.runtime = live[q.at][q.asked]]
                       ELSE [q EXCEPT !.phase = "loading"]]
        /\ UNCHANGED <<env, store, live, runtime, ids, clients>>

(* Mutant of Restored: the turns are not restored.                         *)
RestoredWithoutTurns(stored) == [stored EXCEPT !.turns = <<>>]

(* Mutant of Restored: the count of tokens begins anew.                    *)
RestoredFromZero(stored) == [stored EXCEPT !.total = 0]

(* _restore_session                                                        *)
Restored(stored) == stored

(* Mutant of FreshId: the id drawn before is drawn again.                  *)
DrawnAgain == IF ids = 0 THEN 1 ELSE ids

(* uuid4                                                                   *)
FreshId == ids + 1

(* Mutant of Missing: the answer of the store is not tested.               *)
NeverMissing(stored) == FALSE
Missing(stored) == stored = Nothing

(* What the store answers: SessionStore.load takes a failure for "none".   *)
Lookup(rep, asked) ==
    IF asked = 0
      THEN {Nothing}
      ELSE {store[Place(rep)][asked]} \cup IF "lossy" \in env THEN {Nothing} ELSE {}

(* A runtime that is not live is created, and restored from the store if   *)
(* the session is there: under the id that was asked for, or under an id   *)
(* of its own.                                                             *)
Load(r) ==
    LET q == request[r]
    IN  /\ q.phase = "loading"
        /\ \E stored \in Lookup(q.at, q.asked) :
             LET id == IF Missing(stored) THEN FreshId ELSE q.asked
             IN  /\ runtime' = [runtime EXCEPT ![r] =
                       IF Missing(stored) THEN NewSession ELSE Restored(stored)]
                 /\ ids' = IF Missing(stored) THEN FreshId ELSE ids
                 /\ request' = [request EXCEPT ![r] =
                       [q EXCEPT !.phase = "loaded", !.id = id, !.runtime = r]]
        /\ UNCHANGED <<env, store, live, clients>>

(* Then it is registered, over whatever another handler has registered     *)
(* since under the same id.                                                *)
Register(r) ==
    /\ Pass(r, "loaded", "found")
    /\ live' = [live EXCEPT ![request[r].at][request[r].id] = r]
    /\ UNCHANGED <<env, store, runtime, ids, clients>>

(* prepare_context: the delta base is read, then the pipeline packs.       *)
Pack(r) ==
    /\ PassNoting(r, "found", "packed", "base", SessionOf(r).artifact)
    /\ UNCHANGED <<env, store, live, runtime, ids, clients>>

Note(r, field, value) ==
    runtime' = [runtime EXCEPT ![request[r].runtime][field] = value]

(* Mutant of KeepNothing: the artifact is kept before the turn is over.    *)
KeepArtifact(r) == Note(r, "artifact", r)
KeepNothing(r) == UNCHANGED runtime

(* The step raises: the client is told of an error, no turn is recorded.   *)
PackFails(r) ==
    /\ PassNoting(r, "packed", "over", "status", 500)
    /\ KeepNothing(r)
    /\ waiting' = [waiting EXCEPT ![request[r].by] = IF @ = r THEN 0 ELSE @]
    /\ UNCHANGED <<env, store, live, ids, sent, sid, home>>

(* The delta of which the turn reports the tokens: against the base, if    *)
(* there is one.                                                           *)
Reported(r) ==
    IF request[r].base = 0
      THEN Whole(Context[r])
      ELSE Package(Context[request[r].base], Context[r])

TurnTokens(r) == PackageTokens(Reported(r))

(* Mutant of RecordTotal: the artifact of the first turn is never replaced.*)
RecordFirst(r) ==
    /\ Pass(r, "packed", "numbering")
    /\ runtime' = [runtime EXCEPT
           ![request[r].runtime].total = @ + TurnTokens(r),
           ![request[r].runtime].artifact = IF @ = 0 THEN r ELSE @]
    /\ UNCHANGED <<env, store, live, ids, clients>>

(* record_turn: the total and the artifact; the number of the turn; the    *)
(* turn itself.                                                            *)
RecordTotal(r) ==
    /\ Pass(r, "packed", "numbering")
    /\ runtime' = [runtime EXCEPT
           ![request[r].runtime].total = @ + TurnTokens(r),
           ![request[r].runtime].artifact = r]
    /\ UNCHANGED <<env, store, live, ids, clients>>

Number(r) ==
    /\ PassNoting(r, "numbering", "appending", "num", Len(SessionOf(r).turns) + 1)
    /\ UNCHANGED <<env, store, live, runtime, ids, clients>>

AppendTurn(r) ==
    /\ Pass(r, "appending", "answering")
    /\ Note(r, "turns",
            Append(SessionOf(r).turns,
                   [req |-> r, num |-> request[r].num, tokens |-> TurnTokens(r)]))
    /\ UNCHANGED <<env, store, live, ids, clients>>

(* Mutant of LastTurn: the number of the turn to come.                     *)
NextTurn(session) == Len(session.turns) + 1
LastTurn(session) == Len(session.turns)

(* run: the turn number of the result is read from the session.            *)
Answer(r) ==
    /\ PassNoting(r, "answering", "dumping", "turn", LastTurn(SessionOf(r)))
    /\ UNCHANGED <<env, store, live, runtime, ids, clients>>

(* as_dict: the total, then the turns, then the artifact.                  *)
Dump(r) ==
    LET s == SessionOf(r)
        copy == request[r].copy
    IN  /\ \/ PassNoting(r, "dumping", "copying", "copy",
                         [copy EXCEPT !.total = s.total])
           \/ PassNoting(r, "copying", "closing", "copy",
                         [copy EXCEPT !.turns = s.turns])
           \/ PassNoting(r, "closing", "saving", "copy",
                         [copy EXCEPT !.artifact = s.artifact])
        /\ UNCHANGED <<env, store, live, runtime, ids, clients>>

(* Mutant of Persist: a session that is stored already is left alone.      *)
PersistOnce(rep, id, session) ==
    store' = [store EXCEPT ![Place(rep)][id] =
                  IF @ = Nothing THEN session ELSE @]
Persist(rep, id, session) == store' = [store EXCEPT ![Place(rep)][id] = session]

(* SessionStore.save swallows its failures.                                *)
Save(r) ==
    /\ PassNoting(r, "saving", "saved", "copy", NewSession)
    /\ \/ Persist(request[r].at, request[r].id, request[r].copy)
       \/ "lossy" \in env /\ UNCHANGED store
    /\ UNCHANGED <<env, live, runtime, ids, clients>>

(* The answer reaches the client that still waits for it.                  *)
Respond(r) ==
    LET c == request[r].by
        heard == waiting[c] = r
    IN  /\ PassNoting(r, "saved", "over", "status", IF heard THEN 200 ELSE 504)
        /\ sid' = [sid EXCEPT ![c] = IF heard THEN request[r].id ELSE @]
        /\ waiting' = [waiting EXCEPT ![c] = IF heard THEN 0 ELSE @]
        /\ UNCHANGED <<env, store, live, runtime, ids, sent, home>>

(* _run_with_timeout: the client gets its 504; a handler that has begun    *)
(* goes on, one that waits for a thread is cancelled.                      *)
TimeOut(c) ==
    /\ "timeouts" \in env
    /\ waiting[c] # 0
    /\ waiting' = [waiting EXCEPT ![c] = 0]
    /\ request' = [request EXCEPT ![waiting[c]].phase =
                       IF @ = "arrived" THEN "over" ELSE @]
    /\ UNCHANGED <<env, store, live, runtime, ids, sent, sid, home>>

(* A replica dies and is replaced; its memory and its requests are lost.   *)
Crash(rep) ==
    /\ "crashes" \in env
    /\ \E id \in Ids : live[rep][id] # 0
    /\ live' = [live EXCEPT ![rep] = [id \in Ids |-> 0]]
    /\ store' = [store EXCEPT ![rep] = [id \in Ids |-> Nothing]]
    /\ runtime' = [r \in Requests |->
           IF request[r].at = rep THEN NewSession ELSE runtime[r]]
    /\ request' = [r \in Requests |->
           IF request[r].at = rep /\ request[r].phase # "over"
             THEN [Unsent EXCEPT !.phase = "over", !.by = request[r].by, !.at = rep]
             ELSE request[r]]
    /\ waiting' = [c \in Clients |->
           IF waiting[c] # 0 /\ request[waiting[c]].at = rep THEN 0
                                                            ELSE waiting[c]]
    /\ home' = [c \in Clients |-> IF home[c] = rep THEN Nothing ELSE home[c]]
    /\ UNCHANGED <<env, ids, sent, sid>>

(* Redis drops a session when its TTL is over.                             *)
Expire(id) ==
    /\ {"lossy", "redis"} \subseteq env
    /\ store["redis"][id] # Nothing
    /\ store' = [store EXCEPT !["redis"][id] = Nothing]
    /\ UNCHANGED <<env, live, runtime, request, ids, clients>>

(* All requests have been sent and handled.                                *)
Finished ==
    /\ sent = MaxRequests
    /\ \A r \in Requests : request[r].phase = "over"
    /\ UNCHANGED vars

Next ==
    \/ \E c \in Clients, rep \in Replicas : Send(c, rep)
    \/ \E r \in Requests :
         \/ Find(r) \/ Load(r) \/ Register(r) \/ Pack(r) \/ PackFails(r)
         \/ RecordTotal(r) \/ Number(r) \/ AppendTurn(r) \/ Answer(r)
         \/ Dump(r) \/ Save(r) \/ Respond(r)
    \/ \E c \in Clients : TimeOut(c)
    \/ \E rep \in Replicas : Crash(rep)
    \/ \E id \in Ids : Expire(id)
    \/ Finished

Spec == Init /\ [][Next]_vars

----------------------------------------------------------------------------
HandlerPhases ==
    {"arrived", "loading", "loaded", "found", "packed", "numbering",
     "appending", "answering", "dumping", "copying", "closing", "saving", "saved", "over"}

Statuses == {0, 200, 500, 504}

Handler ==
    [phase : HandlerPhases \cup {"unsent"}, by : Clients \cup {Nothing},
     at : Replicas \cup {Nothing}, asked : 0..MaxRequests, id : 0..MaxRequests,
     runtime : 0..MaxRequests, base : 0..MaxRequests, num : Nat, turn : Nat,
     copy : Session, status : Statuses]

TypeOK ==
    /\ env \in Deployments
    /\ store \in [Places -> [Ids -> Session \cup {Nothing}]]
    /\ live \in [Replicas -> [Ids -> 0..MaxRequests]]
    /\ runtime \in [Requests -> Session]
    /\ request \in [Requests -> Handler]
    /\ sent \in 0..MaxRequests
    /\ ids \in 0..sent
    /\ sid \in [Clients -> 0..ids]
    /\ home \in [Clients -> Replicas \cup {Nothing}]
    /\ waiting \in [Clients -> 0..sent]
    /\ \A r \in Requests :
          IF r > sent
            THEN request[r] = Unsent
            ELSE /\ request[r].phase # "unsent"
                 /\ request[r].by \in Clients /\ request[r].at \in Replicas
                 /\ {request[r].asked, request[r].id} \subseteq 0..ids

Answered(r) == request[r].status = 200

(* A turn recorded in memory or in the store belongs to the client whose   *)
(* session it is: conversations never mix, whatever times out, dies,       *)
(* expires or races (_sessions, _restore_session, uuid4).                  *)
SessionsApart ==
    \A r \in Requests : InHandler(r) /\ request[r].runtime # 0 =>
        \A q \in Turns(SessionOf(r)) \cup ({SessionOf(r).artifact} \ {0}) :
            request[q].by = request[r].by

(* What the client has been answered survives: while saves work and        *)
(* clients stay on their replica, every answered turn is in the shared     *)
(* store, also when replicas die at any point (save before the response).  *)
AnsweredTurnsStored ==
    {"redis", "sticky"} \subseteq env /\ env \cap {"lossy", "timeouts"} = {} =>
        \A r \in Requests : Answered(r) =>
            LET saved == store["redis"][request[r].id]
            IN  saved # Nothing /\ r \in Turns(saved)

(* The delta of a turn is reported against a context its client has        *)
(* received.  While no request is cut off by a timeout or a crash this     *)
(* holds also for clients that roam between replicas, for steps that fail  *)
(* and for sessions that are lost (prepare_context, record_turn).          *)
BaseReceived(r) == request[r].base # 0 => Answered(request[r].base)

DeltaBaseReceived ==
    env \cap {"timeouts", "crashes"} = {} => \A r \in Requests : BaseReceived(r)

(* The turn number of an answer is that of the turn the request recorded   *)
(* (turn_number is read after the append).                                 *)
OwnTurnAnswered ==
    "timeouts" \notin env =>
        \A r \in Requests : Answered(r) => request[r].turn = request[r].num

(* Every turn that was answered in the session is in the history that the  *)
(* next turn of the session extends.                                       *)
Continues(r) ==
    InHandler(r) /\ request[r].runtime # 0 =>
        \A q \in Requests : Answered(q) /\ request[q].id = request[r].id =>
            q \in Turns(SessionOf(r))

(* A session continues from all its answered turns when clients stay on    *)
(* their replica, also over the death of replicas (_restore_session).      *)
TurnsContinue ==
    {"redis", "sticky"} \subseteq env /\ env \cap {"lossy", "timeouts"} = {} =>
        \A r \in Requests : Continues(r)

(* What the client of r had been answered last in the session of r.        *)
LastHeard(r) ==
    Max({0} \cup {q \in 1..(r - 1) : /\ Answered(q)
                                    /\ request[q].by = request[r].by
                                    /\ request[q].id = request[r].id})

(* The files and tokens a turn reports are counted against the very pack   *)
(* its client received last in the session, while the client stays on its  *)
(* replica and no request is cut off: whatever steps fail and whatever is  *)
(* lost in the store, no older turn and none that failed is the base       *)
(* (prepare_context, record_turn).                                         *)
DeltaBaseLatest ==
    "sticky" \in env /\ env \cap {"timeouts", "crashes"} = {} =>
        \A r \in Requests : Answered(r) => request[r].base = LastHeard(r)

(* The tokens a stored session says it has used are those of the turns it  *)
(* holds, whoever restored it, although as_dict reads the total before the *)
(* turns (record_turn, as_dict, _restore_session).                         *)
SumOfTurns(session) ==
    SumFunction([k \in DOMAIN session.turns |-> session.turns[k].tokens])

StoredTotals ==
    "timeouts" \notin env =>
        \A place \in Places, id \in Ids :
            store[place][id] # Nothing =>
                store[place][id].total = SumOfTurns(store[place][id])

----------------------------------------------------------------------------
(* "multiple gateway replicas can serve the same multi-turn agent session  *)
(* without sticky routing" (session_store.py).  A replica that has served  *)
(* the session before uses its live runtime and misses the turns another   *)
(* replica has answered since.                                             *)
ContinuesAnywhere == \A r \in Requests : Continues(r)

(* "the runtime automatically uses the previous run artifact as delta      *)
(* context so only changed files are re-sent" (handle_run_agent_step): the *)
(* client has received what the delta is counted against.  A handler that  *)
(* outlives its 504 records a turn the client never received.              *)
BaseAlwaysReceived == \A r \in Requests : BaseReceived(r)

============================================================================
