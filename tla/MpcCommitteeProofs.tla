------------------------- MODULE MpcCommitteeProofs -------------------------
(***************************************************************************)
(* Proofs, for any intents, nodes, submissions, crashes and outages, that  *)
(* a batch in the database has a quorum behind it and a match one job,     *)
(* that the round of a session leaves nobody behind, and, when intents are *)
(* submitted once, that nobody is matched twice.                           *)
(***************************************************************************)
EXTENDS MpcCommittee, TLAPS

Quorum(R) == 3 * Cardinality(R) >= 2 * Cardinality(Nodes)

\* The session a request was accepted into is there.
CallInv ==
    \A i \in Intents : handler[i].pc \in {"waiting", "accepted"} =>
        handler[i].session \in DOMAIN sessions

\* What holds of a round: its session takes no more intents, its matches are
\* what the session's intents gave, and a quorum signed what is to be persisted.
RoundOK(x) ==
    /\ x.session \in DOMAIN sessions
    /\ sessions[x.session].status # "open"
    /\ x.pc \in {"sign", "persist", "rows", "done"} =>
           x.matches \in matchIntents[sessions[x.session].intents]
    /\ x.pc = "persist" => Quorum(x.signers)

RoundInv ==
    /\ \A r \in DOMAIN rounds : RoundOK(rounds[r])
    /\ \A q, r \in DOMAIN rounds : rounds[q].session = rounds[r].session => q = r

\* A batch is the signed decision of the one round of its session.
BatchOK(x) ==
    /\ sessions[x.session].status # "open"
    /\ x.matches \in matchIntents[sessions[x.session].intents]
    /\ Quorum(x.signers)

BatchInv ==
    /\ \A b \in DOMAIN batchRow : BatchOK(batchRow[b])
    /\ \A b, c \in DOMAIN batchRow : batchRow[b].session = batchRow[c].session => b = c
    /\ \A b \in DOMAIN batchRow, r \in DOMAIN rounds :
          rounds[r].pc \in {"decrypt", "sign", "persist"} =>
              batchRow[b].session # rounds[r].session

\* An intent that is submitted once enters one session.
OnceInv ==
    /\ \A i \in Intents : handler[i].submits = 0 => handler[i].pc = "new"
    /\ \A i \in Intents : handler[i].pc \in {"new", "row"} =>
          \A s \in DOMAIN sessions : i \notin sessions[s].intents
    /\ \A s, t \in DOMAIN sessions :
          s # t => sessions[s].intents \intersect sessions[t].intents = {}

\* The settler has matches to queue only while it has a batch.
SettlerInv == settler.batch = None => settler.todo = {}

MInv ==
    /\ TypeOK /\ CallInv /\ RoundInv /\ BatchInv /\ OneJobPerMatch
    /\ MaxSubmits = 1 => OnceInv

-----------------------------------------------------------------------------
(* Requests *)

CallState == [pc : {"new", "row", "waiting", "accepted", "session", "done", "failed"},
              session : Nat, submits : 0..MaxSubmits]

BatchState(ss) == [session : ss, matches : SUBSET Pairs, signers : SUBSET Nodes,
                   status : {"pending", "queued", "rfq_routed"}]

JobState(bs) == [batch : bs, match : Pairs, notes : BOOLEAN,
                 status : {"queued", "no_notes", "no_proof"}]

\* Writing and adding one element of a sequence.
LEMMA SeqWrite ==
    ASSUME NEW S, NEW f \in Seq(S), NEW i \in DOMAIN f, NEW x \in S
    PROVE  /\ [f EXCEPT ![i] = x] \in Seq(S)
           /\ Len([f EXCEPT ![i] = x]) = Len(f)
           /\ DOMAIN [f EXCEPT ![i] = x] = DOMAIN f
           /\ [f EXCEPT ![i] = x][i] = x
           /\ \A j \in DOMAIN f : j # i => [f EXCEPT ![i] = x][j] = f[j]
OBVIOUS

LEMMA SeqAdd ==
    ASSUME NEW S, NEW f \in Seq(S), NEW x \in S
    PROVE  /\ Append(f, x) \in Seq(S)
           /\ Len(Append(f, x)) = Len(f) + 1
           /\ DOMAIN Append(f, x) = DOMAIN f \union {Len(f) + 1}
           /\ Len(f) + 1 \notin DOMAIN f
           /\ Append(f, x)[Len(f) + 1] = x
           /\ \A j \in DOMAIN f : Append(f, x)[j] = f[j]
OBVIOUS

LEMMA SeqDef ==
    ASSUME NEW S, NEW n \in Nat, NEW f \in [1..n -> S]
    PROVE  f \in Seq(S)
OBVIOUS

\* Neither sessions nor anything made of them changes.
LEMMA RoundsFrame ==
    ASSUME RoundInv, BatchInv, OneJobPerMatch, UNCHANGED <<sessions, rounds, batchRow, jobs>>
    PROVE  RoundInv' /\ BatchInv' /\ OneJobPerMatch'
<1>1. \A x : RoundOK(x)' <=> RoundOK(x)  BY Zenon DEF RoundOK
<1>2. \A x : BatchOK(x)' <=> BatchOK(x)  BY Zenon DEF BatchOK
<1>3. RoundInv'  BY <1>1, Zenon DEF RoundInv
<1>4. BatchInv'  BY <1>2, Zenon DEF BatchInv
<1>5. OneJobPerMatch'  BY Zenon DEF OneJobPerMatch
<1> QED  BY <1>3, <1>4, <1>5

\* A request moves on to a place where it has been submitted.
LEMMA CallMoves ==
    ASSUME MInv, NEW i \in Intents,
           NEW pc \in {"waiting", "accepted", "session", "done", "failed"},
           handler[i].pc # "new",
           pc \in {"waiting", "accepted"} => handler[i].session \in DOMAIN sessions,
           handler' = [handler EXCEPT ![i].pc = pc], sessions' = sessions
    PROVE  /\ handler' \in [Intents -> CallState]
           /\ CallInv'
           /\ MaxSubmits = 1 => OnceInv'
<1>1. handler \in [Intents -> CallState]  BY DEF MInv, TypeOK, CallState
<1>2. handler' \in [Intents -> CallState]  BY <1>1 DEF CallState
<1>3. /\ handler'[i].pc = pc
      /\ \A j \in Intents : /\ handler'[j].session = handler[j].session
                            /\ handler'[j].submits = handler[j].submits
                            /\ j # i => handler'[j].pc = handler[j].pc
  BY <1>1 DEF CallState
<1>4. CallInv'  BY <1>3, Zenon DEF MInv, CallInv
<1>5. ASSUME MaxSubmits = 1
      PROVE  OnceInv'
  <2>1. OnceInv  BY <1>5, Zenon DEF MInv
  <2>2. \A j \in Intents : handler'[j].submits = 0 => handler'[j].pc = "new"
    BY <1>3, <2>1, Zenon DEF OnceInv
  <2>3. \A j \in Intents : handler'[j].pc \in {"new", "row"} => handler[j].pc \in {"new", "row"}
    BY <1>3
  <2> QED  BY <2>1, <2>2, <2>3, Zenon DEF OnceInv
<1> QED  BY <1>2, <1>4, <1>5, Zenon

LEMMA SubmitInv ==
    ASSUME MInv, NEW i \in Intents, submit(i)
    PROVE  MInv'
<1>1. handler \in [Intents -> CallState]  BY DEF MInv, TypeOK, CallState
<1>2. /\ handler[i].pc \in {"new", "done", "failed"} /\ handler[i].submits < MaxSubmits
      /\ handler' = [handler EXCEPT ![i].pc = "row", ![i].submits = @ + 1]
      /\ intentRow' = IF i \in Rfq THEN intentRow \union {i} ELSE intentRow
      /\ UNCHANGED <<sessionRow, mpcRow, batchRow, jobs, running, sessions, network, rounds,
                     settler, faults>>
  BY Zenon DEF submit
<1>3. handler' \in [Intents -> CallState]
  <2>1. handler[i] \in CallState /\ handler[i].submits + 1 \in 0..MaxSubmits
    BY <1>1, <1>2, MpcAssumption DEF CallState
  <2> QED  BY <1>1, <1>2, <2>1 DEF CallState
<1>4. /\ handler'[i].pc = "row" /\ handler'[i].submits = handler[i].submits + 1
      /\ \A j \in Intents : j # i => handler'[j] = handler[j]
  BY <1>1, <1>2 DEF CallState
<1>5. TypeOK'  BY <1>2, <1>3 DEF MInv, TypeOK, CallState, network
<1>6. CallInv'  BY <1>2, <1>4, Zenon DEF MInv, CallInv
<1>7. ASSUME MaxSubmits = 1
      PROVE  OnceInv'
  <2>1. OnceInv  BY <1>7, Zenon DEF MInv
  <2>2. handler[i].submits = 0 /\ handler'[i].submits # 0
    BY <1>1, <1>2, <1>4, <1>7 DEF CallState
  <2>3. handler[i].pc = "new"  BY <2>1, <2>2, Zenon DEF OnceInv
  <2>4. sessions' = sessions  BY <1>2
  <2>5. \A j \in Intents : handler'[j].submits = 0 => handler'[j].pc = "new"
    BY <1>4, <2>1, <2>2, Zenon DEF OnceInv
  <2>6. \A j \in Intents : handler'[j].pc \in {"new", "row"} => handler[j].pc \in {"new", "row"}
    BY <1>4, <2>3
  <2> QED  BY <2>1, <2>4, <2>5, <2>6, Zenon DEF OnceInv
<1>8. RoundInv' /\ BatchInv' /\ OneJobPerMatch'  BY <1>2, RoundsFrame, Zenon DEF MInv
<1> QED  BY <1>5, <1>6, <1>7, <1>8, Zenon DEF MInv

\* The other steps of a request, once it is accepted or given up.
LEMMA RequestInv ==
    ASSUME MInv, NEW i \in Intents,
           \/ committee_unreachable(i) \/ accepted(i) \/ insert_session(i)
           \/ insert_mpc_intent(i) \/ ApiCrash(i)
    PROVE  MInv'
<1>1. UNCHANGED <<intentRow, batchRow, jobs, running, sessions, flight, held, down, rounds, settler>>
  BY DEF committee_unreachable, accepted, insert_session, insert_mpc_intent, ApiCrash, network
<1>2. PICK pc \in {"waiting", "accepted", "session", "done", "failed"} :
          /\ handler' = [handler EXCEPT ![i].pc = pc]
          /\ handler[i].pc # "new"
          /\ pc \in {"waiting", "accepted"} => handler[i].session \in DOMAIN sessions
  BY DEF committee_unreachable, accepted, insert_session, insert_mpc_intent, ApiCrash, MInv, CallInv
<1>3. handler' \in [Intents -> CallState] /\ CallInv' /\ (MaxSubmits = 1 => OnceInv')
  BY <1>1, <1>2, CallMoves, Zenon
<1>4. sessionRow' \subseteq DOMAIN sessions
  BY DEF committee_unreachable, accepted, insert_session, insert_mpc_intent, ApiCrash, MInv,
         TypeOK, CallInv
<1>5. mpcRow' \in [Intents -> {"none", "pending", "matched"}]
  BY Zenon DEF committee_unreachable, accepted, insert_session, insert_mpc_intent, ApiCrash, MInv, TypeOK
<1>6. faults' \in 0..MaxFaults
  BY MpcAssumption
  DEF committee_unreachable, accepted, insert_session, insert_mpc_intent, ApiCrash, MInv, TypeOK
<1>7. TypeOK'
  BY <1>1, <1>3, <1>4, <1>5, <1>6, Zenon DEF MInv, TypeOK, CallState
<1>8. RoundInv' /\ BatchInv' /\ OneJobPerMatch'  BY <1>1, RoundsFrame, Zenon DEF MInv
<1> QED  BY <1>3, <1>7, <1>8, Zenon DEF MInv

\* Requests, sessions and what is made of them stay as they are.
LEMMA Frame ==
    ASSUME MInv, UNCHANGED <<handler, sessions, rounds, batchRow, jobs>>
    PROVE  /\ CallInv' /\ RoundInv' /\ BatchInv' /\ OneJobPerMatch'
           /\ MaxSubmits = 1 => OnceInv'
<1>1. CallInv'  BY Zenon DEF MInv, CallInv
<1>2. MaxSubmits = 1 => OnceInv'  BY Zenon DEF MInv, OnceInv
<1> QED  BY <1>1, <1>2, RoundsFrame, Zenon DEF MInv

\* The nodes, and the coordinator's start.
LEMMA NetworkInv ==
    ASSUME MInv,
           \/ \E i \in Intents, n \in Nodes : distributeShares(i, n)
           \/ fetchCommitteeInfo
           \/ \E n \in Nodes : NodeStops(n) \/ NodeStarts(n)
    PROVE  MInv'
<1>1. /\ UNCHANGED <<handler, intentRow, sessionRow, mpcRow, batchRow, jobs, sessions, rounds,
                     settler>>
      /\ running' \in BOOLEAN /\ faults' \in 0..MaxFaults
      /\ flight' \subseteq Intents \X Nodes /\ down' \subseteq Nodes
      /\ held' \in [Nodes -> SUBSET Intents]
  <2> USE DEF api, network
  <2>5. /\ running \in BOOLEAN /\ faults \in 0..MaxFaults
        /\ flight \subseteq Intents \X Nodes /\ down \subseteq Nodes
        /\ held \in [Nodes -> SUBSET Intents]
    BY Zenon DEF MInv, TypeOK
  <2>1. ASSUME NEW i \in Intents, NEW n \in Nodes, distributeShares(i, n)
        PROVE  <1>1!:
    <3>1. held' \in [Nodes -> SUBSET Intents]
      <4>1. held' = [held EXCEPT ![n] = held[n] \union {i}] \/ held' = held
        BY <2>1, Zenon DEF distributeShares
      <4> QED  BY <2>5, <4>1
    <3>2. flight' = flight \ {<<i, n>>} /\ UNCHANGED <<api, mpcRow, batchRow, jobs, running,
                                                       sessions, down, rounds, settler, faults>>
      BY <2>1, Zenon DEF distributeShares
    <3> QED  BY <2>5, <3>1, <3>2
  <2>2. CASE fetchCommitteeInfo  BY <2>2, <2>5 DEF fetchCommitteeInfo
  <2>3. CASE \E n \in Nodes : NodeStops(n)  BY <2>3, <2>5, MpcAssumption DEF NodeStops
  <2>4. CASE \E n \in Nodes : NodeStarts(n)  BY <2>4, <2>5 DEF NodeStarts
  <2> HIDE DEF api, network
  <2> QED  BY <2>1, <2>2, <2>3, <2>4, Zenon
<1>2. TypeOK'  BY <1>1 DEF MInv, TypeOK
<1> QED  BY <1>1, <1>2, Frame, Zenon DEF MInv

-----------------------------------------------------------------------------
(* Sessions *)

\* A session that is not open stays so, with the intents it has.
SessionsGrow ==
    /\ DOMAIN sessions \subseteq DOMAIN sessions'
    /\ \A s \in DOMAIN sessions : sessions[s].status # "open" =>
          sessions'[s].status # "open" /\ sessions'[s].intents = sessions[s].intents

\* What was decided on a closed session stays decided.
LEMMA ClosedStays ==
    ASSUME SessionsGrow
    PROVE  /\ \A x : RoundOK(x) => RoundOK(x)'
           /\ \A x : BatchOK(x) /\ x.session \in DOMAIN sessions => BatchOK(x)'
<1>1. ASSUME NEW x, RoundOK(x)
      PROVE  RoundOK(x)'
  <2>1. /\ x.session \in DOMAIN sessions' /\ sessions'[x.session].status # "open"
        /\ sessions'[x.session].intents = sessions[x.session].intents
    BY <1>1, Zenon DEF SessionsGrow, RoundOK
  <2> QED  BY <1>1, <2>1, Zenon DEF RoundOK
<1>2. ASSUME NEW x, BatchOK(x), x.session \in DOMAIN sessions
      PROVE  BatchOK(x)'
  <2>1. /\ sessions'[x.session].status # "open"
        /\ sessions'[x.session].intents = sessions[x.session].intents
    BY <1>2, Zenon DEF SessionsGrow, BatchOK
  <2> QED  BY <1>2, <2>1, Zenon DEF BatchOK
<1> QED  BY <1>1, <1>2, Zenon

\* A batch has a session.
LEMMA BatchHasSession ==
    ASSUME MInv, NEW b \in DOMAIN batchRow
    PROVE  batchRow[b].session \in DOMAIN sessions
<1>1. batchRow \in Seq(BatchState(DOMAIN sessions))  BY Zenon DEF MInv, TypeOK, BatchState
<1>2. batchRow[b] \in BatchState(DOMAIN sessions)  BY <1>1
<1> QED  BY <1>2 DEF BatchState

\* Batches are typed by the sessions there are.
LEMMA BatchesStayTyped ==
    ASSUME TypeOK, DOMAIN sessions \subseteq DOMAIN sessions', batchRow' = batchRow
    PROVE  batchRow' \in Seq(BatchState(DOMAIN sessions'))
<1>1. batchRow \in Seq(BatchState(DOMAIN sessions))  BY Zenon DEF TypeOK, BatchState
<1>2. BatchState(DOMAIN sessions) \subseteq BatchState(DOMAIN sessions')  BY DEF BatchState
<1> QED  BY <1>1, <1>2

LEMMA AddIntentInv ==
    ASSUME MInv, NEW i \in Intents, addIntent(i)
    PROVE  MInv'
<1> DEFINE s == getOrCreateOpenSession
<1>1. /\ handler[i].pc = "row"
      /\ sessions' = IF s \in DOMAIN sessions
                     THEN [sessions EXCEPT ![s].intents = @ \union {i}]
                     ELSE Append(sessions, [status |-> "open", intents |-> {i}])
      /\ flight' = IF InProcess THEN flight ELSE flight \union ({i} \X Nodes)
      /\ handler' = [handler EXCEPT ![i].pc = IF InProcess THEN "accepted" ELSE "waiting",
                                    ![i].session = s]
      /\ UNCHANGED <<intentRow, sessionRow, mpcRow, batchRow, jobs, running, held, down,
                     rounds, settler, faults>>
  BY Zenon DEF addIntent
<1>2. /\ TypeOK /\ handler \in [Intents -> CallState] /\ sessions \in Seq(Session)
      /\ sessionRow \subseteq DOMAIN sessions
  BY Zenon DEF MInv, TypeOK, CallState
<1>3. \/ s \in DOMAIN sessions /\ sessions[s].status = "open"
      \/ s \notin DOMAIN sessions /\ s = Len(sessions) + 1
  <2>1. CASE OpenSessions # {}
    <3>1. s \in OpenSessions  BY <2>1, Zenon DEF getOrCreateOpenSession
    <3> QED  BY <3>1 DEF OpenSessions
  <2>2. CASE OpenSessions = {}  BY <1>2, <2>2 DEF getOrCreateOpenSession
  <2> QED  BY <2>1, <2>2
<1> HIDE DEF s
<1>4. /\ sessions' \in Seq(Session) /\ DOMAIN sessions' = DOMAIN sessions \union {s} /\ s \in Nat
      /\ sessions'[s].intents = IF s \in DOMAIN sessions THEN sessions[s].intents \union {i} ELSE {i}
      /\ \A t \in DOMAIN sessions : t # s => sessions'[t] = sessions[t]
  <2>1. CASE s \in DOMAIN sessions
    <3>1. sessions[s] \in Session /\ s \in Nat  BY <1>2, <2>1
    <3> DEFINE x == [sessions[s] EXCEPT !.intents = @ \union {i}]
    <3>2. x \in Session /\ x.intents = sessions[s].intents \union {i}  BY <3>1 DEF Session
    <3>3. sessions' = [sessions EXCEPT ![s] = x]  BY <1>1, <2>1
    <3> HIDE DEF x
    <3>4. /\ sessions' \in Seq(Session) /\ DOMAIN sessions' = DOMAIN sessions
          /\ sessions'[s] = x /\ \A t \in DOMAIN sessions : t # s => sessions'[t] = sessions[t]
      BY <1>2, <2>1, <3>2, <3>3, SeqWrite, Zenon
    <3> QED  BY <2>1, <3>1, <3>2, <3>4, Zenon
  <2>2. CASE s \notin DOMAIN sessions
    <3>1. [status |-> "open", intents |-> {i}] \in Session  BY DEF Session
    <3> QED  BY <1>1, <1>2, <1>3, <2>2, <3>1
  <2> QED  BY <2>1, <2>2
<1>5. SessionsGrow  BY <1>3, <1>4, Zenon DEF SessionsGrow
<1>6. handler' \in [Intents -> CallState]
  <2> DEFINE pc == IF InProcess THEN "accepted" ELSE "waiting"
  <2>1. pc \in {"accepted", "waiting"}  OBVIOUS
  <2> HIDE DEF pc
  <2>2. handler' = [handler EXCEPT ![i].pc = pc, ![i].session = s]  BY <1>1, Zenon DEF pc
  <2> QED  BY <1>2, <1>4, <2>1, <2>2, ZenonT(60) DEF CallState
<1>7. /\ handler'[i].pc \in {"waiting", "accepted"} /\ handler'[i].session = s
      /\ handler'[i].submits = handler[i].submits
      /\ \A j \in Intents : j # i => handler'[j] = handler[j]
  BY <1>1, <1>2 DEF CallState
<1>8. TypeOK'
  <2>1. batchRow' \in Seq(BatchState(DOMAIN sessions'))  BY <1>1, <1>2, <1>4, BatchesStayTyped
  <2>2. flight' \subseteq Intents \X Nodes  BY <1>1, <1>2 DEF TypeOK
  <2>3. sessionRow' \subseteq DOMAIN sessions'  BY <1>1, <1>2, <1>4
  <2> QED  BY <1>1, <1>2, <1>4, <1>6, <2>1, <2>2, <2>3 DEF TypeOK, CallState, BatchState
<1>9. CallInv'  BY <1>4, <1>7, Zenon DEF MInv, CallInv
<1>10. RoundInv' /\ BatchInv' /\ OneJobPerMatch'
  <2>1. RoundInv'  BY <1>1, <1>5, ClosedStays, Zenon DEF MInv, RoundInv
  <2>2. \A b \in DOMAIN batchRow : BatchOK(batchRow[b])'
    BY <1>1, <1>5, ClosedStays, BatchHasSession, Zenon DEF MInv, BatchInv
  <2>3. BatchInv'  BY <1>1, <2>2, Zenon DEF MInv, BatchInv
  <2>4. OneJobPerMatch'  BY <1>1, Zenon DEF MInv, OneJobPerMatch
  <2> QED  BY <2>1, <2>3, <2>4
<1>11. ASSUME MaxSubmits = 1
       PROVE  OnceInv'
  <2>1. OnceInv  BY <1>11, Zenon DEF MInv
  <2>2. \A j \in Intents : handler'[j].submits = 0 => handler'[j].pc = "new"
    BY <1>1, <1>7, <2>1, Zenon DEF OnceInv
  <2>3. \A t \in DOMAIN sessions : i \notin sessions[t].intents
    BY <1>1, <2>1, Zenon DEF OnceInv
  <2>4. \A t \in DOMAIN sessions' : sessions'[t].intents
            = (IF t \in DOMAIN sessions THEN sessions[t].intents ELSE {})
                \union (IF t = s THEN {i} ELSE {})
    BY <1>4
  <2>5. ASSUME NEW j \in Intents, handler'[j].pc \in {"new", "row"}, NEW t \in DOMAIN sessions'
        PROVE  j \notin sessions'[t].intents
    <3>1. j # i /\ handler[j].pc \in {"new", "row"}  BY <1>7, <2>5
    <3> QED  BY <2>1, <2>4, <3>1 DEF OnceInv
  <2>6. ASSUME NEW t \in DOMAIN sessions', NEW u \in DOMAIN sessions', t # u
        PROVE  sessions'[t].intents \intersect sessions'[u].intents = {}
    BY <2>1, <2>3, <2>4, <2>6 DEF OnceInv
  <2> QED  BY <2>2, <2>5, <2>6, Zenon DEF OnceInv
<1> QED  BY <1>8, <1>9, <1>10, <1>11, Zenon DEF MInv

-----------------------------------------------------------------------------
(* Matches *)

\* What a result of matchIntents is.
LEMMA MatchesOf ==
    ASSUME NEW S \in SUBSET Intents, NEW ms \in matchIntents[S]
    PROVE  /\ ms \in SUBSET Pairs
           /\ \A p \in ms : p[1] \in S /\ p[2] \in S
           /\ Disjoint(ms)
           /\ \A a, b \in S \ Matched(ms) : ~Complementary(a, b)
<1>1. matchIntents[S] = {m \in SUBSET {p \in S \X S : Complementary(p[1], p[2])} :
                            /\ Disjoint(m)
                            /\ \A a, b \in S \ Matched(m) : ~Complementary(a, b)}
  BY DEF matchIntents
<1>2. /\ ms \in SUBSET {p \in S \X S : Complementary(p[1], p[2])} /\ Disjoint(ms)
      /\ \A a, b \in S \ Matched(ms) : ~Complementary(a, b)
  BY <1>1, Zenon
<1>3. \A p \in ms : p \in S \X S /\ Complementary(p[1], p[2])  BY <1>2, Zenon
<1>4. \A p \in ms : p \in Pairs /\ p[1] \in S /\ p[2] \in S
  BY <1>3 DEF Pairs, Complementary
<1> QED  BY <1>2, <1>4, Zenon

INSTANCE FiniteSetTheorems

\* The rows to update are pairs of intents.
LEMMA RowsArePairs ==
    ASSUME NEW ms \in SUBSET Pairs
    PROVE  MatchedWith(ms) \in Seq(Pairs)
<1> DEFINE n == Cardinality(ms)
<1> DEFINE order == CHOOSE f \in [1..n -> ms] : IsInjective(f)
<1>1. IsFiniteSet(ms)
  <2>1. IsFiniteSet(Intents \X Intents)  BY MpcAssumption, FS_Product
  <2> QED  BY <2>1, FS_Subset DEF Pairs
<1>2. n \in Nat /\ ExistsBijection(1..n, ms)  BY <1>1, FS_CardinalityType
<1>3. \E f \in [1..n -> ms] : IsInjective(f)
  BY <1>2 DEF ExistsBijection, Bijection, Injection, IsInjective
<1>4. order \in [1..n -> ms]  BY <1>3, Zenon
<1> HIDE DEF n, order
<1>5. \A k \in 1..(2 * n) : k % 2 = 1 => (k + 1) \div 2 \in 1..n  BY <1>2
<1>6. \A k \in 1..(2 * n) : k % 2 # 1 => k \div 2 \in 1..n  BY <1>2
<1>7. \A p \in ms : p \in Pairs /\ <<p[2], p[1]>> \in Pairs  BY DEF Pairs
<1>8. \A k \in 1..(2 * n) :
          (IF k % 2 = 1 THEN order[(k + 1) \div 2]
                        ELSE <<order[k \div 2][2], order[k \div 2][1]>>) \in Pairs
  BY <1>4, <1>5, <1>6, <1>7
<1>9. MatchedWith(ms) = [k \in 1..(2 * n) |->
          IF k % 2 = 1 THEN order[(k + 1) \div 2]
                       ELSE <<order[k \div 2][2], order[k \div 2][1]>>]
  BY Zenon DEF MatchedWith, n, order
<1>10. MatchedWith(ms) \in [1..(2 * n) -> Pairs]  BY <1>8, <1>9, Zenon
<1>11. 2 * n \in Nat  BY <1>2
<1> QED  BY <1>10, <1>11, SeqDef, Zenon

-----------------------------------------------------------------------------
(* Rounds *)

\* The sessions are the same and have the same intents, whatever became of them.
SameIntents ==
    /\ DOMAIN sessions' = DOMAIN sessions
    /\ \A s \in DOMAIN sessions : sessions'[s].intents = sessions[s].intents

LEMMA StatusSet ==
    ASSUME TypeOK, NEW s \in DOMAIN sessions, NEW st \in {"matching", "signed", "failed"},
           SetStatus(s, st)
    PROVE  /\ sessions' \in Seq(Session) /\ SameIntents /\ SessionsGrow
           /\ sessions'[s].status = st
<1> DEFINE x == [sessions[s] EXCEPT !.status = st]
<1>1. sessions \in Seq(Session) /\ sessions[s] \in Session  BY DEF TypeOK
<1>2. x \in Session /\ x.status = st /\ x.intents = sessions[s].intents /\ st # "open"
  BY <1>1 DEF Session
<1>3. sessions' = [sessions EXCEPT ![s] = x]  BY Zenon DEF SetStatus
<1> HIDE DEF x
<1>4. /\ sessions' \in Seq(Session) /\ DOMAIN sessions' = DOMAIN sessions
      /\ sessions'[s] = x /\ \A t \in DOMAIN sessions : t # s => sessions'[t] = sessions[t]
  BY <1>1, <1>2, <1>3, SeqWrite, Zenon
<1>5. SameIntents  BY <1>2, <1>4, Zenon DEF SameIntents
<1>6. SessionsGrow  BY <1>2, <1>4, Zenon DEF SessionsGrow
<1> QED  BY <1>2, <1>4, <1>5, <1>6, Zenon

LEMMA SessionsSame ==
    ASSUME TypeOK, sessions' = sessions
    PROVE  sessions' \in Seq(Session) /\ SameIntents /\ SessionsGrow
BY Zenon DEF TypeOK, SameIntents, SessionsGrow

\* Requests stay where they are, but for those the coordinator was serving.
LEMMA CallsStay ==
    ASSUME MInv, SameIntents,
           \A i \in Intents :
               /\ handler'[i].session = handler[i].session
               /\ handler'[i].submits = handler[i].submits
               /\ \/ handler'[i].pc = handler[i].pc
                  \/ handler[i].pc = "waiting" /\ handler'[i].pc = "failed"
    PROVE  CallInv' /\ (MaxSubmits = 1 => OnceInv')
<1>1. CallInv'
  <2>1. \A i \in Intents : handler'[i].pc \in {"waiting", "accepted"} =>
           handler[i].pc \in {"waiting", "accepted"}
    OBVIOUS
  <2> QED  BY <2>1, Zenon DEF MInv, CallInv, SameIntents
<1>2. ASSUME MaxSubmits = 1
      PROVE  OnceInv'
  <2>1. OnceInv  BY <1>2, Zenon DEF MInv
  <2>2. \A i \in Intents : handler'[i].submits = 0 => handler'[i].pc = "new"
    <3> SUFFICES ASSUME NEW i \in Intents, handler[i].submits = 0
                 PROVE  handler'[i].pc = "new"
      BY Zenon
    <3>1. handler[i].pc = "new"  BY <2>1, Zenon DEF OnceInv
    <3> QED  BY <3>1
  <2>3. \A i \in Intents : handler'[i].pc \in {"new", "row"} => handler[i].pc \in {"new", "row"}
    OBVIOUS
  <2> QED  BY <2>1, <2>2, <2>3, Zenon DEF OnceInv, SameIntents
<1> QED  BY <1>1, <1>2, Zenon

\* A round starts: nobody else has one for the session, and no batch is of it.
LEMMA RoundStarts ==
    ASSUME MInv, NEW s \in DOMAIN sessions, NEW st \in {"matching", "signed"},
           Startable(s), SetStatus(s, st), NEW x \in Round, x.session = s, RoundOK(x)',
           rounds' = Append(rounds, x),
           UNCHANGED <<api, mpcRow, batchRow, jobs, running, network, settler, faults>>
    PROVE  MInv'
<1>1. TypeOK /\ RoundInv /\ BatchInv  BY Zenon DEF MInv
<1>2. sessions' \in Seq(Session) /\ SameIntents /\ SessionsGrow  BY <1>1, StatusSet
<1>3. rounds \in Seq(Round)  BY <1>1, Zenon DEF TypeOK
<1> DEFINE n == Len(rounds) + 1
<1>4. /\ rounds' \in Seq(Round) /\ DOMAIN rounds' = DOMAIN rounds \union {n}
      /\ n \notin DOMAIN rounds /\ rounds'[n] = x
      /\ \A r \in DOMAIN rounds : rounds'[r] = rounds[r]
  BY <1>3, SeqAdd
<1> HIDE DEF n
<1>5. \A r \in DOMAIN rounds : rounds[r].session # s
  BY <1>1, Zenon DEF RoundInv, RoundOK, Startable
<1>6. \A b \in DOMAIN batchRow : batchRow[b].session # s
  BY <1>1, Zenon DEF BatchInv, BatchOK, Startable
<1>7. RoundInv'
  <2>1. \A r \in DOMAIN rounds' : RoundOK(rounds[r])'
    BY <1>1, <1>2, <1>4, ClosedStays, Zenon DEF RoundInv
  <2>2. \A q, r \in DOMAIN rounds' : rounds'[q].session = rounds'[r].session => q = r
    <3> SUFFICES ASSUME NEW q \in DOMAIN rounds', NEW r \in DOMAIN rounds',
                        rounds'[q].session = rounds'[r].session
                 PROVE  q = r
      BY Zenon
    <3>1. CASE q \in DOMAIN rounds /\ r \in DOMAIN rounds
      <4>1. rounds[q].session = rounds[r].session  BY <1>4, <3>1, Zenon
      <4> QED  BY <1>1, <3>1, <4>1, Zenon DEF RoundInv
    <3>2. CASE q \in DOMAIN rounds /\ r = n  BY <1>4, <1>5, <3>2, Zenon
    <3>3. CASE q = n /\ r \in DOMAIN rounds  BY <1>4, <1>5, <3>3, Zenon
    <3> QED  BY <1>4, <3>1, <3>2, <3>3, Zenon
  <2> QED  BY <2>1, <2>2, Zenon DEF RoundInv
<1>8. BatchInv'
  <2>1. \A b \in DOMAIN batchRow : BatchOK(batchRow[b])'
    BY <1>1, <1>2, ClosedStays, BatchHasSession, Zenon DEF BatchInv
  <2>2. \A b \in DOMAIN batchRow, r \in DOMAIN rounds' :
           rounds'[r].pc \in {"decrypt", "sign", "persist"} =>
               batchRow[b].session # rounds'[r].session
    <3> SUFFICES ASSUME NEW b \in DOMAIN batchRow, NEW r \in DOMAIN rounds',
                        rounds'[r].pc \in {"decrypt", "sign", "persist"}
                 PROVE  batchRow[b].session # rounds'[r].session
      BY Zenon
    <3>1. CASE r \in DOMAIN rounds
      <4>1. rounds'[r] = rounds[r]  BY <1>4, <3>1, Zenon
      <4> QED  BY <1>1, <3>1, <4>1, Zenon DEF BatchInv
    <3>2. CASE r = n  BY <1>4, <1>6, <3>2, Zenon
    <3> QED  BY <1>4, <3>1, <3>2, Zenon
  <2> QED  BY <1>1, <2>1, <2>2, Zenon DEF BatchInv
<1>9. OneJobPerMatch'  BY Zenon DEF MInv, OneJobPerMatch
<1>10. CallInv' /\ (MaxSubmits = 1 => OnceInv')  BY <1>2, CallsStay, Zenon DEF api
<1>11. TypeOK'
  <2>1. DOMAIN sessions' = DOMAIN sessions  BY <1>2, Zenon DEF SameIntents
  <2> QED  BY <1>1, <1>2, <1>4, <2>1 DEF TypeOK, api, network
<1> QED  BY <1>7, <1>8, <1>9, <1>10, <1>11, Zenon DEF MInv

\* The nodes that answered: at least ceil(2n/3) of them are a quorum.
LEMMA ThresholdIsQuorum ==
    ASSUME NEW R \in SUBSET Nodes
    PROVE  /\ Cardinality(R) >= threshold => Quorum(R)
           /\ R = Nodes => Quorum(R)
<1>1. Cardinality(Nodes) \in Nat /\ Cardinality(R) \in Nat
  BY MpcAssumption, FS_CardinalityType, FS_Subset
<1> QED  BY <1>1 DEF threshold, Quorum

LEMMA StartInv ==
    ASSUME MInv, NEW s \in DOMAIN sessions, NEW by \in {"timer", "api"},
           runMatchingRoundRemote(s, by) \/ runMatchingRound(s, by)
    PROVE  MInv'
<1>1. TypeOK  BY Zenon DEF MInv
<1>2. sessions \in Seq(Session) /\ sessions[s] \in Session /\ s \in Nat \ {0}
  BY <1>1 DEF TypeOK
<1>3. NewRound(s, by) \in Round
  <2>1. <<>> \in Seq(Pairs)  OBVIOUS
  <2> QED  BY <1>2, <2>1 DEF NewRound, Round, RoundPc
<1>4. CASE runMatchingRoundRemote(s, by)
  <2> DEFINE x == NewRound(s, by)
  <2>1. x.session = s /\ x.pc = "decrypt"  BY DEF NewRound
  <2>2. /\ Startable(s) /\ SetStatus(s, "matching") /\ rounds' = Append(rounds, x)
        /\ UNCHANGED <<api, mpcRow, batchRow, jobs, running, network, settler, faults>>
    BY <1>4, Zenon DEF runMatchingRoundRemote
  <2>3. sessions'[s].status = "matching" /\ s \in DOMAIN sessions'
    BY <1>1, <2>2, StatusSet DEF SameIntents
  <2>4. RoundOK(x)'  BY <2>1, <2>3 DEF RoundOK, NewRound
  <2> HIDE DEF x
  <2>5. x \in Round  BY <1>3 DEF x
  <2> QED  BY <2>1, <2>2, <2>4, <2>5, RoundStarts
<1>5. CASE runMatchingRound(s, by)
  <2>1. PICK ms \in matchIntents[sessions[s].intents] :
           rounds' = Append(rounds, [NewRound(s, by) EXCEPT !.pc = "persist", !.matches = ms,
                                                            !.signers = Nodes])
    BY <1>5, Zenon DEF runMatchingRound
  <2> DEFINE x == [NewRound(s, by) EXCEPT !.pc = "persist", !.matches = ms, !.signers = Nodes]
  <2>2. ms \in SUBSET Pairs  BY <1>2, <2>1, MatchesOf DEF Session
  <2>3. /\ x \in Round /\ x.session = s /\ x.pc = "persist" /\ x.matches = ms
        /\ x.signers = Nodes
    <3>1. NewRound(s, by).session = s  BY DEF NewRound
    <3> QED  BY <1>3, <2>2, <3>1, Zenon DEF Round, RoundPc
  <2>4. /\ Startable(s) /\ SetStatus(s, "signed")
        /\ UNCHANGED <<api, mpcRow, batchRow, jobs, running, network, settler, faults>>
    BY <1>5, Zenon DEF runMatchingRound
  <2>5. /\ sessions'[s].status = "signed" /\ s \in DOMAIN sessions'
        /\ sessions'[s].intents = sessions[s].intents
    BY <1>1, <2>4, StatusSet DEF SameIntents
  <2>6. Quorum(Nodes)  BY ThresholdIsQuorum
  <2> HIDE DEF x
  <2>7. RoundOK(x)'  BY <2>1, <2>3, <2>5, <2>6 DEF RoundOK
  <2>8. rounds' = Append(rounds, x)  BY <2>1 DEF x
  <2> QED  BY <2>3, <2>4, <2>7, <2>8, RoundStarts
<1> QED  BY <1>4, <1>5

\* Round r goes on as x, and its batch may be written.
LEMMA RoundGoesOn ==
    ASSUME MInv, NEW r \in DOMAIN rounds, NEW x \in Round, rounds' = [rounds EXCEPT ![r] = x],
           x.session = rounds[r].session, RoundOK(x)',
           sessions' \in Seq(Session), SameIntents, SessionsGrow,
           \/ /\ batchRow' = batchRow
              /\ x.pc \in {"decrypt", "sign", "persist"} =>
                     rounds[r].pc \in {"decrypt", "sign", "persist"}
           \/ /\ rounds[r].pc = "persist" /\ x.pc = "rows"
              /\ \E y \in BatchState(DOMAIN sessions) :
                    /\ batchRow' = Append(batchRow, y)
                    /\ y.session = rounds[r].session /\ BatchOK(y)',
           mpcRow' \in [Intents -> {"none", "pending", "matched"}],
           UNCHANGED <<api, jobs, running, network, settler, faults>>
    PROVE  MInv'
<1>1. TypeOK /\ RoundInv /\ BatchInv  BY Zenon DEF MInv
<1>2. rounds \in Seq(Round) /\ DOMAIN sessions' = DOMAIN sessions
  BY <1>1, Zenon DEF TypeOK, SameIntents
<1>3. /\ rounds' \in Seq(Round) /\ DOMAIN rounds' = DOMAIN rounds /\ rounds'[r] = x
      /\ \A q \in DOMAIN rounds : q # r => rounds'[q] = rounds[q]
  BY <1>2, SeqWrite
<1>4. RoundInv'
  <2>1. \A q \in DOMAIN rounds' : RoundOK(rounds[q])'
    BY <1>1, <1>3, ClosedStays, Zenon DEF RoundInv
  <2>2. \A q \in DOMAIN rounds : rounds'[q].session = rounds[q].session
    BY <1>3, Zenon
  <2>3. \A q, t \in DOMAIN rounds' : rounds'[q].session = rounds'[t].session => q = t
    BY <1>1, <1>3, <2>2 DEF RoundInv
  <2> QED  BY <2>1, <2>3, Zenon DEF RoundInv
<1>5. CallInv' /\ (MaxSubmits = 1 => OnceInv')  BY CallsStay, Zenon DEF api
<1>6. OneJobPerMatch'  BY Zenon DEF MInv, OneJobPerMatch
<1>7. \A b \in DOMAIN batchRow : BatchOK(batchRow[b])
  BY <1>1, Zenon DEF BatchInv
<1>8. batchRow \in Seq(BatchState(DOMAIN sessions))  BY <1>1, Zenon DEF TypeOK, BatchState
<1>9. CASE /\ batchRow' = batchRow
           /\ x.pc \in {"decrypt", "sign", "persist"} =>
                  rounds[r].pc \in {"decrypt", "sign", "persist"}
  <2>1. \A b \in DOMAIN batchRow : BatchOK(batchRow[b])'
    BY <1>7, <1>9, ClosedStays, BatchHasSession, Zenon
  <2>2. \A b \in DOMAIN batchRow, q \in DOMAIN rounds' :
           rounds'[q].pc \in {"decrypt", "sign", "persist"} =>
               batchRow[b].session # rounds'[q].session
    <3> SUFFICES ASSUME NEW b \in DOMAIN batchRow, NEW q \in DOMAIN rounds',
                        rounds'[q].pc \in {"decrypt", "sign", "persist"}
                 PROVE  batchRow[b].session # rounds'[q].session
      BY Zenon
    <3>1. /\ q \in DOMAIN rounds /\ rounds'[q].session = rounds[q].session
          /\ rounds[q].pc \in {"decrypt", "sign", "persist"}
      BY <1>3, <1>9
    <3> QED  BY <1>1, <3>1, Zenon DEF BatchInv
  <2>3. BatchInv'  BY <1>1, <1>9, <2>1, <2>2, Zenon DEF BatchInv
  <2>4. TypeOK'  BY <1>1, <1>2, <1>3, <1>9 DEF TypeOK, api, network
  <2> QED  BY <1>4, <1>5, <1>6, <2>3, <2>4, Zenon DEF MInv
<1>10. ASSUME NEW y \in BatchState(DOMAIN sessions), batchRow' = Append(batchRow, y),
              y.session = rounds[r].session, BatchOK(y)',
              rounds[r].pc = "persist", x.pc = "rows"
       PROVE  MInv'
  <2> DEFINE n == Len(batchRow) + 1
  <2>1. /\ batchRow' \in Seq(BatchState(DOMAIN sessions)) /\ Len(batchRow') = Len(batchRow) + 1
        /\ DOMAIN batchRow' = DOMAIN batchRow \union {n} /\ n \notin DOMAIN batchRow
        /\ batchRow'[n] = y /\ \A b \in DOMAIN batchRow : batchRow'[b] = batchRow[b]
    BY <1>8, <1>10, SeqAdd
  <2> HIDE DEF n
  <2>2. \A b \in DOMAIN batchRow' : BatchOK(batchRow[b])'
    BY <1>7, <1>10, <2>1, ClosedStays, BatchHasSession, Zenon
  <2>3. \A b \in DOMAIN batchRow : batchRow[b].session # y.session
    BY <1>1, <1>10, Zenon DEF BatchInv
  <2>4. \A b, c \in DOMAIN batchRow' : batchRow'[b].session = batchRow'[c].session => b = c
    BY <1>1, <2>1, <2>3, Zenon DEF BatchInv
  <2>5. ASSUME NEW b \in DOMAIN batchRow', NEW q \in DOMAIN rounds',
               rounds'[q].pc \in {"decrypt", "sign", "persist"}
        PROVE  batchRow'[b].session # rounds'[q].session
    <3>1. q # r /\ rounds'[q] = rounds[q]  BY <1>3, <1>10, <2>5
    <3>2. rounds[q].session # rounds[r].session  BY <1>1, <1>3, <3>1, Zenon DEF RoundInv
    <3>3. CASE b \in DOMAIN batchRow
      <4>1. batchRow'[b] = batchRow[b] /\ batchRow[b].session # rounds[q].session
        BY <1>1, <1>3, <2>1, <2>5, <3>1, <3>3, Zenon DEF BatchInv
      <4> QED  BY <3>1, <4>1, Zenon
    <3>4. CASE b = n  BY <1>10, <2>1, <3>1, <3>2, <3>4, Zenon
    <3> QED  BY <2>1, <3>3, <3>4, Zenon
  <2>6. BatchInv'  BY <2>2, <2>4, <2>5, Zenon DEF BatchInv
  <2>7. TypeOK'
    <3>1. DOMAIN batchRow \subseteq DOMAIN batchRow'  BY <2>1, Zenon
    <3>2. jobs \in Seq(JobState(DOMAIN batchRow))  BY <1>1, Zenon DEF TypeOK, JobState
    <3>3. JobState(DOMAIN batchRow) \subseteq JobState(DOMAIN batchRow')  BY <3>1 DEF JobState
    <3>4. jobs \in Seq(JobState(DOMAIN batchRow'))  BY <3>2, <3>3
    <3>5. settler' \in [batch : 0..Len(batchRow'), todo : SUBSET Pairs, queued : BOOLEAN]
      <4>1. Len(batchRow) \in Nat  BY <1>8
      <4> QED  BY <1>1, <2>1, <4>1 DEF TypeOK
    <3> QED
      BY <1>1, <1>2, <1>3, <2>1, <3>4, <3>5, Zenon DEF TypeOK, api, network, BatchState, JobState
  <2> QED  BY <1>4, <1>5, <1>6, <2>6, <2>7, Zenon DEF MInv
<1> QED  BY <1>9, <1>10, Zenon

\* The replies of the nodes to a round.
LEMMA RepliesInv ==
    ASSUME MInv, NEW r \in DOMAIN rounds, NEW R \in SUBSET Nodes,
           internal_decrypt(r, R) \/ internal_sign_batch(r, R)
    PROVE  MInv'
<1>0. PICK s : s = rounds[r].session  OBVIOUS
<1>1. TypeOK /\ RoundInv  BY Zenon DEF MInv
<1>2. /\ rounds \in Seq(Round) /\ rounds[r] \in Round /\ RoundOK(rounds[r])
      /\ s \in DOMAIN sessions /\ sessions[s] \in Session
  BY <1>0, <1>1 DEF TypeOK, RoundInv, RoundOK
<1>3. /\ UNCHANGED <<api, mpcRow, batchRow, jobs, running, network, settler, faults>>
      /\ rounds[r].pc \in {"decrypt", "sign"}
  BY Zenon DEF internal_decrypt, internal_sign_batch, At
<1>4. mpcRow' \in [Intents -> {"none", "pending", "matched"}]  BY <1>1, <1>3 DEF TypeOK
<1>5. ASSUME rounds' = [rounds EXCEPT ![r].pc = "failed", ![r].responded = R],
             SetStatus(s, "failed")
      PROVE  MInv'
  <2>0. PICK x : x = [rounds[r] EXCEPT !.pc = "failed", !.responded = R]  OBVIOUS
  <2>1. x \in Round /\ x.session = s /\ x.pc = "failed"  BY <1>0, <1>2, <2>0, Zenon DEF Round, RoundPc
  <2>2. rounds' = [rounds EXCEPT ![r] = x]  BY <1>2, <1>5, <2>0, Zenon
  <2>3. /\ sessions' \in Seq(Session) /\ SameIntents /\ SessionsGrow
        /\ sessions'[s].status = "failed"
    BY <1>1, <1>2, <1>5, StatusSet
  <2>4. RoundOK(x)'  BY <1>0, <1>2, <2>1, <2>3 DEF RoundOK, SameIntents
  <2> QED  BY <1>3, <1>4, <2>1, <2>2, <2>3, <2>4, <1>0, RoundGoesOn, Zenon
<1>6. ASSUME NEW ms \in matchIntents[sessions[s].intents], sessions' = sessions,
             rounds' = [rounds EXCEPT ![r].pc = "sign", ![r].matches = ms]
      PROVE  MInv'
  <2>0. PICK x : x = [rounds[r] EXCEPT !.pc = "sign", !.matches = ms]  OBVIOUS
  <2>1. ms \in SUBSET Pairs  BY <1>2, MatchesOf DEF Session
  <2>2. x \in Round /\ x.session = s /\ x.pc = "sign" /\ x.matches = ms
    BY <1>0, <1>2, <2>0, <2>1, Zenon DEF Round, RoundPc
  <2>3. rounds' = [rounds EXCEPT ![r] = x]  BY <1>2, <1>6, <2>0, Zenon
  <2>4. sessions' \in Seq(Session) /\ SameIntents /\ SessionsGrow
    BY <1>1, <1>6, SessionsSame
  <2>5. RoundOK(x)'  BY <1>0, <1>2, <1>6, <2>2 DEF RoundOK
  <2> QED  BY <1>3, <1>4, <2>2, <2>3, <2>4, <2>5, <1>0, RoundGoesOn, Zenon
<1>7. ASSUME Cardinality(R) >= threshold, rounds[r].pc = "sign", SetStatus(s, "signed"),
             rounds' = [rounds EXCEPT ![r].pc = "persist", ![r].signers = R]
      PROVE  MInv'
  <2>0. PICK x : x = [rounds[r] EXCEPT !.pc = "persist", !.signers = R]  OBVIOUS
  <2>1. /\ x \in Round /\ x.session = s /\ x.pc = "persist" /\ x.signers = R
        /\ x.matches = rounds[r].matches
    BY <1>0, <1>2, <2>0, Zenon DEF Round, RoundPc
  <2>2. rounds' = [rounds EXCEPT ![r] = x]  BY <1>2, <1>7, <2>0, Zenon
  <2>3. /\ sessions' \in Seq(Session) /\ SameIntents /\ SessionsGrow
        /\ sessions'[s].status = "signed"
    BY <1>1, <1>2, <1>7, StatusSet
  <2>4. Quorum(R)  BY <1>7, ThresholdIsQuorum
  <2>5. RoundOK(x)'  BY <1>0, <1>2, <1>7, <2>1, <2>3, <2>4 DEF RoundOK, SameIntents
  <2> QED  BY <1>3, <1>4, <2>1, <2>2, <2>3, <2>5, <1>0, RoundGoesOn, Zenon
<1>8. CASE internal_decrypt(r, R)  BY <1>0, <1>5, <1>6, <1>8, Zenon DEF internal_decrypt
<1>9. CASE internal_sign_batch(r, R)  BY <1>0, <1>5, <1>7, <1>9, Zenon DEF internal_sign_batch, At
<1> QED  BY <1>8, <1>9

\* The coordinator's process ends, and with it what it has in memory.
LEMMA ProcessEndsInv ==
    ASSUME MInv, NEW r, NEW ended \in {"threw", "lost"}, ProcessEnds(r, ended),
           faults' \in 0..MaxFaults, mpcRow' = mpcRow,
           UNCHANGED <<intentRow, sessionRow, batchRow, jobs, network>>
    PROVE  MInv'
<1>1. TypeOK /\ RoundInv /\ BatchInv  BY Zenon DEF MInv
<1>2. sessions \in Seq(Session) /\ rounds \in Seq(Round) /\ handler \in [Intents -> CallState]
  BY <1>1 DEF TypeOK, CallState
<1>3. /\ sessions' \in Seq(Session) /\ SameIntents /\ SessionsGrow
  <2>1. /\ sessions' = [s \in DOMAIN sessions |-> [sessions[s] EXCEPT !.status = "lost"]]
        /\ Len(sessions) \in Nat /\ DOMAIN sessions = 1..Len(sessions)
    BY <1>2 DEF ProcessEnds
  <2>2. \A s \in DOMAIN sessions :
           /\ sessions'[s] \in Session /\ sessions'[s].status = "lost"
           /\ sessions'[s].intents = sessions[s].intents
    <3> SUFFICES ASSUME NEW s \in DOMAIN sessions
                 PROVE  /\ sessions'[s] \in Session /\ sessions'[s].status = "lost"
                        /\ sessions'[s].intents = sessions[s].intents
      BY Zenon
    <3>1. sessions[s] \in Session /\ sessions'[s] = [sessions[s] EXCEPT !.status = "lost"]
      BY <1>2, <2>1
    <3> QED  BY <3>1 DEF Session
  <2>3. sessions' \in [1..Len(sessions) -> Session]  BY <2>1, <2>2
  <2>4. sessions' \in Seq(Session)  BY <2>1, <2>3, SeqDef, Zenon
  <2> QED  BY <2>1, <2>2, <2>4 DEF SameIntents, SessionsGrow
<1>4. /\ rounds' \in Seq(Round) /\ DOMAIN rounds' = DOMAIN rounds
      /\ \A q \in DOMAIN rounds :
            /\ rounds'[q].session = rounds[q].session
            /\ \/ rounds'[q].pc \in {"threw", "lost"}
               \/ rounds'[q] = rounds[q] /\ rounds[q].pc \notin {"decrypt", "sign", "persist"}
  <2>1. /\ rounds' = [q \in DOMAIN rounds |->
                        IF q = r THEN [rounds[q] EXCEPT !.pc = ended]
                        ELSE IF Active(q) THEN [rounds[q] EXCEPT !.pc = "lost"] ELSE rounds[q]]
        /\ Len(rounds) \in Nat /\ DOMAIN rounds = 1..Len(rounds)
    BY <1>2 DEF ProcessEnds
  <2>2. ASSUME NEW q \in DOMAIN rounds
        PROVE  /\ rounds'[q] \in Round
               /\ rounds'[q].session = rounds[q].session
               /\ \/ rounds'[q].pc \in {"threw", "lost"}
                  \/ rounds'[q] = rounds[q] /\ rounds[q].pc \notin {"decrypt", "sign", "persist"}
    <3>1. rounds[q] \in Round  BY <1>2
    <3>2. CASE q = r  BY <2>1, <3>1, <3>2, Zenon DEF Round, RoundPc
    <3>3. CASE q # r /\ Active(q)  BY <2>1, <3>1, <3>3 DEF Round, RoundPc
    <3>4. CASE q # r /\ ~Active(q)  BY <2>1, <3>1, <3>4 DEF Active
    <3> QED  BY <3>2, <3>3, <3>4
  <2>3. rounds' \in [1..Len(rounds) -> Round] /\ DOMAIN rounds' = DOMAIN rounds
    BY <2>1, <2>2
  <2>4. rounds' \in Seq(Round)  BY <2>1, <2>3, SeqDef, Zenon
  <2> QED  BY <2>2, <2>3, <2>4
<1>5. /\ handler' \in [Intents -> CallState]
      /\ \A i \in Intents :
            /\ handler'[i].session = handler[i].session
            /\ handler'[i].submits = handler[i].submits
            /\ \/ handler'[i].pc = handler[i].pc
               \/ handler[i].pc = "waiting" /\ handler'[i].pc = "failed"
  BY <1>2, Zenon DEF ProcessEnds, CallState
<1>6. RoundInv'
  <2>1. ASSUME NEW q \in DOMAIN rounds'
        PROVE  RoundOK(rounds[q])'
    <3>1. q \in DOMAIN rounds /\ RoundOK(rounds[q])  BY <1>1, <1>4 DEF RoundInv
    <3>2. CASE rounds'[q] = rounds[q]  BY <1>3, <3>1, <3>2, ClosedStays, Zenon
    <3>3. CASE rounds'[q].pc \in {"threw", "lost"}
      <4>1. /\ rounds'[q].session \in DOMAIN sessions'
            /\ sessions'[rounds'[q].session].status # "open"
        BY <1>3, <1>4, <3>1, Zenon DEF RoundOK, SessionsGrow
      <4> QED  BY <3>3, <4>1 DEF RoundOK
    <3> QED  BY <1>4, <3>1, <3>2, <3>3, Zenon
  <2>2. \A q, t \in DOMAIN rounds' : rounds'[q].session = rounds'[t].session => q = t
    BY <1>1, <1>4 DEF RoundInv
  <2> QED  BY <2>1, <2>2, Zenon DEF RoundInv
<1>7. BatchInv'
  <2>1. \A b \in DOMAIN batchRow : BatchOK(batchRow[b])'
    BY <1>1, <1>3, ClosedStays, BatchHasSession, Zenon DEF BatchInv
  <2>2. \A q \in DOMAIN rounds' : rounds'[q].pc \notin {"decrypt", "sign", "persist"}
    BY <1>4
  <2> QED  BY <1>1, <2>1, <2>2, Zenon DEF BatchInv
<1>8. OneJobPerMatch'  BY Zenon DEF MInv, OneJobPerMatch
<1>9. CallInv' /\ (MaxSubmits = 1 => OnceInv')  BY <1>3, <1>5, CallsStay, Zenon
<1>10. TypeOK'
  <2>1. DOMAIN sessions' = DOMAIN sessions  BY <1>3, Zenon DEF SameIntents
  <2>2. running' = FALSE /\ settler' = Idle  BY Zenon DEF ProcessEnds
  <2>3. settler' \in [batch : 0..Len(batchRow), todo : SUBSET Pairs, queued : BOOLEAN]
    <3>1. Len(batchRow) \in Nat  BY <1>1 DEF TypeOK
    <3> QED  BY <2>2, <3>1 DEF Idle, None
  <2> QED  BY <1>1, <1>3, <1>4, <1>5, <2>1, <2>2, <2>3, Zenon DEF TypeOK, network, CallState
<1> QED  BY <1>6, <1>7, <1>8, <1>9, <1>10, Zenon DEF MInv

\* A round whose state changes in nothing but its place, to one after the batch.
LEMMA RoundPlaceInv ==
    ASSUME MInv, NEW r \in DOMAIN rounds, NEW pc \in {"done", "threw"},
           rounds' = [rounds EXCEPT ![r].pc = pc],
           pc = "done" => rounds[r].pc = "rows",
           UNCHANGED <<api, mpcRow, batchRow, jobs, running, sessions, network, settler, faults>>
    PROVE  MInv'
<1>1. TypeOK /\ RoundInv  BY Zenon DEF MInv
<1>2. rounds[r] \in Round /\ RoundOK(rounds[r])  BY <1>1 DEF TypeOK, RoundInv
<1>3. PICK x : x = [rounds[r] EXCEPT !.pc = pc]  OBVIOUS
<1>4. /\ x \in Round /\ x.session = rounds[r].session /\ x.pc = pc
      /\ x.matches = rounds[r].matches
  BY <1>2, <1>3 DEF Round, RoundPc
<1>5. rounds' = [rounds EXCEPT ![r] = x]  BY <1>3
<1>6. sessions' \in Seq(Session) /\ SameIntents /\ SessionsGrow  BY <1>1, SessionsSame
<1>7. RoundOK(x)'  BY <1>2, <1>4 DEF RoundOK
<1>8. mpcRow' \in [Intents -> {"none", "pending", "matched"}]  BY <1>1 DEF TypeOK
<1> QED  BY <1>4, <1>5, <1>6, <1>7, <1>8, RoundGoesOn, Zenon

LEMMA ThrowInv ==
    ASSUME MInv, NEW r \in DOMAIN rounds, Throw(r),
           UNCHANGED <<intentRow, sessionRow, mpcRow, batchRow, jobs, network, faults>>
    PROVE  MInv'
<1>1. CASE rounds' = [rounds EXCEPT ![r].pc = "threw"]
           /\ UNCHANGED <<running, sessions, handler, settler>>
  BY <1>1, RoundPlaceInv, Zenon DEF api
<1>2. CASE ProcessEnds(r, "threw")
  <2>1. faults' \in 0..MaxFaults  BY DEF MInv, TypeOK
  <2> QED  BY <1>2, <2>1, ProcessEndsInv
<1> QED  BY <1>1, <1>2, Zenon DEF Throw

\* persistSignedBatch, query by query.
LEMMA PersistInv ==
    ASSUME MInv, NEW r \in DOMAIN rounds, persist_batch(r) \/ persist_intent(r) \/ persisted(r)
    PROVE  MInv'
<1>1. TypeOK /\ RoundInv  BY Zenon DEF MInv
<1>2. /\ rounds \in Seq(Round) /\ rounds[r] \in Round /\ RoundOK(rounds[r])
      /\ sessionRow \subseteq DOMAIN sessions
  BY <1>1 DEF TypeOK, RoundInv
<1>3. CASE persist_batch(r)
  <2>1. CASE rounds[r].session \notin sessionRow
    BY <1>3, <2>1, ThrowInv, Zenon DEF persist_batch
  <2>2. CASE rounds[r].session \in sessionRow
    <3>1. PICK y : y = [session |-> rounds[r].session, matches |-> rounds[r].matches,
                        signers |-> rounds[r].signers, status |-> "pending"]
      BY Zenon
    <3>2. PICK x : x = [rounds[r] EXCEPT !.pc = "rows", !.left = MatchedWith(rounds[r].matches)]
      OBVIOUS
    <3>3. MatchedWith(rounds[r].matches) \in Seq(Pairs)  BY <1>2, RowsArePairs DEF Round
    <3>4. /\ x \in Round /\ x.session = rounds[r].session /\ x.pc = "rows"
          /\ x.matches = rounds[r].matches
      BY <1>2, <3>2, <3>3, Zenon DEF Round, RoundPc
    <3>5. /\ y \in BatchState(DOMAIN sessions) /\ y.session = rounds[r].session
          /\ y.matches = rounds[r].matches /\ y.signers = rounds[r].signers
      BY <1>2, <2>2, <3>1 DEF BatchState, Round
    <3>6. /\ rounds[r].pc = "persist" /\ batchRow' = Append(batchRow, y)
          /\ UNCHANGED <<api, mpcRow, jobs, running, sessions, network, settler, faults>>
      BY <1>3, <2>2, <3>1 DEF persist_batch, At, api
    <3>7. rounds' = [rounds EXCEPT ![r] = x]
      <4>1. rounds' = [rounds EXCEPT ![r].pc = "rows", ![r].left = MatchedWith(rounds[r].matches)]
        BY <1>3, <2>2 DEF persist_batch
      <4> QED  BY <1>2, <3>2, <4>1, Zenon
    <3>8. RoundOK(x)' /\ BatchOK(y)'
      BY <1>2, <3>4, <3>5, <3>6 DEF RoundOK, BatchOK
    <3>9. /\ sessions' \in Seq(Session) /\ SameIntents /\ SessionsGrow
          /\ mpcRow' \in [Intents -> {"none", "pending", "matched"}]
      BY <1>1, <3>6, SessionsSame, Zenon DEF TypeOK
    <3> QED  BY <3>4, <3>5, <3>6, <3>7, <3>8, <3>9, RoundGoesOn, Zenon
  <2> QED  BY <2>1, <2>2
<1>4. CASE persist_intent(r)
  <2> DEFINE i == Head(rounds[r].left)[1]
  <2>1. CASE Throw(r) /\ mpcRow' = mpcRow
    BY <1>4, <2>1, ThrowInv, Zenon DEF persist_intent
  <2>2. CASE /\ mpcRow' = [mpcRow EXCEPT ![i] = IF @ = "none" THEN @ ELSE "matched"]
             /\ rounds' = [rounds EXCEPT ![r].left = Tail(@)]
             /\ UNCHANGED <<handler, running, sessions, settler>>
    <3>1. /\ rounds[r].pc = "rows" /\ rounds[r].left # <<>>
          /\ UNCHANGED <<api, batchRow, jobs, running, sessions, network, settler, faults>>
      BY <1>4, <2>2 DEF persist_intent, At, api
    <3>2. rounds[r].left \in Seq(Pairs) /\ Tail(rounds[r].left) \in Seq(Pairs)
      BY <1>2, <3>1 DEF Round
    <3>3. PICK x : x = [rounds[r] EXCEPT !.left = Tail(rounds[r].left)]  BY Zenon
    <3>4. /\ x \in Round /\ x.session = rounds[r].session /\ x.pc = "rows"
          /\ x.matches = rounds[r].matches
      BY <1>2, <3>1, <3>2, <3>3, Zenon DEF Round
    <3>5. rounds' = [rounds EXCEPT ![r] = x]  BY <2>2, <3>3
    <3>6. RoundOK(x)'  BY <1>2, <3>1, <3>4 DEF RoundOK
    <3>7. mpcRow' \in [Intents -> {"none", "pending", "matched"}]
      BY <1>1, <2>2, Zenon DEF TypeOK
    <3>8. sessions' \in Seq(Session) /\ SameIntents /\ SessionsGrow
      BY <1>1, <3>1, SessionsSame
    <3> QED  BY <3>1, <3>4, <3>5, <3>6, <3>7, <3>8, RoundGoesOn, Zenon
  <2> QED  BY <1>4, <2>1, <2>2, Zenon DEF persist_intent
<1>5. CASE persisted(r)  BY <1>5, RoundPlaceInv, Zenon DEF persisted, At
<1> QED  BY <1>3, <1>4, <1>5

LEMMA CrashInv ==
    ASSUME MInv, Crash
    PROVE  MInv'
<1>1. faults' \in 0..MaxFaults  BY MpcAssumption DEF Crash, MInv, TypeOK
<1> QED  BY <1>1, ProcessEndsInv, Zenon DEF Crash

-----------------------------------------------------------------------------
(* Settler and relayer *)

LEMMA SettleOnceInv ==
    ASSUME MInv, NEW b \in DOMAIN batchRow, settleOnce(b)
    PROVE  MInv'
<1>1. TypeOK  BY Zenon DEF MInv
<1>2. /\ settler' = [batch |-> b, todo |-> batchRow[b].matches, queued |-> FALSE]
      /\ UNCHANGED <<api, mpcRow, batchRow, jobs, running, sessions, network, rounds, faults>>
  BY Zenon DEF settleOnce
<1>3. batchRow \in Seq(BatchState(DOMAIN sessions))  BY <1>1, Zenon DEF TypeOK, BatchState
<1>4. b \in 0..Len(batchRow) /\ batchRow[b].matches \in SUBSET Pairs
  <2>1. b \in 0..Len(batchRow) /\ batchRow[b] \in BatchState(DOMAIN sessions)  BY <1>3
  <2> QED  BY <2>1 DEF BatchState
<1>5. TypeOK'  BY <1>1, <1>2, <1>4 DEF TypeOK, api, network
<1> QED  BY <1>2, <1>5, Frame, Zenon DEF MInv, api

\* The idempotency key keeps a second job for the match out.
LEMMA QueueJobInv ==
    ASSUME MInv, SettlerInv, NEW p \in settler.todo, queueSettlementJob(p)
    PROVE  MInv'
<1>1. TypeOK /\ OneJobPerMatch  BY Zenon DEF MInv
<1> DEFINE b == settler.batch
<1>2. PICK notes \in BOOLEAN :
          /\ jobs' = IF isRfqRouted(p) \/ HasJob(b, p) THEN jobs
                     ELSE Append(jobs, [batch |-> b, match |-> p, notes |-> notes,
                                        status |-> "queued"])
          /\ settler' = [settler EXCEPT !.todo = @ \ {p}, !.queued = @ \/ ~isRfqRouted(p)]
          /\ UNCHANGED <<api, mpcRow, batchRow, running, sessions, network, rounds, faults>>
  <2>1. (mpcRow[p[1]] # "none" /\ mpcRow[p[2]] # "none") \in BOOLEAN  OBVIOUS
  <2> QED  BY <2>1, Zenon DEF queueSettlementJob
<1>3. /\ settler \in [batch : 0..Len(batchRow), todo : SUBSET Pairs, queued : BOOLEAN]
      /\ jobs \in Seq(JobState(DOMAIN batchRow)) /\ DOMAIN batchRow = 1..Len(batchRow)
      /\ Len(batchRow) \in Nat
  BY <1>1 DEF TypeOK, JobState
<1>4. b \in DOMAIN batchRow /\ p \in Pairs
  BY <1>2, <1>3 DEF SettlerInv, None
<1>5. settler' \in [batch : 0..Len(batchRow), todo : SUBSET Pairs, queued : BOOLEAN]
  <2> DEFINE q == settler.queued \/ ~isRfqRouted(p)
  <2>1. q \in BOOLEAN  OBVIOUS
  <2>2. settler' = [settler EXCEPT !.todo = @ \ {p}, !.queued = q]  BY <1>2, Zenon
  <2> HIDE DEF q
  <2> QED  BY <1>3, <2>1, <2>2, Zenon
<1>6. /\ jobs' \in Seq(JobState(DOMAIN batchRow))
      /\ \A j, k \in DOMAIN jobs' :
            jobs'[j].batch = jobs'[k].batch /\ jobs'[j].match = jobs'[k].match => j = k
  <2>1. CASE isRfqRouted(p) \/ HasJob(b, p)
    <3>1. jobs' = jobs  BY <1>2, <2>1, Zenon
    <3> QED  BY <1>1, <1>3, <3>1, Zenon DEF OneJobPerMatch
  <2>2. CASE ~(isRfqRouted(p) \/ HasJob(b, p))
    <3> DEFINE x == [batch |-> b, match |-> p, notes |-> notes, status |-> "queued"]
    <3> DEFINE n == Len(jobs) + 1
    <3>1. x \in JobState(DOMAIN batchRow) /\ x.batch = b /\ x.match = p
      BY <1>2, <1>4 DEF JobState
    <3>2. jobs' = Append(jobs, x)  BY <1>2, <2>2, Zenon
    <3> HIDE DEF x
    <3>3. /\ jobs' \in Seq(JobState(DOMAIN batchRow)) /\ DOMAIN jobs' = DOMAIN jobs \union {n}
          /\ n \notin DOMAIN jobs /\ jobs'[n] = x /\ \A k \in DOMAIN jobs : jobs'[k] = jobs[k]
      BY <1>3, <3>1, <3>2, SeqAdd
    <3> HIDE DEF n
    <3>4. \A k \in DOMAIN jobs : ~(jobs[k].batch = b /\ jobs[k].match = p)
      BY <2>2, Zenon DEF HasJob
    <3> QED  BY <1>1, <3>1, <3>3, <3>4 DEF OneJobPerMatch
  <2> QED  BY <2>1, <2>2
<1>7. TypeOK'  BY <1>1, <1>2, <1>5, <1>6 DEF TypeOK, JobState, api, network
<1>8. OneJobPerMatch'  BY <1>6, Zenon DEF OneJobPerMatch
<1>9. RoundInv' /\ BatchInv'
  <2>1. \A x : (RoundOK(x)' <=> RoundOK(x)) /\ (BatchOK(x)' <=> BatchOK(x))
    BY <1>2, Zenon DEF RoundOK, BatchOK
  <2>2. UNCHANGED <<rounds, batchRow>> /\ RoundInv /\ BatchInv  BY <1>2, Zenon DEF MInv
  <2> QED  BY <2>1, <2>2, Zenon DEF RoundInv, BatchInv
<1>10. CallInv' /\ (MaxSubmits = 1 => OnceInv')
  BY <1>2, Zenon DEF MInv, CallInv, OnceInv, api
<1> QED  BY <1>7, <1>8, <1>9, <1>10, Zenon DEF MInv

\* The batch gets its status and is otherwise what it was.
LEMMA BatchStatusInv ==
    ASSUME MInv, settlement_status
    PROVE  MInv'
<1>1. TypeOK /\ RoundInv /\ BatchInv  BY Zenon DEF MInv
<1>2. PICK b : b = settler.batch /\ b # None  BY Zenon DEF settlement_status
<1>14. PICK st \in {"queued", "rfq_routed"} :
          /\ batchRow' = [batchRow EXCEPT ![b].status = st]
          /\ settler' = Idle
          /\ UNCHANGED <<api, mpcRow, jobs, running, sessions, network, rounds, faults>>
  <2>1. (IF settler.queued THEN "queued" ELSE "rfq_routed") \in {"queued", "rfq_routed"}  OBVIOUS
  <2> QED  BY <1>2, <2>1, Zenon DEF settlement_status
<1>3. /\ settler \in [batch : 0..Len(batchRow), todo : SUBSET Pairs, queued : BOOLEAN]
      /\ batchRow \in Seq(BatchState(DOMAIN sessions))
  BY <1>1 DEF TypeOK, BatchState
<1>4. b \in DOMAIN batchRow /\ batchRow[b] \in BatchState(DOMAIN sessions)
  BY <1>2, <1>3 DEF None
<1>5. PICK x : x = [batchRow[b] EXCEPT !.status = st]  BY Zenon
<1>6. /\ x \in BatchState(DOMAIN sessions) /\ x.session = batchRow[b].session
      /\ x.matches = batchRow[b].matches /\ x.signers = batchRow[b].signers
  BY <1>2, <1>14, <1>4, <1>5 DEF BatchState
<1>7. batchRow' = [batchRow EXCEPT ![b] = x]  BY <1>2, <1>14, <1>5
<1>8. /\ batchRow' \in Seq(BatchState(DOMAIN sessions)) /\ Len(batchRow') = Len(batchRow)
      /\ DOMAIN batchRow' = DOMAIN batchRow /\ batchRow'[b] = x
      /\ \A c \in DOMAIN batchRow : c # b => batchRow'[c] = batchRow[c]
  BY <1>3, <1>4, <1>6, <1>7, SeqWrite
<1>9. \A c \in DOMAIN batchRow :
          /\ batchRow'[c].session = batchRow[c].session
          /\ batchRow'[c].matches = batchRow[c].matches
          /\ batchRow'[c].signers = batchRow[c].signers
  BY <1>6, <1>8, Zenon
<1>10. TypeOK'
  <2>1. settler' \in [batch : 0..Len(batchRow'), todo : SUBSET Pairs, queued : BOOLEAN]
    <3>1. Len(batchRow') \in Nat  BY <1>8
    <3> QED  BY <1>2, <1>14, <3>1 DEF Idle, None
  <2> QED  BY <1>1, <1>2, <1>14, <1>8, <2>1, Zenon DEF TypeOK, BatchState, api, network
<1>11. BatchInv'
  <2>1. ASSUME NEW c \in DOMAIN batchRow'
        PROVE  BatchOK(batchRow[c])'
    <3>1. c \in DOMAIN batchRow /\ BatchOK(batchRow[c])  BY <1>1, <1>8, Zenon DEF BatchInv
    <3>2. sessions' = sessions  BY <1>2, <1>14, Zenon
    <3> QED  BY <1>9, <3>1, <3>2, Zenon DEF BatchOK
  <2>2. \A c, d \in DOMAIN batchRow' : batchRow'[c].session = batchRow'[d].session => c = d
    BY <1>1, <1>8, <1>9 DEF BatchInv
  <2>3. \A c \in DOMAIN batchRow', r \in DOMAIN rounds' :
           rounds'[r].pc \in {"decrypt", "sign", "persist"} =>
               batchRow'[c].session # rounds'[r].session
    BY <1>1, <1>2, <1>14, <1>8, <1>9 DEF BatchInv
  <2> QED  BY <2>1, <2>2, <2>3, Zenon DEF BatchInv
<1>12. RoundInv'
  <2>1. \A y : RoundOK(y)' <=> RoundOK(y)  BY <1>2, <1>14, Zenon DEF RoundOK
  <2> QED  BY <1>1, <1>2, <1>14, <2>1, Zenon DEF RoundInv
<1>13. CallInv' /\ (MaxSubmits = 1 => OnceInv') /\ OneJobPerMatch'
  BY <1>2, <1>14, Zenon DEF MInv, CallInv, OnceInv, OneJobPerMatch, api
<1> QED  BY <1>10, <1>11, <1>12, <1>13, Zenon DEF MInv

LEMMA SubmitJobInv ==
    ASSUME MInv, NEW k \in DOMAIN jobs, MPC_SETTLE_SUBMIT(k)
    PROVE  MInv'
<1>1. TypeOK  BY Zenon DEF MInv
<1>2. PICK st \in {"no_notes", "no_proof"} :
          /\ jobs' = [jobs EXCEPT ![k].status = st]
          /\ UNCHANGED <<api, mpcRow, batchRow, running, sessions, network, rounds, settler, faults>>
  <2>1. (IF jobs[k].notes THEN "no_proof" ELSE "no_notes") \in {"no_notes", "no_proof"}  OBVIOUS
  <2> QED  BY <2>1, Zenon DEF MPC_SETTLE_SUBMIT
<1>3. jobs \in Seq(JobState(DOMAIN batchRow)) /\ jobs[k] \in JobState(DOMAIN batchRow)
  <2>1. jobs \in Seq(JobState(DOMAIN batchRow))  BY <1>1, Zenon DEF TypeOK, JobState
  <2> QED  BY <2>1
<1>4. PICK x : x = [jobs[k] EXCEPT !.status = st]  BY Zenon
<1>5. /\ x \in JobState(DOMAIN batchRow) /\ x.batch = jobs[k].batch /\ x.match = jobs[k].match
  BY <1>2, <1>3, <1>4 DEF JobState
<1>6. jobs' = [jobs EXCEPT ![k] = x]  BY <1>2, <1>4
<1>7. /\ jobs' \in Seq(JobState(DOMAIN batchRow)) /\ DOMAIN jobs' = DOMAIN jobs
      /\ jobs'[k] = x /\ \A j \in DOMAIN jobs : j # k => jobs'[j] = jobs[j]
  BY <1>3, <1>5, <1>6, SeqWrite
<1>8. \A j \in DOMAIN jobs : jobs'[j].batch = jobs[j].batch /\ jobs'[j].match = jobs[j].match
  BY <1>5, <1>7, Zenon
<1>9. OneJobPerMatch'  BY <1>7, <1>8 DEF MInv, OneJobPerMatch
<1>10. TypeOK'  BY <1>1, <1>2, <1>7, Zenon DEF TypeOK, JobState, api, network
<1>11. RoundInv' /\ BatchInv'
  <2>1. \A y : (RoundOK(y)' <=> RoundOK(y)) /\ (BatchOK(y)' <=> BatchOK(y))
    BY <1>2, Zenon DEF RoundOK, BatchOK
  <2>2. UNCHANGED <<rounds, batchRow>> /\ RoundInv /\ BatchInv  BY <1>2, Zenon DEF MInv
  <2> QED  BY <2>1, <2>2, Zenon DEF RoundInv, BatchInv
<1>12. CallInv' /\ (MaxSubmits = 1 => OnceInv')
  BY <1>2, Zenon DEF MInv, CallInv, OnceInv, api
<1> QED  BY <1>9, <1>10, <1>11, <1>12, Zenon DEF MInv

-----------------------------------------------------------------------------
(* The theorems *)

LEMMA InitMInv ==
    ASSUME Init
    PROVE  MInv /\ SettlerInv
<1>1. TypeOK
  <2>1. handler \in [Intents -> CallState]  BY MpcAssumption DEF Init, CallState, None
  <2>2. settler \in [batch : 0..Len(batchRow), todo : SUBSET Pairs, queued : BOOLEAN]
    BY DEF Init, Idle, None
  <2>3. /\ intentRow \subseteq Rfq /\ sessionRow \subseteq DOMAIN sessions
        /\ mpcRow \in [Intents -> {"none", "pending", "matched"}]
        /\ running \in BOOLEAN /\ flight \subseteq Intents \X Nodes
        /\ held \in [Nodes -> SUBSET Intents] /\ down \subseteq Nodes
        /\ faults \in 0..MaxFaults
    BY MpcAssumption DEF Init
  <2>4. sessions \in Seq(Session) /\ rounds \in Seq(Round)  BY DEF Init
  <2>5. batchRow \in Seq(BatchState(DOMAIN sessions)) /\ jobs \in Seq(JobState(DOMAIN batchRow))
    BY DEF Init
  <2> QED  BY <2>1, <2>2, <2>3, <2>4, <2>5, Zenon DEF TypeOK, CallState, BatchState, JobState
<1>2. /\ DOMAIN sessions = {} /\ DOMAIN rounds = {} /\ DOMAIN batchRow = {} /\ DOMAIN jobs = {}
      /\ \A i \in Intents : handler[i].pc = "new"
  BY DEF Init
<1>3. CallInv  BY <1>2 DEF CallInv
<1>4. RoundInv /\ BatchInv /\ OneJobPerMatch /\ OnceInv
  BY <1>2, Zenon DEF RoundInv, BatchInv, OneJobPerMatch, OnceInv
<1>5. SettlerInv  BY DEF Init, Idle, SettlerInv
<1> QED  BY <1>1, <1>3, <1>4, <1>5, Zenon DEF MInv

\* Only the settler takes matches up, together with their batch.
LEMMA NextSettlerInv ==
    ASSUME MInv, SettlerInv, Next
    PROVE  SettlerInv'
<1>1. CASE settler' = settler  BY <1>1, Zenon DEF SettlerInv
<1>2. CASE settler' = Idle  BY <1>2 DEF SettlerInv, Idle
<1>3. ASSUME NEW r, NEW ended, ProcessEnds(r, ended)
      PROVE  SettlerInv'
  BY <1>2, <1>3, Zenon DEF ProcessEnds
<1>4. ASSUME NEW b \in DOMAIN batchRow, settleOnce(b)
      PROVE  SettlerInv'
  <2>1. b # None  BY DEF MInv, TypeOK, None
  <2> QED  BY <1>4, <2>1 DEF settleOnce, SettlerInv
<1>5. ASSUME NEW p \in settler.todo, queueSettlementJob(p)
      PROVE  SettlerInv'
  <2>1. settler \in [batch : 0..Len(batchRow), todo : SUBSET Pairs, queued : BOOLEAN]
    BY DEF MInv, TypeOK
  <2>2. settler.batch # None  BY DEF SettlerInv
  <2>3. settler'.batch = settler.batch  BY <1>5, <2>1 DEF queueSettlementJob
  <2> QED  BY <2>2, <2>3, Zenon DEF SettlerInv
<1>6. CASE settlement_status  BY <1>2, <1>6, Zenon DEF settlement_status
<1>7. ASSUME NEW r \in DOMAIN rounds, Throw(r)
      PROVE  SettlerInv'
  BY <1>1, <1>3, <1>7, Zenon DEF Throw
<1>8. ASSUME NEW r \in DOMAIN rounds, persist_batch(r) \/ persist_intent(r)
      PROVE  SettlerInv'
  BY <1>1, <1>7, <1>8, Zenon DEF persist_batch, persist_intent
<1>9. CASE Crash  BY <1>3, <1>9, Zenon DEF Crash
<1>10. ASSUME NEW i \in Intents,
              \/ submit(i) \/ addIntent(i) \/ committee_unreachable(i) \/ accepted(i)
              \/ insert_session(i) \/ insert_mpc_intent(i) \/ ApiCrash(i)
       PROVE  SettlerInv'
  BY <1>1, <1>10, Zenon DEF submit, addIntent, committee_unreachable, accepted, insert_session,
                            insert_mpc_intent, ApiCrash
<1>11. ASSUME NEW i \in Intents, NEW n \in Nodes,
              distributeShares(i, n) \/ NodeStops(n) \/ NodeStarts(n)
       PROVE  SettlerInv'
  BY <1>1, <1>11, Zenon DEF distributeShares, NodeStops, NodeStarts
<1>12. ASSUME NEW n \in Nodes, NodeStops(n) \/ NodeStarts(n)
       PROVE  SettlerInv'
  BY <1>1, <1>12, Zenon DEF NodeStops, NodeStarts
<1>13. ASSUME NEW s \in DOMAIN sessions, NEW by,
              runMatchingRoundRemote(s, by) \/ runMatchingRound(s, by)
       PROVE  SettlerInv'
  BY <1>1, <1>13, Zenon DEF runMatchingRoundRemote, runMatchingRound
<1>14. ASSUME NEW r \in DOMAIN rounds, NEW R, internal_decrypt(r, R) \/ internal_sign_batch(r, R)
       PROVE  SettlerInv'
  BY <1>1, <1>14, Zenon DEF internal_decrypt, internal_sign_batch
<1>15. ASSUME NEW r \in DOMAIN rounds, persisted(r)
       PROVE  SettlerInv'
  BY <1>1, <1>15, Zenon DEF persisted
<1>16. CASE fetchCommitteeInfo  BY <1>1, <1>16, Zenon DEF fetchCommitteeInfo
<1>17. ASSUME NEW k \in DOMAIN jobs, MPC_SETTLE_SUBMIT(k)
       PROVE  SettlerInv'
  BY <1>1, <1>17, Zenon DEF MPC_SETTLE_SUBMIT
<1> QED
  BY <1>4, <1>5, <1>6, <1>8, <1>9, <1>10, <1>11, <1>12, <1>13, <1>14, <1>15, <1>16, <1>17, Zenon
  DEF Next, SettlerStep

LEMMA NextMInv ==
    ASSUME MInv, SettlerInv, [Next]_vars
    PROVE  MInv' /\ SettlerInv'
<1>1. CASE Next
  <2>1. MInv'
    BY <1>1, SubmitInv, RequestInv, NetworkInv, AddIntentInv, StartInv, RepliesInv, PersistInv,
       CrashInv, SettleOnceInv, QueueJobInv, BatchStatusInv, SubmitJobInv, Zenon
    DEF Next, SettlerStep
  <2> QED  BY <1>1, <2>1, NextSettlerInv, Zenon
<1>2. CASE UNCHANGED vars
  <2>1. UNCHANGED <<handler, intentRow, sessionRow, mpcRow, batchRow, jobs, running, sessions,
                    flight, held, down, rounds, settler, faults>>
    BY <1>2 DEF vars, api, network
  <2>2. TypeOK'  BY <2>1 DEF MInv, TypeOK
  <2>3. SettlerInv'  BY <2>1, Zenon DEF SettlerInv
  <2> QED  BY <2>1, <2>2, <2>3, Frame, Zenon DEF MInv
<1> QED  BY <1>1, <1>2, Zenon

\* Types, and what each round, batch and job is made of, hold throughout.
THEOREM MpcInvariant == Spec => [](MInv /\ SettlerInv)
<1>1. Init => MInv /\ SettlerInv  BY InitMInv
<1>2. (MInv /\ SettlerInv) /\ [Next]_vars => (MInv /\ SettlerInv)'  BY NextMInv
<1> QED  BY <1>1, <1>2, PTL DEF Spec

\* Every batch in mpc_batches was signed by at least ceil(2n/3) nodes, for any
\* number of nodes and in both deployments.
THEOREM MpcBatchesHaveQuorum == Spec => []BatchesHaveQuorum
<1>1. MInv => BatchesHaveQuorum
  BY Zenon DEF MInv, BatchInv, BatchOK, Quorum, BatchesHaveQuorum
<1> QED  BY <1>1, MpcInvariant, PTL

\* However often the settler stops and starts over with a batch, each of its
\* matches has at most one relayer job.
THEOREM MpcOneJobPerMatch == Spec => []OneJobPerMatch
<1>1. MInv => OneJobPerMatch  BY Zenon DEF MInv
<1> QED  BY <1>1, MpcInvariant, PTL

\* No intent joins a session once its round has begun, so the matches that were
\* signed are maximal among the intents the session has.
THEOREM MpcSignedSessionIsExhausted == Spec => []SignedSessionIsExhausted
<1>1. MInv => SignedSessionIsExhausted
  <2> SUFFICES ASSUME MInv, NEW r \in DOMAIN rounds,
                      At(r, "persist") \/ At(r, "rows") \/ At(r, "done"),
                      NEW a \in sessions[rounds[r].session].intents \ Matched(rounds[r].matches),
                      NEW b \in sessions[rounds[r].session].intents \ Matched(rounds[r].matches)
               PROVE  ~Complementary(a, b)
    BY Zenon DEF SignedSessionIsExhausted
  <2>1. /\ rounds[r].session \in DOMAIN sessions
        /\ rounds[r].matches \in matchIntents[sessions[rounds[r].session].intents]
    BY DEF MInv, RoundInv, RoundOK, At
  <2>2. sessions[rounds[r].session] \in Session  BY <2>1 DEF MInv, TypeOK
  <2>3. sessions[rounds[r].session].intents \in SUBSET Intents  BY <2>2 DEF Session
  <2> QED  BY <2>1, <2>3, MatchesOf, Zenon
<1> QED  BY <1>1, MpcInvariant, PTL

\* When every client submits an intent once, no intent is in two matches, of one
\* batch or of two: timer and match route cannot both run a session's round.
THEOREM MpcMatchedOnce == MaxSubmits = 1 => (Spec => []MatchedOnce)
<1> SUFFICES ASSUME MaxSubmits = 1 PROVE Spec => []MatchedOnce  OBVIOUS
<1>1. MInv => MatchedOnce
  <2> SUFFICES ASSUME MInv, NEW b \in DOMAIN batchRow, NEW c \in DOMAIN batchRow,
                      NEW p \in batchRow[b].matches, NEW q \in batchRow[c].matches,
                      {p[1], p[2]} \intersect {q[1], q[2]} # {}
               PROVE  b = c /\ p = q
    BY Zenon DEF MatchedOnce
  <2>1. ASSUME NEW d \in DOMAIN batchRow
        PROVE  /\ batchRow[d].session \in DOMAIN sessions
               /\ Disjoint(batchRow[d].matches)
               /\ \A o \in batchRow[d].matches :
                     /\ o[1] \in sessions[batchRow[d].session].intents
                     /\ o[2] \in sessions[batchRow[d].session].intents
    <3>1. batchRow[d].session \in DOMAIN sessions  BY BatchHasSession
    <3>2. sessions[batchRow[d].session] \in Session  BY <3>1 DEF MInv, TypeOK
    <3>3. sessions[batchRow[d].session].intents \in SUBSET Intents  BY <3>2 DEF Session
    <3>4. batchRow[d].matches \in matchIntents[sessions[batchRow[d].session].intents]
      BY Zenon DEF MInv, BatchInv, BatchOK
    <3> DEFINE S == sessions[batchRow[d].session].intents
    <3> DEFINE ms == batchRow[d].matches
    <3>5. S \in SUBSET Intents /\ ms \in matchIntents[S]  BY <3>3, <3>4, Zenon
    <3> HIDE DEF S, ms
    <3>6. Disjoint(ms) /\ \A o \in ms : o[1] \in S /\ o[2] \in S  BY <3>5, MatchesOf, Zenon
    <3> QED  BY <3>1, <3>6, Zenon DEF S, ms
  <2>2. batchRow[b].session = batchRow[c].session
    <3>1. sessions[batchRow[b].session].intents \intersect sessions[batchRow[c].session].intents
             # {}
      BY <2>1
    <3> QED  BY <2>1, <3>1, Zenon DEF MInv, OnceInv
  <2>3. b = c  BY <2>2, Zenon DEF MInv, BatchInv
  <2> QED  BY <2>1, <2>3, Zenon DEF Disjoint
<1> QED  BY <1>1, MpcInvariant, PTL
=============================================================================
