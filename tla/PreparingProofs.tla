-------------------------- MODULE PreparingProofs --------------------------
(***************************************************************************)
(* For any statements on a connection, used as they may: an id of a          *)
(* prepared statement has one owner from the prepare that takes it to the    *)
(* deallocation that gives it back, and a statement that is used with care   *)
(* is prepared as it is when it is executed.                                 *)
(***************************************************************************)
EXTENDS Preparing, TLAPS, WellFoundedInduction

Types == {"deallocate", "prepare", "execute", "plain", "fallback"}
Requests == [type : Types, stmt : Stmts, id : 0 .. MaxIds, scope : Scopes]

Typed ==
    /\ stage \in [Stmts -> Stages]
    /\ statementId \in [Stmts -> 0 .. MaxIds]
    /\ limitStage \in [Stmts -> {"TO_PREPARE", "TO_NOT_PREPARE"}]
    /\ scope \in [Stmts -> Scopes]
    /\ statements \subseteq Ids
    /\ pipeline \in Seq(Requests)
    /\ prepared \in [DOMAIN prepared -> Prepared]
    /\ supported \in BOOLEAN /\ canPrepareStatements \in BOOLEAN /\ refused \in BOOLEAN
    /\ misused \subseteq Stmts \X {"unknown id", "arguments", "stale"}

\* The statement is to be deallocated first.
Outdated(s) == stage[s] \in {"TO_REPREPARE", "TO_RESTART"}

\* Nobody else has the id, on the server or on the way to it.
Owns(s, id) ==
    /\ id \in statements
    /\ id \in DOMAIN prepared => prepared[id].stmt = s
    /\ \A i \in DOMAIN pipeline :
          pipeline[i].type = "prepare" /\ pipeline[i].id = id => pipeline[i].stmt = s

\* What is prepared has its id from the list. A prepare takes one that is free,
\* and its statement has the latest one.
PreparesOwn ==
    /\ DOMAIN prepared \subseteq statements
    /\ \A i \in DOMAIN pipeline : pipeline[i].type = "prepare" =>
           /\ pipeline[i].id \in statements
           /\ pipeline[i].id \notin DOMAIN prepared
           /\ Owns(pipeline[i].stmt, statementId[pipeline[i].stmt])
           /\ \A j \in DOMAIN pipeline :
                 pipeline[j].type = "prepare" /\ pipeline[j].id = pipeline[i].id => i = j

\* An outdated statement asks for nothing but its deallocation.
OutdatedWaits ==
    \A i \in DOMAIN pipeline : Outdated(pipeline[i].stmt) =>
        /\ pipeline[i].type = "deallocate"
        /\ pipeline[i].id = statementId[pipeline[i].stmt]

\* A deallocation that is not the first one of its statement comes too late,
\* and before the id is used again.
TooLate ==
    \A i \in DOMAIN pipeline : pipeline[i].type = "deallocate" =>
        \/ Outdated(pipeline[i].stmt)
        \/ /\ pipeline[i].id \notin DOMAIN prepared
           /\ \A j \in 1 .. i - 1 :
                 pipeline[j].type = "prepare" => pipeline[j].id # pipeline[i].id

HoldersOwn == \A s \in Stmts : Holds(s) => Owns(s, statementId[s])

ExecutionsOwn ==
    \A i \in DOMAIN pipeline :
        pipeline[i].type = "execute" => Owns(pipeline[i].stmt, pipeline[i].id)

IdsInv ==
    PreparesOwn /\ OutdatedWaits /\ TooLate /\ HoldersOwn /\ ExecutionsOwn

-----------------------------------------------------------------------------

Careful == Stmts \ Careless

\* The executions of a careful statement do not overlap.
OneRequest ==
    \A i, j \in DOMAIN pipeline :
        pipeline[i].stmt = pipeline[j].stmt /\ pipeline[i].stmt \in Careful => i = j

\* What its request says is so until it is answered.
RequestsAgree ==
    \A i \in DOMAIN pipeline : pipeline[i].stmt \in Careful =>
        /\ pipeline[i].type \in {"prepare", "execute", "deallocate"} =>
              pipeline[i].id = statementId[pipeline[i].stmt]
        /\ pipeline[i].scope = scope[pipeline[i].stmt]
        /\ pipeline[i].type = "execute" => stage[pipeline[i].stmt] = "TO_EXECUTE"
        /\ pipeline[i].type = "deallocate" => Outdated(pipeline[i].stmt)

\* limit() prepares the statement again when it adds placeholders.
LimitsKnown ==
    \A s \in Careful :
        /\ limitStage[s] = "TO_NOT_PREPARE" <=> scope[s].count
        /\ scope[s].offset <=> scope[s].count /\ s \in WithOffset

\* A careful statement is on the server, as it is unless it is outdated.
OnServer ==
    \A s \in Careful : Holds(s) =>
        /\ statementId[s] \in DOMAIN prepared
        /\ ~Outdated(s) =>
              LET found == prepared[statementId[s]].scope
              IN /\ found.version = scope[s].version
                 /\ Placeholders(found) = Placeholders(scope[s])

CarefulInv == OneRequest /\ RequestsAgree /\ LimitsKnown /\ OnServer /\ NeverMisused

PreparingInv == Typed /\ IdsInv /\ CarefulInv

-----------------------------------------------------------------------------
(* What the steps do to the pipeline.                                       *)

\* The first hole in a list of ids is none of them.
LEMMA LowestIsFree ==
    ASSUME NEW ids, ids \subseteq Ids
    PROVE  Lowest(ids) \in Nat \ {0} /\ Lowest(ids) \notin ids
<1> DEFINE free == (1 .. MaxIds + 1) \ ids
           less == OpToRel(<, Nat)
<1>1. MaxIds + 1 \in free /\ free \subseteq Nat
  BY PreparingAssumption DEF Ids
<1>2. \E x \in free : \A y \in free : ~ (<<y, x>> \in less)
  <2>1. IsWellFoundedOn(less, Nat)
    BY NatLessThanWellFounded
  <2> HIDE DEF free, less
  <2> QED BY <1>1, <2>1, WFMin
<1>3. PICK x \in free : \A y \in free : ~ (<<y, x>> \in less)
  BY <1>2
<1>4. \A y \in free : ~ (y < x)
  BY <1>1, <1>3 DEF OpToRel
<1>5. \A j \in 1 .. x - 1 : j \in ids
  BY <1>1, <1>4, PreparingAssumption
<1> QED
  BY <1>5, PreparingAssumption DEF Lowest

\* A request is sent behind the others.
LEMMA Sent ==
    ASSUME NEW requests \in Seq(Requests), NEW r \in Requests
    PROVE  /\ Append(requests, r) \in Seq(Requests)
           /\ DOMAIN requests = 1 .. Len(requests) /\ Len(requests) \in Nat
           /\ DOMAIN Append(requests, r) = 1 .. Len(requests) + 1
           /\ \A i \in DOMAIN requests : Append(requests, r)[i] = requests[i]
           /\ Append(requests, r)[Len(requests) + 1] = r
  OBVIOUS

\* The first one is answered.
LEMMA Answered ==
    ASSUME NEW requests \in Seq(Requests), requests # <<>>
    PROVE  /\ Tail(requests) \in Seq(Requests)
           /\ Head(requests) = requests[1] /\ Head(requests) \in Requests
           /\ 1 \in DOMAIN requests
           /\ DOMAIN requests = 1 .. Len(requests) /\ Len(requests) \in Nat \ {0}
           /\ DOMAIN Tail(requests) = 1 .. Len(requests) - 1
           /\ \A i \in DOMAIN Tail(requests) :
                 Tail(requests)[i] = requests[i + 1] /\ i + 1 \in DOMAIN requests
  OBVIOUS

\* What an execution asks for next.
NextRequest(s, st, ids, r) ==
    /\ r.stmt = s /\ r.scope = scope[s]
    /\ \/ /\ st \in {"TO_RESTART", "TO_REPREPARE"}
          /\ r.type = "deallocate" /\ r.id = statementId[s]
          /\ statements' = ids /\ statementId' = statementId
       \/ /\ st = "TO_PREPARE"
          /\ r.type = "prepare" /\ r.id \in Ids \ ids
          /\ statements' = ids \cup {r.id}
          /\ statementId' = [statementId EXCEPT ![s] = r.id]
       \/ /\ st = "TO_EXECUTE"
          /\ r.type = "execute" /\ r.id = statementId[s]
          /\ statements' = ids /\ statementId' = statementId
       \/ /\ st \in {"TO_START", "TO_SKIP"}
          /\ r.type = "plain"
          /\ statements' = ids /\ statementId' = statementId

\* An execution that goes on sends one request, with an id that is free if it
\* prepares.
LEMMA ProceedSends ==
    ASSUME Typed, NEW s \in Stmts, NEW st, NEW requests, NEW ids, ids \subseteq Ids,
           Proceed(s, st, requests, ids)
    PROVE  \E r \in Requests :
              pipeline' = Append(requests, r) /\ NextRequest(s, st, ids, r)
<1>r. \A type \in Types, id \in 0 .. MaxIds : Request(type, s, id) \in Requests
  BY DEF Typed, Requests, Request
<1>s. statementId[s] \in 0 .. MaxIds /\ 0 \in 0 .. MaxIds /\ Ids \subseteq 0 .. MaxIds
  <2>1. statementId[s] \in 0 .. MaxIds
    BY DEF Typed
  <2> QED BY <2>1, PreparingAssumption DEF Ids
<1>1. CASE /\ st \in {"TO_RESTART", "TO_REPREPARE"}
           /\ pipeline' = Append(requests, Request("deallocate", s, statementId[s]))
           /\ statements' = ids
           /\ UNCHANGED statementId
  <2>1. Request("deallocate", s, statementId[s]) \in Requests
    BY <1>r, <1>s DEF Types
  <2> QED BY <1>1, <2>1 DEF NextRequest, Request
<1>2. CASE /\ st = "TO_PREPARE"
           /\ Lowest(ids) <= MaxIds
           /\ statements' = ids \cup {Lowest(ids)}
           /\ statementId' = [statementId EXCEPT ![s] = Lowest(ids)]
           /\ pipeline' = Append(requests, Request("prepare", s, Lowest(ids)))
  <2>1. Lowest(ids) \in Ids \ ids
    <3>1. Lowest(ids) \in Nat \ {0} /\ Lowest(ids) \notin ids
      BY LowestIsFree
    <3> QED BY <1>2, <3>1, PreparingAssumption DEF Ids
  <2>2. Request("prepare", s, Lowest(ids)) \in Requests
    BY <1>r, <1>s, <2>1 DEF Types
  <2> QED BY <1>2, <2>1, <2>2 DEF NextRequest, Request
<1>3. CASE /\ st = "TO_EXECUTE"
           /\ pipeline' = Append(requests, Request("execute", s, statementId[s]))
           /\ statements' = ids
           /\ UNCHANGED statementId
  <2>1. Request("execute", s, statementId[s]) \in Requests
    BY <1>r, <1>s DEF Types
  <2> QED BY <1>3, <2>1 DEF NextRequest, Request
<1>4. CASE /\ st \in {"TO_START", "TO_SKIP"}
           /\ pipeline' = Append(requests, Request("plain", s, 0))
           /\ statements' = ids
           /\ UNCHANGED statementId
  <2>1. Request("plain", s, 0) \in Requests
    BY <1>r, <1>s DEF Types
  <2> QED BY <1>4, <2>1 DEF NextRequest, Request
<1> QED BY <1>1, <1>2, <1>3, <1>4 DEF Proceed

-----------------------------------------------------------------------------
(* Types.                                                                   *)

\* The initial state is typed.
LEMMA TypedInit == Init => Typed
<1> SUFFICES ASSUME Init PROVE Typed
    OBVIOUS
<1>1. prepared = [i \in {} |-> 0] /\ DOMAIN prepared = {}
  BY DEF Init
<1>2. scope \in [Stmts -> Scopes]
  BY PreparingAssumption DEF Init, Scopes
<1>3. stage \in [Stmts -> Stages] /\ statementId \in [Stmts -> 0 .. MaxIds]
  BY PreparingAssumption DEF Init, Stages
<1>4. pipeline \in Seq(Requests) /\ prepared \in [DOMAIN prepared -> Prepared]
  BY <1>1 DEF Init
<1> QED
  BY <1>2, <1>3, <1>4 DEF Init, Typed

\* A change of a statement changes its stage, its scope and the stage of its
\* limit only.
LEMMA ChangeTypes ==
    ASSUME Typed, NEW s \in Stmts, Change(s) \/ Limit(s) \/ LimitThrows(s) \/ Offset(s)
    PROVE  Typed'
<1>1. stage' \in [Stmts -> Stages]
  BY DEF Typed, Change, Limit, LimitThrows, Offset, ResetStage, Restarted, Reprepared, Stages
<1>2. limitStage' \in [Stmts -> {"TO_PREPARE", "TO_NOT_PREPARE"}]
  BY DEF Typed, Change, Limit, LimitThrows, Offset, ResetStage
<1>3. scope' \in [Stmts -> Scopes]
  <2>1. CASE Change(s)
    <3>1. scope[s] \in Scopes
      BY DEF Typed
    <3>2. [scope[s] EXCEPT !.version = @ + 1] \in Scopes
      BY <2>1, <3>1, PreparingAssumption DEF Change, Scopes
    <3>3. scope' = [scope EXCEPT ![s] = [scope[s] EXCEPT !.version = @ + 1]]
      BY <2>1 DEF Change
    <3> QED BY <3>2, <3>3 DEF Typed
  <2>2. CASE Limit(s)
    <3>1. [version |-> scope[s].version, count |-> TRUE,
           offset |-> IF s \in WithOffset THEN TRUE ELSE scope[s].offset] \in Scopes
      BY DEF Typed, Scopes
    <3> QED BY <2>2, <3>1 DEF Typed, Limit
  <2>3. CASE Offset(s)
    <3>1. [scope[s] EXCEPT !.offset = TRUE] \in Scopes
      BY DEF Typed, Scopes
    <3>2. scope' = [scope EXCEPT ![s] = [scope[s] EXCEPT !.offset = TRUE]]
      BY <2>3 DEF Offset
    <3> QED BY <3>1, <3>2 DEF Typed
  <2> QED BY <2>1, <2>2, <2>3 DEF Typed, LimitThrows
<1> QED
  BY <1>1, <1>2, <1>3
  DEF Typed, Change, Limit, LimitThrows, Offset, connectionVars, serverVars

\* What an execution asks first is a request of its statement.
LEMMA NextRequestTypes ==
    ASSUME Typed, NEW s \in Stmts, NEW st, NEW ids, ids \subseteq Ids,
           NEW r \in Requests, NextRequest(s, st, ids, r)
    PROVE  statementId' \in [Stmts -> 0 .. MaxIds] /\ statements' \subseteq Ids
           /\ ids \subseteq statements'
<1>1. r.id \in 0 .. MaxIds
  BY DEF Requests
<1> QED
  BY <1>1 DEF Typed, NextRequest

\* Requests that are sent behind typed ones are typed.
LEMMA RequestsTyped ==
    ASSUME Typed, NEW i \in DOMAIN pipeline
    PROVE  /\ pipeline[i] \in Requests
           /\ pipeline[i].stmt \in Stmts /\ pipeline[i].id \in 0 .. MaxIds
           /\ pipeline[i].scope \in Scopes /\ pipeline[i].type \in Types
<1>1. pipeline \in Seq(Requests)
  BY DEF Typed
<1>2. pipeline[i] \in Requests
  BY <1>1
<1> QED BY <1>2 DEF Requests

\* The first of the requests that wait is a request.
LEMMA RequestTypes ==
    ASSUME Typed, pipeline # <<>>
    PROVE  /\ R \in Requests /\ R = pipeline[1]
           /\ R.stmt \in Stmts /\ R.id \in 0 .. MaxIds
           /\ R.scope \in Scopes /\ R.type \in Types
           /\ 1 \in DOMAIN pipeline
           /\ Tail(pipeline) \in Seq(Requests)
<1>1. /\ R \in Requests /\ R = pipeline[1] /\ Tail(pipeline) \in Seq(Requests)
      /\ 1 \in DOMAIN pipeline
  BY Answered DEF Typed, R
<1> QED BY <1>1 DEF Requests

\* A use of a statement keeps the types.
LEMMA UseTypes ==
    ASSUME Typed, NEW s \in Stmts, Use(s) PROVE Typed'
<1>1. CASE Execute(s)
  <2>1. PICK r \in Requests :
            pipeline' = Append(pipeline, r) /\ NextRequest(s, stage[s], statements, r)
    BY <1>1, ProceedSends DEF Execute, Typed
  <2>2. pipeline' \in Seq(Requests)
    BY <2>1, Sent DEF Typed
  <2>3. /\ statementId' \in [Stmts -> 0 .. MaxIds] /\ statements' \subseteq Ids
        /\ statements \subseteq statements'
    BY <2>1, NextRequestTypes DEF Typed
  <2> QED
    BY <1>1, <2>2, <2>3 DEF Typed, Execute, serverVars
<1> QED
  BY <1>1, ChangeTypes DEF Use

\* So does each reply.
LEMMA AnswerTypes ==
    ASSUME Typed, Answer PROVE Typed'
<1>1. pipeline # <<>>
  BY DEF Answer, PlainDone, FallbackDone, PrepareDone, PrepareRefused, PrepareFails,
         ExecuteDone, DeallocateDone, DeallocateFails, Answering
<1>2. /\ R \in Requests /\ R.stmt \in Stmts /\ R.id \in 0 .. MaxIds
      /\ R.scope \in Scopes /\ Tail(pipeline) \in Seq(Requests)
  BY <1>1, RequestTypes
<1>3. CASE PlainDone
  BY <1>2, <1>3 DEF PlainDone, End, Typed, Stages, serverVars
<1>4. CASE FallbackDone \/ PrepareFails
  BY <1>2, <1>4 DEF FallbackDone, PrepareFails, End, Typed, stmtVars, serverVars
<1>5. CASE PrepareRefused
  <2>1. Request("fallback", R.stmt, 0) \in Requests
    <3>1. scope[R.stmt] \in Scopes
      BY <1>2 DEF Typed
    <3>2. 0 \in 0 .. MaxIds
      BY PreparingAssumption
    <3> QED BY <1>2, <3>1, <3>2 DEF Request, Requests, Types
  <2>2. pipeline' \in Seq(Requests)
    BY <1>2, <1>5, <2>1, Sent DEF PrepareRefused
  <2> QED
    BY <1>2, <1>5, <2>2 DEF PrepareRefused, Typed, Stages
<1>6. CASE ExecuteDone \/ DeallocateFails
  <2>1. misused' \subseteq Stmts \X {"unknown id", "arguments", "stale"}
    <3>1. Mistakes \subseteq {"unknown id", "arguments", "stale"}
      BY DEF Mistakes
    <3>2. \E mistakes \in SUBSET {"unknown id", "arguments", "stale"} : Complain(mistakes)
      BY <1>6, <3>1 DEF ExecuteDone, DeallocateFails
    <3> QED BY <1>2, <3>2 DEF Complain, Typed
  <2> QED
    BY <1>2, <1>6, <2>1 DEF ExecuteDone, DeallocateFails, End, Typed, stmtVars
<1>7. CASE PrepareDone
  <2>1. PICK r \in Requests :
            /\ pipeline' = Append(Tail(pipeline), r)
            /\ NextRequest(R.stmt, "TO_EXECUTE", statements, r)
    BY <1>2, <1>7, ProceedSends DEF PrepareDone, Typed
  <2>2. pipeline' \in Seq(Requests)
    BY <1>2, <2>1, Sent
  <2>3. prepared' \in [DOMAIN prepared' -> Prepared]
    BY <1>2, <1>7 DEF PrepareDone, PreparedWith, Typed, Prepared
  <2>4. DOMAIN prepared' = DOMAIN prepared \cup {R.id}
    BY <1>7 DEF PrepareDone, PreparedWith
  <2> QED
    BY <1>2, <1>7, <2>1, <2>2, <2>3, <2>4 DEF PrepareDone, Typed, Stages, NextRequest
<1>8. CASE DeallocateDone
  <2>1. RemoveId(statementId[R.stmt]) \subseteq Ids
    BY DEF RemoveId, Typed
  <2>2. PICK r \in Requests :
            /\ pipeline' = Append(Tail(pipeline), r)
            /\ NextRequest(R.stmt, AfterDeallocate(stage[R.stmt]),
                           RemoveId(statementId[R.stmt]), r)
    BY <1>2, <1>8, <2>1, ProceedSends DEF DeallocateDone
  <2>3. pipeline' \in Seq(Requests)
    BY <1>2, <2>2, Sent
  <2>4. prepared' \in [DOMAIN prepared' -> Prepared]
    BY <1>8 DEF DeallocateDone, Dropped, Typed
  <2>5. /\ statementId' \in [Stmts -> 0 .. MaxIds]
        /\ statements' \subseteq Ids
    BY <1>2, <2>1, <2>2, NextRequestTypes
  <2>6. stage' \in [Stmts -> Stages]
    BY <1>2, <1>8 DEF DeallocateDone, AfterDeallocate, Typed, Stages
  <2> QED
    BY <1>8, <2>3, <2>4, <2>5, <2>6 DEF DeallocateDone, Typed
<1> QED
  BY <1>3, <1>4, <1>5, <1>6, <1>7, <1>8 DEF Answer

-----------------------------------------------------------------------------
(* Ids.                                                                     *)

\* Nothing is owned before something is prepared.
LEMMA IdsInit == Init => IdsInv
  BY DEF Init, IdsInv, PreparesOwn, OutdatedWaits, TooLate, HoldersOwn, ExecutionsOwn,
         Holds

\* What an owner may lose its id by.
LEMMA OwnsKept ==
    ASSUME NEW s, NEW id, Owns(s, id),
           id \in statements',
           id \in DOMAIN prepared' => prepared'[id].stmt = s,
           \A i \in DOMAIN pipeline' :
              \/ \E j \in DOMAIN pipeline : pipeline'[i] = pipeline[j]
              \/ pipeline'[i].type = "prepare" /\ pipeline'[i].id = id =>
                    pipeline'[i].stmt = s
    PROVE  Owns(s, id)'
  BY DEF Owns

\* A change is made while the statement has no request under way.
LEMMA ChangeIds ==
    ASSUME Typed, IdsInv, NEW s \in Stmts,
           Change(s) \/ Limit(s) \/ LimitThrows(s) \/ Offset(s)
    PROVE  IdsInv'
<1>1. /\ UNCHANGED <<pipeline, prepared, statements, statementId>>
      /\ Idle(s)
  BY DEF Change, Limit, LimitThrows, Offset, connectionVars, serverVars
<1>2. /\ \A t \in Stmts \ {s} : stage'[t] = stage[t]
      /\ Holds(s)' => Holds(s)
  BY DEF Change, Limit, LimitThrows, Offset, ResetStage, Restarted, Reprepared, Typed, Holds
<1>3. \A i \in DOMAIN pipeline : pipeline[i].stmt \in Stmts \ {s}
  BY <1>1, RequestsTyped DEF Idle
<1>4. \A t \in Stmts, id \in 0 .. MaxIds : Owns(t, id)' <=> Owns(t, id)
  BY <1>1 DEF Owns
<1>5. \A t \in Stmts : statementId[t] \in 0 .. MaxIds
  BY DEF Typed
<1>6. PreparesOwn'
  BY <1>1 DEF IdsInv, PreparesOwn, Owns
<1>7. OutdatedWaits'
  BY <1>1, <1>2, <1>3 DEF IdsInv, OutdatedWaits, Outdated
<1>8. TooLate'
  BY <1>1, <1>2, <1>3 DEF IdsInv, TooLate, Outdated
<1>9. HoldersOwn'
  BY <1>1, <1>2, <1>4, <1>5 DEF IdsInv, HoldersOwn, Holds
<1>10. ExecutionsOwn'
  BY <1>1 DEF IdsInv, ExecutionsOwn, Owns
<1> QED
  BY <1>6, <1>7, <1>8, <1>9, <1>10 DEF IdsInv

\* The first request of an execution.
LEMMA ExecuteIds ==
    ASSUME Typed, IdsInv, NEW s \in Stmts, Execute(s) PROVE IdsInv'
<1> DEFINE n == Len(pipeline)
<1>1. PICK r \in Requests :
          pipeline' = Append(pipeline, r) /\ NextRequest(s, stage[s], statements, r)
  BY ProceedSends DEF Execute, Typed
<1>2. /\ n \in Nat /\ DOMAIN pipeline = 1 .. n /\ DOMAIN pipeline' = 1 .. n + 1
      /\ \A i \in 1 .. n : pipeline'[i] = pipeline[i]
      /\ pipeline'[n + 1] = r
  <2>1. pipeline \in Seq(Requests)
    BY DEF Typed
  <2> QED BY <1>1, <2>1, Sent
<1>3. UNCHANGED <<prepared, stage>> /\ statements \subseteq statements'
  BY <1>1 DEF Execute, NextRequest, serverVars
<1>4. r.stmt = s /\ (r.type = "prepare" => r.id \notin statements /\ r.id \in statements')
  BY <1>1 DEF NextRequest
<1> HIDE DEF n
<1>5. \A t, id : Owns(t, id) => Owns(t, id)'
  BY <1>2, <1>3, <1>4 DEF Owns
<1>6. \A t \in Stmts : t # s \/ r.type # "prepare" => statementId'[t] = statementId[t]
  BY <1>1 DEF NextRequest, Typed
<1>7. ASSUME r.type = "prepare"
      PROVE  Owns(s, r.id)' /\ statementId'[s] = r.id
  <2>1. statementId'[s] = r.id
    BY <1>1, <1>7 DEF NextRequest, Typed
  <2>2. r.id \notin DOMAIN prepared'
    BY <1>3, <1>4, <1>7 DEF IdsInv, PreparesOwn
  <2>3. \A i \in 1 .. n : pipeline[i].type = "prepare" => pipeline[i].id # r.id
    BY <1>2, <1>4, <1>7 DEF IdsInv, PreparesOwn
  <2> QED
    BY <1>2, <1>4, <1>7, <2>1, <2>2, <2>3 DEF Owns
<1>8. \A i \in 1 .. n : pipeline[i].stmt \in Stmts
  BY <1>2, RequestsTyped
<1>9. PreparesOwn'
  <2>1. DOMAIN prepared' \subseteq statements'
    BY <1>3 DEF IdsInv, PreparesOwn
  <2>2. ASSUME NEW i \in 1 .. n + 1, pipeline'[i].type = "prepare"
        PROVE  /\ pipeline'[i].id \in statements'
               /\ pipeline'[i].id \notin DOMAIN prepared'
               /\ \A j \in 1 .. n + 1 :
                     pipeline'[j].type = "prepare" /\ pipeline'[j].id = pipeline'[i].id
                        => i = j
    BY <1>2, <1>3, <1>4, <2>2 DEF IdsInv, PreparesOwn
  <2>3. ASSUME NEW i \in 1 .. n + 1, pipeline'[i].type = "prepare",
               NEW t, t = pipeline'[i].stmt, NEW id, id = statementId'[t]
        PROVE  Owns(t, id)'
    <3>1. CASE t = s /\ r.type = "prepare"
      BY <1>7, <2>3, <3>1
    <3>2. CASE ~(t = s /\ r.type = "prepare")
      <4>1. i \in 1 .. n /\ pipeline'[i] = pipeline[i]
        BY <1>2, <1>4, <2>3, <3>2
      <4>2. Owns(t, statementId[t])
        BY <1>2, <2>3, <4>1 DEF IdsInv, PreparesOwn
      <4>3. statementId[t] = id
        BY <1>6, <1>8, <2>3, <3>2, <4>1
      <4> QED BY <1>5, <4>2, <4>3
    <3> QED BY <3>1, <3>2
  <2> QED
    BY <1>2, <2>1, <2>2, <2>3 DEF PreparesOwn, Owns
<1>10. OutdatedWaits'
  <2>1. Outdated(s) => r.type = "deallocate" /\ r.id = statementId'[s]
    BY <1>1 DEF NextRequest, Outdated
  <2>2. \A t \in Stmts : Outdated(t) => statementId'[t] = statementId[t]
    BY <1>6, <2>1
  <2> QED
    BY <1>2, <1>3, <1>4, <1>8, <2>1, <2>2 DEF IdsInv, OutdatedWaits, Outdated
<1>11. TooLate'
  <2>1. r.type = "deallocate" => Outdated(s)
    BY <1>1 DEF NextRequest, Outdated
  <2> QED
    BY <1>2, <1>3, <1>4, <2>1 DEF IdsInv, TooLate, Outdated
<1>12. HoldersOwn'
  <2>1. Holds(s) => r.type # "prepare"
    BY <1>1 DEF NextRequest, Holds
  <2> QED
    BY <1>3, <1>5, <1>6, <2>1 DEF IdsInv, HoldersOwn, Holds
<1>13. ExecutionsOwn'
  <2>1. r.type = "execute" => Holds(s) /\ r.id = statementId[s]
    BY <1>1 DEF NextRequest, Holds
  <2>2. r.type = "execute" => Owns(s, r.id)
    BY <2>1 DEF IdsInv, HoldersOwn
  <2> QED
    BY <1>2, <1>4, <1>5, <2>2 DEF IdsInv, ExecutionsOwn
<1> QED
  BY <1>9, <1>10, <1>11, <1>12, <1>13 DEF IdsInv

\* The last reply of an execution: it may have become one that can be prepared.
LEMMA EndIds ==
    ASSUME Typed, IdsInv, pipeline # <<>>, End,
           UNCHANGED <<statementId, statements, prepared>>,
           \/ UNCHANGED stage
           \/ R.type = "plain" /\ stage' = [stage EXCEPT ![R.stmt] = "TO_PREPARE"]
    PROVE  IdsInv'
<1> DEFINE n == Len(pipeline)
<1>1. /\ n \in Nat \ {0} /\ DOMAIN pipeline = 1 .. n /\ DOMAIN pipeline' = 1 .. n - 1
      /\ \A i \in 1 .. n - 1 : i + 1 \in 1 .. n /\ pipeline'[i] = pipeline[i + 1]
  <2>1. pipeline \in Seq(Requests)
    BY DEF Typed
  <2> QED BY <2>1, Answered DEF End
<1> HIDE DEF n
<1>2. \A t, id : Owns(t, id) => Owns(t, id)'
  BY <1>1 DEF Owns
<1>3. R.stmt \in Stmts /\ R = pipeline[1]
  BY RequestTypes
<1>4. /\ \A t \in Stmts : stage'[t] = stage[t] \/ (t = R.stmt /\ stage'[t] = "TO_PREPARE")
      /\ \A t \in Stmts : Outdated(t)' <=> Outdated(t)
  <2>1. R.type = "plain" => ~Outdated(R.stmt)
    BY <1>1, <1>3 DEF IdsInv, OutdatedWaits
  <2> QED
    BY <1>3, <2>1 DEF Typed, Outdated
<1>5. \A i \in 1 .. n : pipeline[i].stmt \in Stmts
  BY <1>1, RequestsTyped
<1>6. PreparesOwn'
  <2>1. ASSUME NEW i \in 1 .. n - 1, pipeline'[i].type = "prepare",
               NEW t, t = pipeline'[i].stmt, NEW id, id = statementId'[t]
        PROVE  Owns(t, id)'
    BY <1>1, <1>2, <2>1 DEF IdsInv, PreparesOwn
  <2>2. ASSUME NEW i \in 1 .. n - 1, pipeline'[i].type = "prepare"
        PROVE  /\ pipeline'[i].id \in statements'
               /\ pipeline'[i].id \notin DOMAIN prepared'
               /\ \A j \in 1 .. n - 1 :
                     pipeline'[j].type = "prepare" /\ pipeline'[j].id = pipeline'[i].id
                        => i = j
    <3>1. \A j \in 1 .. n - 1 : i + 1 = j + 1 => i = j
      BY <1>1
    <3> QED BY <1>1, <2>2, <3>1 DEF IdsInv, PreparesOwn
  <2> QED
    BY <1>1, <2>1, <2>2 DEF IdsInv, PreparesOwn, Owns
<1>7. OutdatedWaits'
  BY <1>1, <1>4, <1>5 DEF IdsInv, OutdatedWaits
<1>8. TooLate'
  <2>1. ASSUME NEW i \in 1 .. n - 1, pipeline'[i].type = "deallocate",
               NEW t, t = pipeline'[i].stmt, ~Outdated(t)'
        PROVE  /\ pipeline'[i].id \notin DOMAIN prepared'
               /\ \A j \in 1 .. i - 1 :
                     pipeline'[j].type = "prepare" => pipeline'[j].id # pipeline'[i].id
    <3>1. /\ pipeline[i + 1].id \notin DOMAIN prepared
          /\ \A j \in 1 .. i :
                pipeline[j].type = "prepare" => pipeline[j].id # pipeline[i + 1].id
      <4>1. t = pipeline[i + 1].stmt /\ ~Outdated(t)
        BY <1>1, <1>4, <1>5, <2>1
      <4>2. (i + 1) - 1 = i
        OBVIOUS
      <4> QED BY <1>1, <2>1, <4>1, <4>2 DEF IdsInv, TooLate
    <3>2. \A j \in 1 .. i - 1 : j + 1 \in 1 .. i /\ pipeline'[j] = pipeline[j + 1]
      BY <1>1
    <3> QED BY <1>1, <3>1, <3>2
  <2> QED BY <1>1, <2>1 DEF TooLate, Outdated
<1>9. HoldersOwn'
  BY <1>2, <1>4 DEF IdsInv, HoldersOwn, Holds
<1>10. ExecutionsOwn'
  BY <1>1, <1>2 DEF IdsInv, ExecutionsOwn
<1> QED
  BY <1>6, <1>7, <1>8, <1>9, <1>10 DEF IdsInv

\* The first request is answered and the execution goes on with another one.
LEMMA GoesOn ==
    ASSUME Typed, pipeline # <<>>, NEW r \in Requests,
           pipeline' = Append(Tail(pipeline), r)
    PROVE  /\ Len(pipeline) \in Nat \ {0} /\ DOMAIN pipeline = 1 .. Len(pipeline)
           /\ DOMAIN pipeline' = 1 .. Len(pipeline)
           /\ \A i \in 1 .. Len(pipeline) :
                 \/ i = Len(pipeline) /\ pipeline'[i] = r
                 \/ /\ i \in 1 .. Len(pipeline) - 1 /\ i + 1 \in 1 .. Len(pipeline)
                    /\ pipeline'[i] = pipeline[i + 1]
<1>1. pipeline \in Seq(Requests) /\ Tail(pipeline) \in Seq(Requests)
  BY RequestTypes DEF Typed
<1> QED BY <1>1

\* A server that cannot prepare: the statement goes as it is from now on.
LEMMA PrepareRefusedIds ==
    ASSUME Typed, IdsInv, PrepareRefused PROVE IdsInv'
<1> DEFINE n == Len(pipeline)
           r == Request("fallback", R.stmt, 0)
<1>1. pipeline # <<>> /\ R.type = "prepare"
  BY DEF PrepareRefused, Answering, R
<1>2. R.stmt \in Stmts /\ R = pipeline[1]
  BY <1>1, RequestTypes
<1>3. r \in Requests /\ r.stmt = R.stmt /\ r.type = "fallback"
  <2>1. scope[R.stmt] \in Scopes
    BY <1>2 DEF Typed
  <2>2. 0 \in 0 .. MaxIds
    BY PreparingAssumption
  <2> QED BY <1>2, <2>1, <2>2 DEF Request, Requests, Types
<1> HIDE DEF r
<1>4. /\ n \in Nat \ {0} /\ DOMAIN pipeline = 1 .. n /\ DOMAIN pipeline' = 1 .. n
      /\ \A i \in 1 .. n :
            \/ i = n /\ pipeline'[i] = r
            \/ i \in 1 .. n - 1 /\ i + 1 \in 1 .. n /\ pipeline'[i] = pipeline[i + 1]
  BY <1>1, <1>3, GoesOn DEF PrepareRefused, r
<1> HIDE DEF n
<1>5. UNCHANGED <<statementId, statements, prepared>>
  BY DEF PrepareRefused
<1>6. \A t, id : Owns(t, id) => Owns(t, id)'
  BY <1>3, <1>4, <1>5 DEF Owns
<1>7. /\ stage'[R.stmt] = "TO_SKIP" /\ ~Outdated(R.stmt)
      /\ \A t \in Stmts \ {R.stmt} : stage'[t] = stage[t]
      /\ \A t \in Stmts : Outdated(t)' <=> Outdated(t)
  <2>1. ~Outdated(R.stmt)
    BY <1>1, <1>2, <1>4 DEF IdsInv, OutdatedWaits
  <2> QED
    BY <1>2, <2>1 DEF PrepareRefused, Typed, Outdated
<1>8. \A i \in 1 .. n : pipeline[i].stmt \in Stmts
  BY <1>4, RequestsTyped
<1>9. PreparesOwn'
  <2>1. ASSUME NEW i \in 1 .. n, pipeline'[i].type = "prepare",
               NEW t, t = pipeline'[i].stmt, NEW id, id = statementId'[t]
        PROVE  Owns(t, id)'
    BY <1>3, <1>4, <1>5, <1>6, <2>1 DEF IdsInv, PreparesOwn
  <2>2. ASSUME NEW i \in 1 .. n, pipeline'[i].type = "prepare"
        PROVE  /\ pipeline'[i].id \in statements'
               /\ pipeline'[i].id \notin DOMAIN prepared'
               /\ \A j \in 1 .. n :
                     pipeline'[j].type = "prepare" /\ pipeline'[j].id = pipeline'[i].id
                        => i = j
    <3>1. \A j \in 1 .. n : pipeline'[j].type = "prepare" =>
             j + 1 \in 1 .. n /\ pipeline'[j] = pipeline[j + 1]
      BY <1>3, <1>4
    <3>2. i + 1 \in 1 .. n /\ pipeline'[i] = pipeline[i + 1]
      BY <2>2, <3>1
    <3>3. ASSUME NEW j \in 1 .. n, pipeline'[j].type = "prepare",
                 pipeline'[j].id = pipeline'[i].id
          PROVE  i = j
      <4>1. i + 1 = j + 1
        BY <1>4, <2>2, <3>1, <3>2, <3>3 DEF IdsInv, PreparesOwn
      <4> QED BY <4>1
    <3> QED BY <1>4, <1>5, <2>2, <3>2, <3>3 DEF IdsInv, PreparesOwn
  <2> QED
    BY <1>4, <1>5, <2>1, <2>2 DEF IdsInv, PreparesOwn, Owns
<1>10. OutdatedWaits'
  <2>1. ASSUME NEW i \in 1 .. n, NEW t, t = pipeline'[i].stmt, Outdated(t)'
        PROVE  pipeline'[i].type = "deallocate" /\ pipeline'[i].id = statementId'[t]
    <3>1. i + 1 \in 1 .. n /\ pipeline'[i] = pipeline[i + 1]
      BY <1>2, <1>3, <1>4, <1>7, <2>1
    <3>2. Outdated(t)
      BY <1>7, <1>8, <2>1, <3>1
    <3> QED BY <1>4, <1>5, <2>1, <3>1, <3>2 DEF IdsInv, OutdatedWaits
  <2> QED BY <1>4, <2>1 DEF OutdatedWaits, Outdated
<1>11. TooLate'
  <2>1. ASSUME NEW i \in 1 .. n, pipeline'[i].type = "deallocate",
               NEW t, t = pipeline'[i].stmt, ~Outdated(t)'
        PROVE  /\ pipeline'[i].id \notin DOMAIN prepared'
               /\ \A j \in 1 .. i - 1 :
                     pipeline'[j].type = "prepare" => pipeline'[j].id # pipeline'[i].id
    <3>1. i \in 1 .. n - 1 /\ i + 1 \in 1 .. n /\ pipeline'[i] = pipeline[i + 1]
      BY <1>3, <1>4, <2>1
    <3>2. /\ pipeline[i + 1].id \notin DOMAIN prepared
          /\ \A j \in 1 .. i :
                pipeline[j].type = "prepare" => pipeline[j].id # pipeline[i + 1].id
      <4>1. t = pipeline[i + 1].stmt /\ ~Outdated(t)
        BY <1>7, <1>8, <2>1, <3>1
      <4>2. (i + 1) - 1 = i
        OBVIOUS
      <4> QED BY <1>4, <2>1, <3>1, <4>1, <4>2 DEF IdsInv, TooLate
    <3>3. \A j \in 1 .. i - 1 : j + 1 \in 1 .. i /\ pipeline'[j] = pipeline[j + 1]
      BY <1>4, <3>1
    <3> QED BY <1>5, <3>1, <3>2, <3>3
  <2> QED BY <1>4, <2>1 DEF TooLate, Outdated
<1>12. HoldersOwn'
  BY <1>2, <1>5, <1>6, <1>7 DEF IdsInv, HoldersOwn, Holds
<1>13. ExecutionsOwn'
  BY <1>3, <1>4, <1>6 DEF IdsInv, ExecutionsOwn
<1> QED
  BY <1>9, <1>10, <1>11, <1>12, <1>13 DEF IdsInv

\* The server has taken the id, which was the statement's alone on its way.
LEMMA PrepareDoneIds ==
    ASSUME Typed, IdsInv, PrepareDone PROVE IdsInv'
<1> DEFINE n == Len(pipeline)
           s == R.stmt
<1>1. pipeline # <<>> /\ R.type = "prepare"
  BY DEF PrepareDone, Answering, R
<1>2. s \in Stmts /\ R = pipeline[1] /\ 1 \in DOMAIN pipeline
  BY <1>1, RequestTypes
<1>3. PICK r \in Requests :
          /\ pipeline' = Append(Tail(pipeline), r)
          /\ NextRequest(s, "TO_EXECUTE", statements, r)
  BY <1>2, ProceedSends DEF PrepareDone, Typed
<1>4. /\ n \in Nat \ {0} /\ DOMAIN pipeline = 1 .. n /\ DOMAIN pipeline' = 1 .. n
      /\ \A i \in 1 .. n :
            \/ i = n /\ pipeline'[i] = r
            \/ i \in 1 .. n - 1 /\ i + 1 \in 1 .. n /\ pipeline'[i] = pipeline[i + 1]
  BY <1>1, <1>3, GoesOn
<1>5. /\ r.type = "execute" /\ r.stmt = s /\ r.id = statementId[s]
      /\ UNCHANGED <<statementId, statements>>
  BY <1>3 DEF NextRequest
<1>6. /\ stage'[s] = "TO_EXECUTE"
      /\ \A t \in Stmts \ {s} : stage'[t] = stage[t]
      /\ \A t \in Stmts : Outdated(t)' <=> Outdated(t)
  <2>1. ~Outdated(s)
    BY <1>1, <1>2, <1>4 DEF IdsInv, OutdatedWaits
  <2> QED
    BY <1>2, <2>1 DEF PrepareDone, Typed, Outdated
<1>7. /\ DOMAIN prepared' = DOMAIN prepared \cup {R.id}
      /\ prepared'[R.id].stmt = s
      /\ \A id \in DOMAIN prepared \ {R.id} : prepared'[id] = prepared[id]
  BY DEF PrepareDone, PreparedWith
<1>8. \A i \in 1 .. n : pipeline[i].stmt \in Stmts
  BY <1>4, RequestsTyped
<1>9. R.id \in statements /\ Owns(s, statementId[s])
  <2>1. 1 \in DOMAIN pipeline /\ pipeline[1].type = "prepare"
    BY <1>1, <1>2
  <2>2. pipeline[1].id \in statements /\ Owns(pipeline[1].stmt, statementId[pipeline[1].stmt])
    BY <2>1 DEF IdsInv, PreparesOwn
  <2> QED BY <1>2, <2>2
<1> HIDE DEF n, s
<1>10. ASSUME NEW t, NEW id, Owns(t, id) PROVE Owns(t, id)'
  <2>1. id = R.id => t = s
    BY <1>1, <1>2, <1>4, <1>10 DEF Owns, s
  <2> QED
    BY <1>4, <1>5, <1>7, <1>10, <2>1 DEF Owns
<1>11. \A j \in 1 .. n : pipeline'[j].type = "prepare" =>
          j + 1 \in 1 .. n /\ pipeline'[j] = pipeline[j + 1] /\ j + 1 # 1
  BY <1>4, <1>5
<1>12. PreparesOwn'
  <2>1. ASSUME NEW i \in 1 .. n, pipeline'[i].type = "prepare",
               NEW t, t = pipeline'[i].stmt, NEW id, id = statementId'[t]
        PROVE  Owns(t, id)'
    BY <1>4, <1>5, <1>10, <1>11, <2>1 DEF IdsInv, PreparesOwn
  <2>2. ASSUME NEW i \in 1 .. n, pipeline'[i].type = "prepare"
        PROVE  /\ pipeline'[i].id \in statements'
               /\ pipeline'[i].id \notin DOMAIN prepared'
               /\ \A j \in 1 .. n :
                     pipeline'[j].type = "prepare" /\ pipeline'[j].id = pipeline'[i].id
                        => i = j
    <3>1. i + 1 \in 1 .. n /\ pipeline'[i] = pipeline[i + 1] /\ i + 1 # 1
      BY <1>11, <2>2
    <3>2. ASSUME NEW j \in 1 .. n, pipeline'[j].type = "prepare",
                 pipeline'[j].id = pipeline'[i].id
          PROVE  i = j
      <4>1. i + 1 = j + 1
        BY <1>4, <1>11, <2>2, <3>1, <3>2 DEF IdsInv, PreparesOwn
      <4> QED BY <4>1
    <3>3. 1 \in 1 .. n
      BY <1>4
    <3>4. pipeline[i + 1].id # R.id
      BY <1>1, <1>2, <1>4, <2>2, <3>1, <3>3 DEF IdsInv, PreparesOwn
    <3> QED
      BY <1>4, <1>5, <1>7, <2>2, <3>1, <3>2, <3>4 DEF IdsInv, PreparesOwn
  <2>3. DOMAIN prepared' \subseteq statements'
    BY <1>5, <1>7, <1>9 DEF IdsInv, PreparesOwn
  <2> QED
    BY <1>4, <2>1, <2>2, <2>3 DEF PreparesOwn, Owns
<1>13. OutdatedWaits'
  <2>1. ASSUME NEW i \in 1 .. n, NEW t, t = pipeline'[i].stmt, Outdated(t)'
        PROVE  pipeline'[i].type = "deallocate" /\ pipeline'[i].id = statementId'[t]
    <3>1. i + 1 \in 1 .. n /\ pipeline'[i] = pipeline[i + 1]
      BY <1>4, <1>5, <1>6, <2>1 DEF Outdated
    <3>2. Outdated(t)
      BY <1>6, <1>8, <2>1, <3>1
    <3> QED BY <1>4, <1>5, <2>1, <3>1, <3>2 DEF IdsInv, OutdatedWaits
  <2> QED BY <1>4, <2>1 DEF OutdatedWaits, Outdated
<1>14. TooLate'
  <2>1. ASSUME NEW i \in 1 .. n, pipeline'[i].type = "deallocate",
               NEW t, t = pipeline'[i].stmt, ~Outdated(t)'
        PROVE  /\ pipeline'[i].id \notin DOMAIN prepared'
               /\ \A j \in 1 .. i - 1 :
                     pipeline'[j].type = "prepare" => pipeline'[j].id # pipeline'[i].id
    <3>1. i \in 1 .. n - 1 /\ i + 1 \in 1 .. n /\ pipeline'[i] = pipeline[i + 1]
      BY <1>4, <1>5, <2>1
    <3>2. /\ pipeline[i + 1].id \notin DOMAIN prepared
          /\ \A j \in 1 .. i :
                pipeline[j].type = "prepare" => pipeline[j].id # pipeline[i + 1].id
      <4>1. t = pipeline[i + 1].stmt /\ ~Outdated(t)
        BY <1>6, <1>8, <2>1, <3>1
      <4>2. (i + 1) - 1 = i
        OBVIOUS
      <4> QED BY <1>4, <2>1, <3>1, <4>1, <4>2 DEF IdsInv, TooLate
    <3>3. \A j \in 1 .. i - 1 : j + 1 \in 1 .. i /\ pipeline'[j] = pipeline[j + 1]
      BY <1>4, <3>1
    <3>4. pipeline[i + 1].id # R.id
      BY <1>1, <1>2, <3>1, <3>2
    <3> QED BY <1>7, <3>1, <3>2, <3>3, <3>4
  <2> QED BY <1>4, <2>1 DEF TooLate, Outdated
<1>15. HoldersOwn'
  <2>1. ASSUME NEW t \in Stmts, Holds(t)', NEW id, id = statementId'[t]
        PROVE  Owns(t, id)'
    <3>1. Owns(t, statementId[t])
      BY <1>6, <1>9, <2>1 DEF IdsInv, HoldersOwn, Holds
    <3> QED BY <1>5, <1>10, <2>1, <3>1
  <2> QED BY <2>1 DEF HoldersOwn, Owns
<1>16. ExecutionsOwn'
  <2>1. ASSUME NEW i \in 1 .. n, pipeline'[i].type = "execute",
               NEW t, t = pipeline'[i].stmt, NEW id, id = pipeline'[i].id
        PROVE  Owns(t, id)'
    BY <1>4, <1>5, <1>9, <1>10, <2>1 DEF IdsInv, ExecutionsOwn
  <2> QED BY <1>4, <2>1 DEF ExecutionsOwn, Owns
<1> QED
  BY <1>12, <1>13, <1>14, <1>15, <1>16 DEF IdsInv

\* The server has given the id back, and so has the connection.
LEMMA DeallocateDoneIds ==
    ASSUME Typed, IdsInv, DeallocateDone PROVE IdsInv'
<1> DEFINE n == Len(pipeline)
           s == R.stmt
           given == R.id
           ids == RemoveId(statementId[s])
<1>1. pipeline # <<>> /\ R.type = "deallocate" /\ given \in DOMAIN prepared
  BY DEF DeallocateDone, Answering, R
<1>2. s \in Stmts /\ R = pipeline[1] /\ 1 \in DOMAIN pipeline
  BY <1>1, RequestTypes
<1>3. PICK r \in Requests :
          /\ pipeline' = Append(Tail(pipeline), r)
          /\ NextRequest(s, AfterDeallocate(stage[s]), ids, r)
  BY <1>2, ProceedSends DEF DeallocateDone, Typed, RemoveId
<1>4. /\ n \in Nat \ {0} /\ DOMAIN pipeline = 1 .. n /\ DOMAIN pipeline' = 1 .. n
      /\ \A i \in 1 .. n :
            \/ i = n /\ pipeline'[i] = r
            \/ i \in 1 .. n - 1 /\ i + 1 \in 1 .. n /\ pipeline'[i] = pipeline[i + 1]
  BY <1>1, <1>3, GoesOn
<1>5. Outdated(s) /\ given = statementId[s]
  <2>1. 1 \in DOMAIN pipeline /\ pipeline[1].type = "deallocate"
        /\ pipeline[1].id \in DOMAIN prepared
    BY <1>1, <1>2
  <2>2. Outdated(pipeline[1].stmt)
    BY <2>1 DEF IdsInv, TooLate
  <2>3. pipeline[1].id = statementId[pipeline[1].stmt]
    BY <2>1, <2>2 DEF IdsInv, OutdatedWaits
  <2> QED BY <1>2, <2>2, <2>3
<1>6. Owns(s, given)
  BY <1>2, <1>5 DEF IdsInv, HoldersOwn, Holds, Outdated
<1>7. /\ stage'[s] \in {"TO_START", "TO_PREPARE"} /\ stage'[s] = AfterDeallocate(stage[s])
      /\ \A t \in Stmts \ {s} : stage'[t] = stage[t]
  BY <1>2, <1>5 DEF DeallocateDone, Typed, AfterDeallocate, Outdated
<1>8. /\ r.stmt = s /\ r.type \in {"plain", "prepare"}
      /\ ids \subseteq statements' /\ ids = statements \ {given}
      /\ r.type = "prepare" =>
            r.id \notin ids /\ r.id \in statements' /\ statementId'[s] = r.id
      /\ \A t \in Stmts \ {s} : statementId'[t] = statementId[t]
  BY <1>2, <1>3, <1>5, <1>7 DEF NextRequest, RemoveId, Typed
<1>9. /\ DOMAIN prepared' = DOMAIN prepared \ {given}
      /\ \A id \in DOMAIN prepared' : prepared'[id] = prepared[id]
  BY DEF DeallocateDone, Dropped
<1>10. \A i \in 1 .. n : pipeline[i].stmt \in Stmts
  BY <1>4, RequestsTyped
<1>11. \A i \in 1 .. n : pipeline[i].stmt = s =>
          pipeline[i].type = "deallocate" /\ pipeline[i].id = given
  BY <1>4, <1>5 DEF IdsInv, OutdatedWaits
<1>12. \A t, id : Owns(t, id) /\ t # s => id # given
  BY <1>1, <1>6 DEF Owns
<1> HIDE DEF n, s, given, ids
<1>13. ASSUME NEW t, NEW id, t # s, Owns(t, id) PROVE Owns(t, id)'
  <2>1. id # given /\ id \in ids
    BY <1>8, <1>12, <1>13 DEF Owns
  <2> QED
    BY <1>4, <1>8, <1>9, <1>13, <2>1 DEF Owns
<1>14. DOMAIN prepared' \subseteq ids
  BY <1>8, <1>9 DEF IdsInv, PreparesOwn
<1>15. \A i \in 1 .. n : pipeline[i].type = "prepare" =>
          pipeline[i].id \in ids /\ pipeline[i].id \notin DOMAIN prepared
  BY <1>1, <1>4, <1>8 DEF IdsInv, PreparesOwn
<1>16. \A j \in 1 .. n : pipeline'[j].type = "prepare" =>
          \/ j = n /\ pipeline'[j] = r
          \/ j + 1 \in 1 .. n /\ pipeline'[j] = pipeline[j + 1]
  BY <1>4
<1>17. PreparesOwn'
  <2>1. ASSUME NEW i \in 1 .. n, pipeline'[i].type = "prepare",
               NEW t, t = pipeline'[i].stmt, NEW id, id = statementId'[t]
        PROVE  Owns(t, id)'
    <3>1. CASE t = s
      <4>1. i = n /\ pipeline'[i] = r
        BY <1>11, <1>16, <2>1, <3>1
      <4>2. id = r.id /\ r.id \notin DOMAIN prepared'
        BY <1>8, <1>14, <2>1, <3>1, <4>1
      <4>3. \A j \in 1 .. n : pipeline'[j].type = "prepare" /\ pipeline'[j].id = id =>
               pipeline'[j].stmt = s
        BY <1>8, <1>15, <1>16, <2>1, <4>1, <4>2
      <4> QED BY <1>4, <1>8, <2>1, <3>1, <4>1, <4>2, <4>3 DEF Owns
    <3>2. CASE t # s
      <4>1. i + 1 \in 1 .. n /\ pipeline'[i] = pipeline[i + 1]
        BY <1>8, <1>16, <2>1, <3>2
      <4>2. Owns(t, statementId[t])
        BY <1>4, <2>1, <4>1 DEF IdsInv, PreparesOwn
      <4>3. statementId'[t] = statementId[t]
        BY <1>8, <1>10, <2>1, <3>2, <4>1
      <4> QED BY <1>13, <2>1, <3>2, <4>2, <4>3
    <3> QED BY <3>1, <3>2
  <2>2. ASSUME NEW i \in 1 .. n, pipeline'[i].type = "prepare"
        PROVE  /\ pipeline'[i].id \in statements'
               /\ pipeline'[i].id \notin DOMAIN prepared'
               /\ \A j \in 1 .. n :
                     pipeline'[j].type = "prepare" /\ pipeline'[j].id = pipeline'[i].id
                        => i = j
    <3>1. pipeline'[i].id \in statements' /\ pipeline'[i].id \notin DOMAIN prepared'
      BY <1>8, <1>9, <1>14, <1>15, <1>16, <2>2
    <3>2. ASSUME NEW j \in 1 .. n, pipeline'[j].type = "prepare",
                 pipeline'[j].id = pipeline'[i].id
          PROVE  i = j
      <4>1. CASE i = n /\ pipeline'[i] = r
        BY <1>8, <1>15, <1>16, <2>2, <3>2, <4>1
      <4>2. CASE i + 1 \in 1 .. n /\ pipeline'[i] = pipeline[i + 1]
        <5>1. j + 1 \in 1 .. n /\ pipeline'[j] = pipeline[j + 1]
          BY <1>8, <1>15, <1>16, <2>2, <3>2, <4>2
        <5>2. i + 1 = j + 1
          BY <1>4, <2>2, <3>2, <4>2, <5>1 DEF IdsInv, PreparesOwn
        <5> QED BY <5>2
      <4> QED BY <1>16, <2>2, <4>1, <4>2
    <3> QED BY <3>1, <3>2
  <2>3. DOMAIN prepared' \subseteq statements'
    BY <1>8, <1>14
  <2> QED
    BY <1>4, <2>1, <2>2, <2>3 DEF PreparesOwn, Owns
<1>18. OutdatedWaits'
  <2>1. ASSUME NEW i \in 1 .. n, NEW t, t = pipeline'[i].stmt, Outdated(t)'
        PROVE  pipeline'[i].type = "deallocate" /\ pipeline'[i].id = statementId'[t]
    <3>1. t # s
      BY <1>7, <2>1 DEF Outdated
    <3>2. i + 1 \in 1 .. n /\ pipeline'[i] = pipeline[i + 1]
      BY <1>4, <1>8, <2>1, <3>1
    <3>3. t \in Stmts /\ Outdated(t) /\ statementId'[t] = statementId[t]
      BY <1>7, <1>8, <1>10, <2>1, <3>1, <3>2 DEF Outdated
    <3> QED BY <1>4, <2>1, <3>2, <3>3 DEF IdsInv, OutdatedWaits
  <2> QED BY <1>4, <2>1 DEF OutdatedWaits, Outdated
<1>19. TooLate'
  <2>1. ASSUME NEW i \in 1 .. n, pipeline'[i].type = "deallocate",
               NEW t, t = pipeline'[i].stmt, ~Outdated(t)'
        PROVE  /\ pipeline'[i].id \notin DOMAIN prepared'
               /\ \A j \in 1 .. i - 1 :
                     pipeline'[j].type = "prepare" => pipeline'[j].id # pipeline'[i].id
    <3>1. i \in 1 .. n - 1 /\ i + 1 \in 1 .. n /\ pipeline'[i] = pipeline[i + 1]
      BY <1>4, <1>8, <2>1
    <3>2. \A j \in 1 .. i - 1 :
             j + 1 \in 1 .. i /\ j + 1 \in 1 .. n /\ pipeline'[j] = pipeline[j + 1]
      BY <1>4, <3>1
    <3>3. CASE t = s
      <4>1. pipeline'[i].id = given
        BY <1>11, <2>1, <3>1, <3>3
      <4> QED BY <1>8, <1>9, <1>15, <3>2, <4>1
    <3>4. CASE t # s
      <4>1. t = pipeline[i + 1].stmt /\ ~Outdated(t)
        BY <1>7, <1>10, <2>1, <3>1, <3>4 DEF Outdated
      <4>2. (i + 1) - 1 = i
        OBVIOUS
      <4>3. /\ pipeline[i + 1].id \notin DOMAIN prepared
            /\ \A j \in 1 .. i :
                  pipeline[j].type = "prepare" => pipeline[j].id # pipeline[i + 1].id
        BY <1>4, <2>1, <3>1, <4>1, <4>2 DEF IdsInv, TooLate
      <4> QED BY <1>9, <3>1, <3>2, <4>3
    <3> QED BY <3>3, <3>4
  <2> QED BY <1>4, <2>1 DEF TooLate, Outdated
<1>20. HoldersOwn'
  <2>1. ASSUME NEW t \in Stmts, Holds(t)', NEW id, id = statementId'[t]
        PROVE  Owns(t, id)'
    <3>1. t # s
      BY <1>7, <2>1 DEF Holds
    <3>2. Owns(t, statementId[t])
      BY <1>7, <2>1, <3>1 DEF IdsInv, HoldersOwn, Holds
    <3> QED BY <1>8, <1>13, <2>1, <3>1, <3>2
  <2> QED BY <2>1 DEF HoldersOwn, Owns
<1>21. ExecutionsOwn'
  <2>1. ASSUME NEW i \in 1 .. n, pipeline'[i].type = "execute",
               NEW t, t = pipeline'[i].stmt, NEW id, id = pipeline'[i].id
        PROVE  Owns(t, id)'
    <3>1. i + 1 \in 1 .. n /\ pipeline'[i] = pipeline[i + 1]
      BY <1>4, <1>8, <2>1
    <3>2. Owns(t, id) /\ t # s
      BY <1>4, <1>11, <2>1, <3>1 DEF IdsInv, ExecutionsOwn
    <3> QED BY <1>13, <3>2
  <2> QED BY <1>4, <2>1 DEF ExecutionsOwn, Owns
<1> QED
  BY <1>17, <1>18, <1>19, <1>20, <1>21 DEF IdsInv

\* The replies, one by one.
LEMMA AnswerIds ==
    ASSUME Typed, IdsInv, Answer PROVE IdsInv'
<1>1. pipeline # <<>>
  BY DEF Answer, PlainDone, FallbackDone, PrepareDone, PrepareRefused, PrepareFails,
         ExecuteDone, DeallocateDone, DeallocateFails, Answering
<1>2. CASE PlainDone
  <2>1. R.type = "plain" /\ R.stmt \in Stmts
    BY <1>1, <1>2, RequestTypes DEF PlainDone, Answering, R
  <2>2. \/ UNCHANGED stage
        \/ stage' = [stage EXCEPT ![R.stmt] = "TO_PREPARE"]
    <3>1. CASE stage[R.stmt] = "TO_SKIP"
      BY <1>2, <2>1, <3>1 DEF PlainDone, Typed
    <3>2. CASE stage[R.stmt] # "TO_SKIP"
      BY <1>2, <2>1, <3>2 DEF PlainDone, Typed
    <3> QED BY <3>1, <3>2
  <2> QED BY <1>1, <1>2, <2>1, <2>2, EndIds DEF PlainDone, serverVars
<1>3. CASE FallbackDone \/ PrepareFails \/ ExecuteDone \/ DeallocateFails
  BY <1>1, <1>3, EndIds
  DEF FallbackDone, PrepareFails, ExecuteDone, DeallocateFails, stmtVars, serverVars
<1> QED
  BY <1>2, <1>3, PrepareDoneIds, PrepareRefusedIds, DeallocateDoneIds DEF Answer

\* What leaves the statements and the requests alone leaves the ids alone.
LEMMA UnchangedIds ==
    ASSUME Typed, IdsInv, UNCHANGED vars PROVE Typed' /\ IdsInv'
<1> USE DEF vars, stmtVars, connectionVars, serverVars
<1>1. Typed'
  BY DEF Typed
<1>2. PreparesOwn' /\ HoldersOwn' /\ ExecutionsOwn'
  BY DEF IdsInv, PreparesOwn, HoldersOwn, ExecutionsOwn, Owns, Holds
<1>3. OutdatedWaits' /\ TooLate'
  BY DEF IdsInv, OutdatedWaits, TooLate, Outdated
<1> QED BY <1>1, <1>2, <1>3 DEF IdsInv

\* Every step keeps the types and the ids.
LEMMA IdsStep == Typed /\ IdsInv /\ [Next]_vars => Typed' /\ IdsInv'
<1> SUFFICES ASSUME Typed, IdsInv, [Next]_vars PROVE Typed' /\ IdsInv'
    OBVIOUS
<1>1. ASSUME NEW s \in Stmts, Use(s) PROVE Typed' /\ IdsInv'
  BY <1>1, UseTypes, ChangeIds, ExecuteIds DEF Use
<1>2. CASE Answer
  BY <1>2, AnswerTypes, AnswerIds
<1>3. CASE UNCHANGED vars
  BY <1>3, UnchangedIds
<1> QED BY <1>1, <1>2, <1>3 DEF Next

\* The ids are kept in every behaviour.
LEMMA IdsInvariant == Spec => [](Typed /\ IdsInv)
  BY TypedInit, IdsInit, IdsStep, PTL DEF Spec

\* Preparing never gives the server an id that it has: whatever races and
\* failures there are, the list of ids of the connection (Connection#
\* addPreparedStatement and removePreparedStatement) covers what is prepared.
THEOREM NoReplacement == Spec => NeverReplaced
<1>1. ASSUME Typed, IdsInv, [Next]_vars
      PROVE  [\A id \in DOMAIN prepared \cap DOMAIN prepared' :
                 prepared'[id] = prepared[id]]_vars
  <2>1. CASE PrepareDone
    <3>1. /\ pipeline # <<>> /\ R.type = "prepare"
      BY <2>1 DEF PrepareDone, Answering, R
    <3>2. R = pipeline[1] /\ 1 \in DOMAIN pipeline
      BY <1>1, <3>1, RequestTypes
    <3>3. R.id \notin DOMAIN prepared
      BY <1>1, <3>1, <3>2 DEF IdsInv, PreparesOwn
    <3> QED BY <2>1, <3>3 DEF PrepareDone, PreparedWith
  <2>2. CASE DeallocateDone
    BY <2>2 DEF DeallocateDone, Dropped
  <2>3. CASE PlainDone \/ FallbackDone \/ PrepareRefused \/ PrepareFails
             \/ ExecuteDone \/ DeallocateFails
    BY <2>3 DEF PlainDone, FallbackDone, PrepareRefused, PrepareFails, ExecuteDone,
                DeallocateFails, serverVars
  <2>4. ASSUME NEW s \in Stmts, Use(s) PROVE prepared' = prepared
    BY <2>4 DEF Use, Change, Limit, LimitThrows, Offset, Execute, serverVars
  <2> QED
    BY <1>1, <2>1, <2>2, <2>3, <2>4 DEF Next, Answer
<1> QED BY IdsInvariant, <1>1, PTL DEF Spec, NeverReplaced

-----------------------------------------------------------------------------
(* Care.                                                                    *)

\* No statement has been used yet.
LEMMA CarefulInit == Init => CarefulInv
<1> SUFFICES ASSUME Init PROVE CarefulInv
    OBVIOUS
<1>1. LimitsKnown
  BY DEF Init, LimitsKnown, Careful
<1>2. OneRequest /\ RequestsAgree /\ NeverMisused
  BY DEF Init, OneRequest, RequestsAgree, NeverMisused
<1>3. OnServer
  BY DEF Init, OnServer, Careful, Holds
<1> QED
  BY <1>1, <1>2, <1>3 DEF CarefulInv

\* A change outdates what is prepared, unless it changes none of its
\* placeholders.
LEMMA ChangeCareful ==
    ASSUME Typed, CarefulInv, NEW s \in Stmts,
           Change(s) \/ Limit(s) \/ LimitThrows(s) \/ Offset(s)
    PROVE  CarefulInv'
<1>1. /\ UNCHANGED <<pipeline, prepared, statements, statementId, misused>>
      /\ Idle(s)
  BY DEF Change, Limit, LimitThrows, Offset, connectionVars, serverVars
<1>2. \A t \in Stmts \ {s} :
         stage'[t] = stage[t] /\ limitStage'[t] = limitStage[t] /\ scope'[t] = scope[t]
  BY DEF Change, Limit, LimitThrows, Offset, ResetStage, Typed
<1>3. \A i \in DOMAIN pipeline : pipeline[i].stmt \in Stmts \ {s}
  BY <1>1, RequestsTyped DEF Idle
<1>4. OneRequest' /\ NeverMisused'
  BY <1>1 DEF CarefulInv, OneRequest, NeverMisused
<1>5. RequestsAgree'
  BY <1>1, <1>2, <1>3 DEF CarefulInv, RequestsAgree, Outdated
<1>6. scope[s] \in Scopes
  BY DEF Typed
<1>7. ASSUME s \in Careful
      PROVE  /\ limitStage'[s] = "TO_NOT_PREPARE" <=> scope'[s].count
             /\ scope'[s].offset <=> scope'[s].count /\ s \in WithOffset
  <2>1. CASE Change(s)
    <3>1. scope'[s].count = scope[s].count /\ scope'[s].offset = scope[s].offset
      BY <1>6, <2>1 DEF Change, Typed, Scopes
    <3> QED BY <1>7, <2>1, <3>1 DEF Change, CarefulInv, LimitsKnown
  <2>2. CASE Limit(s)
    <3>1. /\ scope'[s].count
          /\ scope'[s].offset = IF s \in WithOffset THEN TRUE ELSE scope[s].offset
      BY <2>2 DEF Limit, Typed
    <3>2. limitStage'[s] = "TO_NOT_PREPARE"
      BY <2>2 DEF Limit, ResetStage, Typed
    <3>3. scope'[s].offset <=> s \in WithOffset
      <4>1. CASE scope[s].count
        BY <1>7, <3>1, <4>1 DEF CarefulInv, LimitsKnown
      <4>2. CASE ~scope[s].count
        BY <1>7, <3>1, <4>2 DEF CarefulInv, LimitsKnown
      <4> QED BY <4>1, <4>2
    <3> QED BY <3>1, <3>2, <3>3
  <2>3. CASE Offset(s)
    <3>1. scope'[s].count = scope[s].count /\ scope'[s].offset
      BY <1>6, <2>3 DEF Offset, Typed, Scopes
    <3> QED
      BY <1>7, <2>3, <3>1 DEF Offset, ResetStage, CarefulInv, LimitsKnown, Typed, Careful
  <2> QED BY <1>7, <2>1, <2>2, <2>3 DEF LimitThrows, Careful
<1>8. LimitsKnown'
  BY <1>2, <1>7 DEF CarefulInv, LimitsKnown, Careful
<1>9. ASSUME s \in Careful, stage'[s] = "TO_EXECUTE"
      PROVE  /\ stage[s] = "TO_EXECUTE"
             /\ scope'[s].version = scope[s].version
             /\ Placeholders(scope'[s]) = Placeholders(scope[s])
  <2>1. ~Change(s)
    BY <1>9 DEF Change, Restarted, Typed
  <2>2. ResetStage(s)
    BY <2>1 DEF Limit, LimitThrows, Offset
  <2>3. stage[s] = "TO_EXECUTE" /\ limitStage[s] # "TO_PREPARE"
    BY <1>9, <2>2 DEF ResetStage, Reprepared, Typed
  <2>4. scope[s].count
    BY <1>9, <2>3 DEF CarefulInv, LimitsKnown, Typed
  <2>5. /\ scope'[s].version = scope[s].version /\ scope'[s].count
        /\ scope'[s].offset <=> scope[s].offset
    <3>1. CASE Limit(s)
      <4>1. /\ scope'[s].version = scope[s].version /\ scope'[s].count
            /\ scope'[s].offset = IF s \in WithOffset THEN TRUE ELSE scope[s].offset
        BY <3>1 DEF Limit, Typed
      <4> QED BY <1>9, <2>4, <4>1 DEF CarefulInv, LimitsKnown
    <3>2. CASE Offset(s)
      <4>1. /\ scope'[s].version = scope[s].version /\ scope'[s].count = scope[s].count
            /\ scope'[s].offset
        BY <1>6, <3>2 DEF Offset, Typed, Scopes
      <4> QED BY <1>9, <2>4, <3>2, <4>1 DEF CarefulInv, LimitsKnown, Offset
    <3> QED BY <2>1, <2>4, <3>1, <3>2 DEF LimitThrows
  <2> QED BY <2>3, <2>4, <2>5 DEF Placeholders
<1>10. OnServer'
  <2>1. Holds(s)' => Holds(s)
    BY DEF Change, Limit, LimitThrows, Offset, ResetStage, Restarted, Reprepared, Typed, Holds
  <2>2. Holds(s)' /\ ~Outdated(s)' => stage'[s] = "TO_EXECUTE"
    BY DEF Holds, Outdated
  <2>3. ASSUME NEW t \in Careful, Holds(t)'
        PROVE  statementId[t] \in DOMAIN prepared
    BY <1>2, <2>1, <2>3 DEF CarefulInv, OnServer, Holds, Careful
  <2>4. ASSUME NEW t \in Careful, Holds(t)', ~Outdated(t)'
        PROVE  /\ prepared[statementId[t]].scope.version = scope'[t].version
               /\ Placeholders(prepared[statementId[t]].scope) = Placeholders(scope'[t])
    <3>1. CASE t = s
      <4>1. /\ Holds(s) /\ ~Outdated(s)
            /\ scope'[s].version = scope[s].version
            /\ Placeholders(scope'[s]) = Placeholders(scope[s])
        BY <1>9, <2>2, <2>4, <3>1 DEF Holds, Outdated
      <4> QED BY <2>4, <3>1, <4>1 DEF CarefulInv, OnServer
    <3>2. CASE t # s
      <4>1. Holds(t) /\ ~Outdated(t) /\ scope'[t] = scope[t]
        BY <1>2, <2>4, <3>2 DEF Holds, Outdated, Careful
      <4> QED BY <2>4, <4>1 DEF CarefulInv, OnServer
    <3> QED BY <3>1, <3>2
  <2> QED
    BY <1>1, <2>3, <2>4 DEF OnServer, Holds, Outdated, Placeholders
<1> QED
  BY <1>4, <1>5, <1>8, <1>10 DEF CarefulInv

\* What the request r of statement s says of it.
Agrees(s, r) ==
    /\ r.type \in {"prepare", "execute", "deallocate"} => r.id = statementId[s]
    /\ r.scope = scope[s]
    /\ r.type = "execute" => stage[s] = "TO_EXECUTE"
    /\ r.type = "deallocate" => Outdated(s)

\* The first request of an execution agrees with what is prepared.
LEMMA ExecuteCareful ==
    ASSUME Typed, CarefulInv, NEW s \in Stmts, Execute(s) PROVE CarefulInv'
<1> DEFINE n == Len(pipeline)
<1>1. PICK r \in Requests :
          pipeline' = Append(pipeline, r) /\ NextRequest(s, stage[s], statements, r)
  BY ProceedSends DEF Execute, Typed
<1>2. /\ n \in Nat /\ DOMAIN pipeline = 1 .. n /\ DOMAIN pipeline' = 1 .. n + 1
      /\ \A i \in 1 .. n + 1 :
            \/ i = n + 1 /\ pipeline'[i] = r
            \/ i \in 1 .. n /\ pipeline'[i] = pipeline[i]
  <2>1. pipeline \in Seq(Requests)
    BY DEF Typed
  <2> QED BY <1>1, <2>1, Sent
<1> HIDE DEF n
<1>3. UNCHANGED <<stage, limitStage, scope, prepared, misused>>
  BY DEF Execute, serverVars
<1>4. /\ r.stmt = s
      /\ \A t \in Stmts \ {s} : statementId'[t] = statementId[t]
      /\ Agrees(s, r)'
  BY <1>1, <1>3 DEF NextRequest, Agrees, Outdated, Typed
<1>5. \A i \in 1 .. n : pipeline[i].stmt \in Stmts
  BY <1>2, RequestsTyped
<1>6. s \in Careful => \A i \in 1 .. n : pipeline[i].stmt # s
  BY <1>2 DEF Execute, Idle, Careful
<1>7. OneRequest'
  BY <1>2, <1>4, <1>6 DEF CarefulInv, OneRequest
<1>8. RequestsAgree'
  <2>1. ASSUME NEW i \in 1 .. n + 1, NEW t, t = pipeline'[i].stmt, t \in Careful
        PROVE  /\ pipeline'[i].type \in {"prepare", "execute", "deallocate"} =>
                     pipeline'[i].id = statementId'[t]
               /\ pipeline'[i].scope = scope'[t]
               /\ pipeline'[i].type = "execute" => stage'[t] = "TO_EXECUTE"
               /\ pipeline'[i].type = "deallocate" => Outdated(t)'
    <3>1. CASE pipeline'[i] = r
      BY <1>4, <2>1, <3>1 DEF Agrees
    <3>2. CASE i \in 1 .. n /\ pipeline'[i] = pipeline[i]
      BY <1>2, <1>3, <1>4, <1>5, <1>6, <2>1, <3>2
      DEF CarefulInv, RequestsAgree, Outdated
    <3> QED BY <1>2, <2>1, <3>1, <3>2
  <2> QED BY <1>2, <2>1 DEF RequestsAgree, Outdated
<1>9. OnServer'
  <2>1. Holds(s) => statementId'[s] = statementId[s]
    BY <1>1 DEF NextRequest, Holds
  <2>2. \A t \in Careful : Holds(t) => statementId'[t] = statementId[t]
    BY <1>4, <2>1 DEF Careful
  <2> QED
    BY <1>3, <2>2 DEF CarefulInv, OnServer, Holds, Outdated, Placeholders
<1>10. LimitsKnown' /\ NeverMisused'
  BY <1>3 DEF CarefulInv, LimitsKnown, NeverMisused
<1> QED
  BY <1>7, <1>8, <1>9, <1>10 DEF CarefulInv

\* The requests that stay are those of other statements, or of careless ones.
LEMMA GoesOnCareful ==
    ASSUME Typed, CarefulInv, pipeline # <<>>, NEW r \in Requests,
           NEW s \in Stmts, s = R.stmt, r.stmt = s,
           pipeline' = Append(Tail(pipeline), r),
           UNCHANGED <<scope, limitStage>>,
           \A t \in Stmts \ {s} :
              stage'[t] = stage[t] /\ statementId'[t] = statementId[t],
           s \in Careful => Agrees(s, r)'
    PROVE  OneRequest' /\ RequestsAgree' /\ LimitsKnown'
<1> DEFINE n == Len(pipeline)
<1>1. /\ n \in Nat \ {0} /\ DOMAIN pipeline = 1 .. n /\ DOMAIN pipeline' = 1 .. n
      /\ \A i \in 1 .. n :
            \/ i = n /\ pipeline'[i] = r
            \/ i \in 1 .. n - 1 /\ i + 1 \in 1 .. n /\ pipeline'[i] = pipeline[i + 1]
  BY GoesOn
<1>2. R = pipeline[1] /\ 1 \in 1 .. n
  BY <1>1, RequestTypes
<1> HIDE DEF n
<1>3. s \in Careful => \A i \in 1 .. n - 1 : pipeline[i + 1].stmt # s
  <2>1. ASSUME s \in Careful, NEW i \in 1 .. n - 1, pipeline[i + 1].stmt = s
        PROVE  FALSE
    <3>1. i + 1 \in 1 .. n /\ i + 1 # 1
      BY <1>1
    <3> QED BY <1>1, <1>2, <2>1, <3>1 DEF CarefulInv, OneRequest
  <2> QED BY <2>1
<1>4. \A i \in 1 .. n : pipeline[i].stmt \in Stmts
  BY <1>1, RequestsTyped
<1>5. OneRequest'
  <2>1. ASSUME NEW i \in 1 .. n, NEW j \in 1 .. n,
               pipeline'[i].stmt = pipeline'[j].stmt, pipeline'[i].stmt \in Careful
        PROVE  i = j
    <3>1. CASE i = n /\ pipeline'[i] = r
      <4>1. ~(j \in 1 .. n - 1 /\ pipeline'[j] = pipeline[j + 1])
        BY <1>3, <2>1, <3>1
      <4> QED BY <1>1, <2>1, <3>1, <4>1
    <3>2. CASE i \in 1 .. n - 1 /\ i + 1 \in 1 .. n /\ pipeline'[i] = pipeline[i + 1]
      <4>1. j \in 1 .. n - 1 /\ j + 1 \in 1 .. n /\ pipeline'[j] = pipeline[j + 1]
        <5>1. pipeline'[j] # r
          BY <1>3, <2>1, <3>2
        <5> QED BY <1>1, <5>1
      <4>2. i + 1 = j + 1
        BY <1>1, <2>1, <3>2, <4>1 DEF CarefulInv, OneRequest
      <4> QED BY <4>2
    <3> QED BY <1>1, <2>1, <3>1, <3>2
  <2> QED BY <1>1, <2>1 DEF OneRequest
<1>6. RequestsAgree'
  <2>1. ASSUME NEW i \in 1 .. n, NEW t, t = pipeline'[i].stmt, t \in Careful
        PROVE  /\ pipeline'[i].type \in {"prepare", "execute", "deallocate"} =>
                     pipeline'[i].id = statementId'[t]
               /\ pipeline'[i].scope = scope'[t]
               /\ pipeline'[i].type = "execute" => stage'[t] = "TO_EXECUTE"
               /\ pipeline'[i].type = "deallocate" => Outdated(t)'
    <3>1. CASE pipeline'[i] = r
      <4>1. t = s
        BY <2>1, <3>1
      <4>2. Agrees(t, r)'
        BY <2>1, <4>1
      <4> QED BY <3>1, <4>2 DEF Agrees
    <3>2. CASE i \in 1 .. n - 1 /\ i + 1 \in 1 .. n /\ pipeline'[i] = pipeline[i + 1]
      <4>1. t \in Stmts \ {s}
        BY <1>3, <1>4, <2>1, <3>2
      <4> QED
        BY <1>1, <2>1, <3>2, <4>1 DEF CarefulInv, RequestsAgree, Outdated
    <3> QED BY <1>1, <2>1, <3>1, <3>2
  <2> QED BY <1>1, <2>1 DEF RequestsAgree, Outdated
<1>7. LimitsKnown'
  BY DEF CarefulInv, LimitsKnown
<1> QED BY <1>5, <1>6, <1>7

\* The last reply of an execution leaves the other requests as they are.
LEMMA EndCareful ==
    ASSUME Typed, CarefulInv, pipeline # <<>>, End,
           NEW s \in Stmts, s = R.stmt,
           UNCHANGED <<statementId, limitStage, scope, prepared>>,
           UNCHANGED stage \/ stage' = [stage EXCEPT ![s] = "TO_PREPARE"],
           NeverMisused'
    PROVE  CarefulInv'
<1> DEFINE n == Len(pipeline)
<1>1. /\ n \in Nat \ {0} /\ DOMAIN pipeline = 1 .. n /\ DOMAIN pipeline' = 1 .. n - 1
      /\ \A i \in 1 .. n - 1 : i + 1 \in 1 .. n /\ pipeline'[i] = pipeline[i + 1]
  <2>1. pipeline \in Seq(Requests)
    BY DEF Typed
  <2> QED BY <2>1, Answered DEF End
<1>2. R = pipeline[1] /\ 1 \in 1 .. n
  BY <1>1, RequestTypes
<1> HIDE DEF n
<1>3. s \in Careful => \A i \in 1 .. n - 1 : pipeline[i + 1].stmt # s
  <2>1. ASSUME s \in Careful, NEW i \in 1 .. n - 1, pipeline[i + 1].stmt = s
        PROVE  FALSE
    <3>1. i + 1 \in 1 .. n /\ i + 1 # 1
      BY <1>1
    <3> QED BY <1>1, <1>2, <2>1, <3>1 DEF CarefulInv, OneRequest
  <2> QED BY <2>1
<1>4. \A i \in 1 .. n : pipeline[i].stmt \in Stmts
  BY <1>1, RequestsTyped
<1>5. \A t \in Stmts \ {s} : stage'[t] = stage[t]
  BY DEF Typed
<1>6. OneRequest'
  <2>1. ASSUME NEW i \in 1 .. n - 1, NEW j \in 1 .. n - 1,
               pipeline'[i].stmt = pipeline'[j].stmt, pipeline'[i].stmt \in Careful
        PROVE  i = j
    <3>1. i + 1 = j + 1
      BY <1>1, <2>1 DEF CarefulInv, OneRequest
    <3> QED BY <3>1
  <2> QED BY <1>1, <2>1 DEF OneRequest
<1>7. RequestsAgree'
  <2>1. ASSUME NEW i \in 1 .. n - 1, NEW t, t = pipeline'[i].stmt, t \in Careful
        PROVE  /\ pipeline'[i].type \in {"prepare", "execute", "deallocate"} =>
                     pipeline'[i].id = statementId'[t]
               /\ pipeline'[i].scope = scope'[t]
               /\ pipeline'[i].type = "execute" => stage'[t] = "TO_EXECUTE"
               /\ pipeline'[i].type = "deallocate" => Outdated(t)'
    <3>1. stage'[t] = stage[t]
      BY <1>1, <1>3, <1>4, <1>5, <2>1
    <3> QED
      BY <1>1, <2>1, <3>1 DEF CarefulInv, RequestsAgree, Outdated
  <2> QED BY <1>1, <2>1 DEF RequestsAgree, Outdated
<1>8. OnServer'
  <2>1. \A t \in Stmts : Holds(t)' => stage'[t] = stage[t]
    BY <1>5 DEF Holds, Typed
  <2> QED
    BY <2>1 DEF CarefulInv, OnServer, Holds, Outdated, Placeholders, Careful
<1>9. LimitsKnown'
  BY DEF CarefulInv, LimitsKnown
<1> QED
  BY <1>6, <1>7, <1>8, <1>9 DEF CarefulInv

\* A statement that could not be prepared has nothing on the server.
LEMMA PrepareRefusedCareful ==
    ASSUME Typed, CarefulInv, PrepareRefused PROVE CarefulInv'
<1>1. pipeline # <<>>
  BY DEF PrepareRefused, Answering
<1>2. PICK s \in Stmts : s = R.stmt
  BY <1>1, RequestTypes
<1>3. PICK r \in Requests : r = Request("fallback", s, 0)
  <2>1. scope[s] \in Scopes
    BY DEF Typed
  <2>2. 0 \in 0 .. MaxIds
    BY PreparingAssumption
  <2> QED BY <2>1, <2>2 DEF Request, Requests, Types
<1>4. r.stmt = s /\ r.type = "fallback" /\ r.scope = scope[s]
  BY <1>3 DEF Request
<1>5. /\ UNCHANGED <<scope, limitStage, statementId, prepared, misused>>
      /\ stage'[s] = "TO_SKIP" /\ \A t \in Stmts \ {s} : stage'[t] = stage[t]
      /\ pipeline' = Append(Tail(pipeline), r)
  BY <1>2, <1>3 DEF PrepareRefused, Typed
<1>6. Agrees(s, r)'
  BY <1>4, <1>5 DEF Agrees
<1>7. OneRequest' /\ RequestsAgree' /\ LimitsKnown'
  BY <1>1, <1>2, <1>4, <1>5, <1>6, GoesOnCareful
<1>8. OnServer'
  <2>1. \A t \in Stmts : Holds(t)' => t # s
    BY <1>5 DEF Holds
  <2> QED
    BY <1>5, <2>1 DEF CarefulInv, OnServer, Holds, Outdated, Placeholders, Careful
<1>9. NeverMisused'
  BY <1>5 DEF CarefulInv, NeverMisused
<1> QED
  BY <1>7, <1>8, <1>9 DEF CarefulInv

\* What is executed at once is what has just been prepared.
LEMMA PrepareDoneCareful ==
    ASSUME Typed, IdsInv, CarefulInv, PrepareDone PROVE CarefulInv'
<1>1. pipeline # <<>> /\ R.type = "prepare"
  BY DEF PrepareDone, Answering, R
<1>2. PICK s \in Stmts : s = R.stmt
  BY <1>1, RequestTypes
<1>3. R = pipeline[1] /\ 1 \in DOMAIN pipeline
  BY <1>1, RequestTypes
<1>4. PICK r \in Requests :
          /\ pipeline' = Append(Tail(pipeline), r)
          /\ NextRequest(s, "TO_EXECUTE", statements, r)
  BY <1>2, ProceedSends DEF PrepareDone, Typed
<1>5. /\ r.type = "execute" /\ r.stmt = s /\ r.id = statementId[s] /\ r.scope = scope[s]
      /\ UNCHANGED <<scope, limitStage, statementId, misused>>
      /\ stage'[s] = "TO_EXECUTE" /\ \A t \in Stmts \ {s} : stage'[t] = stage[t]
  BY <1>2, <1>4 DEF NextRequest, PrepareDone, Typed
<1>6. Agrees(s, r)'
  BY <1>5 DEF Agrees
<1>7. OneRequest' /\ RequestsAgree' /\ LimitsKnown'
  BY <1>1, <1>2, <1>4, <1>5, <1>6, GoesOnCareful
<1>8. /\ DOMAIN prepared' = DOMAIN prepared \cup {R.id}
      /\ prepared'[R.id].scope = R.scope
      /\ \A id \in DOMAIN prepared \ {R.id} : prepared'[id] = prepared[id]
  BY DEF PrepareDone, PreparedWith
<1>9. R.id \notin DOMAIN prepared
  BY <1>1, <1>3 DEF IdsInv, PreparesOwn
<1>10. s \in Careful => R.id = statementId[s] /\ R.scope = scope[s]
  BY <1>1, <1>2, <1>3 DEF CarefulInv, RequestsAgree
<1>11. OnServer'
  <2>1. ASSUME NEW t \in Careful, Holds(t)'
        PROVE  /\ statementId'[t] \in DOMAIN prepared'
               /\ ~Outdated(t)' =>
                     /\ prepared'[statementId'[t]].scope.version = scope'[t].version
                     /\ Placeholders(prepared'[statementId'[t]].scope)
                           = Placeholders(scope'[t])
    <3>1. CASE t = s
      BY <1>5, <1>8, <1>10, <2>1, <3>1
    <3>2. CASE t # s
      <4>1. Holds(t) /\ (~Outdated(t)' => ~Outdated(t))
        BY <1>5, <2>1, <3>2 DEF Holds, Outdated, Careful
      <4>2. statementId[t] \in DOMAIN prepared
        BY <2>1, <4>1 DEF CarefulInv, OnServer
      <4>3. prepared'[statementId[t]] = prepared[statementId[t]]
        BY <1>8, <1>9, <4>2
      <4> QED BY <1>5, <1>8, <2>1, <4>1, <4>2, <4>3 DEF CarefulInv, OnServer
    <3> QED BY <3>1, <3>2
  <2> QED BY <2>1 DEF OnServer, Holds, Outdated, Placeholders
<1>12. NeverMisused'
  BY <1>5 DEF CarefulInv, NeverMisused
<1> QED
  BY <1>7, <1>11, <1>12 DEF CarefulInv

\* No other statement loses what it has on the server.
LEMMA DeallocateDoneCareful ==
    ASSUME Typed, IdsInv, CarefulInv, DeallocateDone PROVE CarefulInv'
<1>1. pipeline # <<>> /\ R.type = "deallocate" /\ R.id \in DOMAIN prepared
  BY DEF DeallocateDone, Answering, R
<1>2. PICK s \in Stmts : s = R.stmt
  BY <1>1, RequestTypes
<1>3. R = pipeline[1] /\ 1 \in DOMAIN pipeline
  BY <1>1, RequestTypes
<1>4. PICK r \in Requests :
          /\ pipeline' = Append(Tail(pipeline), r)
          /\ NextRequest(s, AfterDeallocate(stage[s]), RemoveId(statementId[s]), r)
  BY <1>2, ProceedSends DEF DeallocateDone, Typed, RemoveId
<1>5. Outdated(s) /\ R.id = statementId[s]
  <2>1. Outdated(s)
    BY <1>1, <1>2, <1>3 DEF IdsInv, TooLate
  <2> QED BY <1>2, <1>3, <2>1 DEF IdsInv, OutdatedWaits
<1>6. prepared[R.id].stmt = s
  BY <1>1, <1>5 DEF IdsInv, HoldersOwn, Holds, Outdated, Owns
<1>7. /\ UNCHANGED <<scope, limitStage, misused>>
      /\ stage'[s] \in {"TO_START", "TO_PREPARE"} /\ stage'[s] = AfterDeallocate(stage[s])
      /\ \A t \in Stmts \ {s} : stage'[t] = stage[t]
  BY <1>2, <1>5 DEF DeallocateDone, Typed, AfterDeallocate, Outdated
<1>8. /\ r.stmt = s /\ r.type \in {"plain", "prepare"} /\ r.scope = scope[s]
      /\ r.type = "prepare" => r.id = statementId'[s]
      /\ \A t \in Stmts \ {s} : statementId'[t] = statementId[t]
  BY <1>4, <1>7 DEF NextRequest, Typed
<1>9. Agrees(s, r)'
  BY <1>7, <1>8 DEF Agrees
<1>10. OneRequest' /\ RequestsAgree' /\ LimitsKnown'
  BY <1>1, <1>2, <1>4, <1>7, <1>8, <1>9, GoesOnCareful
<1>11. \A id \in DOMAIN prepared \ {R.id} :
          id \in DOMAIN prepared' /\ prepared'[id] = prepared[id]
  BY DEF DeallocateDone, Dropped
<1>12. OnServer'
  <2>1. ASSUME NEW t \in Careful, Holds(t)'
        PROVE  /\ statementId'[t] \in DOMAIN prepared'
               /\ ~Outdated(t)' =>
                     /\ prepared'[statementId'[t]].scope.version = scope'[t].version
                     /\ Placeholders(prepared'[statementId'[t]].scope)
                           = Placeholders(scope'[t])
    <3>1. t # s /\ t \in Stmts
      BY <1>7, <2>1 DEF Holds, Careful
    <3>2. Holds(t) /\ (~Outdated(t)' => ~Outdated(t))
      BY <1>7, <2>1, <3>1 DEF Holds, Outdated
    <3>3. statementId[t] \in DOMAIN prepared /\ prepared[statementId[t]].stmt = t
      BY <2>1, <3>1, <3>2 DEF CarefulInv, OnServer, IdsInv, HoldersOwn, Owns
    <3>4. /\ statementId[t] \in DOMAIN prepared'
          /\ prepared'[statementId[t]] = prepared[statementId[t]]
      BY <1>6, <1>11, <3>1, <3>3
    <3> QED
      BY <1>7, <1>8, <2>1, <3>1, <3>2, <3>4 DEF CarefulInv, OnServer
  <2> QED BY <2>1 DEF OnServer, Holds, Outdated, Placeholders
<1>13. NeverMisused'
  BY <1>7 DEF CarefulInv, NeverMisused
<1> QED
  BY <1>10, <1>12, <1>13 DEF CarefulInv

\* The server has nothing to say against a careful statement.
LEMMA ComplaintCareful ==
    ASSUME Typed, IdsInv, CarefulInv, ExecuteDone \/ DeallocateFails
    PROVE  NeverMisused'
<1>1. pipeline # <<>>
  BY DEF ExecuteDone, DeallocateFails, Answering
<1>2. PICK s \in Stmts : s = R.stmt
  BY <1>1, RequestTypes
<1>3. R = pipeline[1] /\ 1 \in DOMAIN pipeline
  BY <1>1, RequestTypes
<1>4. CASE ExecuteDone
  <2>1. R.type = "execute"
    BY <1>4 DEF ExecuteDone, Answering, R
  <2>2. ASSUME s \in Careful PROVE Mistakes = {}
    <3>1. R.id = statementId[s] /\ R.scope = scope[s] /\ stage[s] = "TO_EXECUTE"
      BY <1>2, <1>3, <2>1, <2>2 DEF CarefulInv, RequestsAgree
    <3>2. Holds(s) /\ ~Outdated(s)
      BY <3>1 DEF Holds, Outdated
    <3>3. /\ R.id \in DOMAIN prepared
          /\ prepared[R.id].scope.version = R.scope.version
          /\ Placeholders(prepared[R.id].scope) = Placeholders(R.scope)
      BY <2>2, <3>1, <3>2 DEF CarefulInv, OnServer
    <3>4. prepared[R.id].stmt = R.stmt
      BY <1>2, <3>1, <3>2, <3>3 DEF IdsInv, HoldersOwn, Owns
    <3> QED BY <3>3, <3>4 DEF Mistakes
  <2> QED
    BY <1>2, <1>4, <2>2 DEF ExecuteDone, Complain, CarefulInv, NeverMisused, Careful
<1>5. CASE DeallocateFails
  <2>1. R.type = "deallocate"
    BY <1>5 DEF DeallocateFails, Answering, R
  <2>2. ASSUME s \in Careful PROVE R.id \in DOMAIN prepared
    <3>1. R.id = statementId[s] /\ Outdated(s)
      BY <1>2, <1>3, <2>1, <2>2 DEF CarefulInv, RequestsAgree
    <3> QED BY <2>2, <3>1 DEF CarefulInv, OnServer, Holds, Outdated
  <2> QED
    BY <1>2, <1>5, <2>2 DEF DeallocateFails, Complain, CarefulInv, NeverMisused, Careful
<1> QED BY <1>4, <1>5

\* The replies, one by one.
LEMMA AnswerCareful ==
    ASSUME Typed, IdsInv, CarefulInv, Answer PROVE CarefulInv'
<1>1. pipeline # <<>>
  BY DEF Answer, PlainDone, FallbackDone, PrepareDone, PrepareRefused, PrepareFails,
         ExecuteDone, DeallocateDone, DeallocateFails, Answering
<1>2. PICK s \in Stmts : s = R.stmt
  BY <1>1, RequestTypes
<1>3. CASE PlainDone
  <2>1. UNCHANGED stage \/ stage' = [stage EXCEPT ![s] = "TO_PREPARE"]
    <3>1. CASE stage[s] = "TO_SKIP"
      BY <1>2, <1>3, <3>1 DEF PlainDone, Typed
    <3>2. CASE stage[s] # "TO_SKIP"
      BY <1>2, <1>3, <3>2 DEF PlainDone, Typed
    <3> QED BY <3>1, <3>2
  <2>2. /\ UNCHANGED <<statementId, limitStage, scope, prepared, misused>> /\ End
    BY <1>3 DEF PlainDone, serverVars
  <2>3. NeverMisused'
    BY <2>2 DEF CarefulInv, NeverMisused
  <2> QED BY <1>1, <1>2, <2>1, <2>2, <2>3, EndCareful
<1>4. CASE FallbackDone \/ PrepareFails
  <2>1. NeverMisused'
    BY <1>4 DEF FallbackDone, PrepareFails, serverVars, CarefulInv, NeverMisused
  <2> QED
    BY <1>1, <1>2, <1>4, <2>1, EndCareful
    DEF FallbackDone, PrepareFails, stmtVars, serverVars
<1>5. CASE ExecuteDone \/ DeallocateFails
  BY <1>1, <1>2, <1>5, ComplaintCareful, EndCareful
  DEF ExecuteDone, DeallocateFails, stmtVars
<1> QED
  BY <1>3, <1>4, <1>5, PrepareDoneCareful, PrepareRefusedCareful, DeallocateDoneCareful
  DEF Answer

\* Every step keeps the care.
LEMMA CarefulStep ==
    Typed /\ IdsInv /\ CarefulInv /\ [Next]_vars => CarefulInv'
<1> SUFFICES ASSUME Typed, IdsInv, CarefulInv, [Next]_vars PROVE CarefulInv'
    OBVIOUS
<1>1. ASSUME NEW s \in Stmts, Use(s) PROVE CarefulInv'
  BY <1>1, ChangeCareful, ExecuteCareful DEF Use
<1>2. CASE Answer
  BY <1>2, AnswerCareful
<1>3. CASE UNCHANGED vars
  <2> USE <1>3 DEF vars, stmtVars, connectionVars, serverVars, CarefulInv
  <2>1. OneRequest' /\ LimitsKnown' /\ NeverMisused'
    BY DEF OneRequest, LimitsKnown, NeverMisused
  <2>2. RequestsAgree'
    BY DEF RequestsAgree, Outdated
  <2>3. OnServer'
    BY DEF OnServer, Holds, Outdated, Placeholders
  <2> QED BY <2>1, <2>2, <2>3
<1> QED BY <1>1, <1>2, <1>3 DEF Next

\* The three parts together, in every behaviour.
LEMMA PreparingInvariant == Spec => []PreparingInv
<1>1. PreparingInv /\ [Next]_vars => PreparingInv'
  BY IdsStep, CarefulStep DEF PreparingInv
<1>2. Init => PreparingInv
  BY TypedInit, IdsInit, CarefulInit DEF PreparingInv
<1> QED BY <1>1, <1>2, PTL DEF Spec

-----------------------------------------------------------------------------

\* What is prepared, or about to be, has an id, and everything has its type
\* (the fields of Preparing, Limiting and Connection).
THEOREM PreparingTypes == Spec => []TypeOK
<1>1. ASSUME PreparingInv PROVE TypeOK
  <2>1. Typed /\ IdsInv
    BY <1>1 DEF PreparingInv
  <2>2. \A s \in Stmts : Holds(s) => statementId[s] # 0
    <3>1. \A s \in Stmts : Holds(s) => statementId[s] \in Ids
      BY <2>1 DEF IdsInv, HoldersOwn, Owns, Typed
    <3> QED BY <3>1, PreparingAssumption DEF Ids
  <2>3. \A i \in DOMAIN pipeline : pipeline[i].id \in 0 .. MaxIds
    BY <2>1, RequestsTyped
  <2>4. DOMAIN prepared \subseteq Ids
    BY <2>1 DEF IdsInv, PreparesOwn, Typed
  <2> QED BY <2>1, <2>2, <2>3, <2>4 DEF TypeOK, Typed
<1> QED BY PreparingInvariant, <1>1, PTL

\* The ids of statements are never taken for one another, however executions of
\* careless statements race (Preparing#allocate, #deallocate and the list of
\* Connection).
THEOREM OwnIds == Spec => []OwnStatements
<1>1. ASSUME PreparingInv PROVE OwnStatements
  <2>1. Typed /\ IdsInv /\ CarefulInv
    BY <1>1 DEF PreparingInv
  <2>2. OwnPrepared
    BY <2>1 DEF CarefulInv, OnServer, Careful, IdsInv, HoldersOwn, Owns, OwnPrepared
  <2>3. NeverForeign
    <3>1. SUFFICES ASSUME pipeline # <<>>, R.type \in {"execute", "deallocate"},
                          R.id \in DOMAIN prepared
                   PROVE  prepared[R.id].stmt = R.stmt
      BY DEF NeverForeign
    <3>2. R = pipeline[1] /\ 1 \in DOMAIN pipeline /\ R.stmt \in Stmts
      BY <2>1, <3>1, RequestTypes
    <3>3. CASE R.type = "execute"
      BY <2>1, <3>1, <3>2, <3>3 DEF IdsInv, ExecutionsOwn, Owns
    <3>4. CASE R.type = "deallocate"
      <4>1. Outdated(R.stmt)
        BY <2>1, <3>1, <3>2, <3>4 DEF IdsInv, TooLate
      <4>2. R.id = statementId[R.stmt]
        BY <2>1, <3>2, <4>1 DEF IdsInv, OutdatedWaits
      <4> QED
        BY <2>1, <3>1, <3>2, <4>1, <4>2 DEF IdsInv, HoldersOwn, Owns, Holds, Outdated
    <3> QED BY <3>1, <3>3, <3>4
  <2> QED BY <2>2, <2>3 DEF OwnStatements
<1> QED BY PreparingInvariant, <1>1, PTL

\* A statement that is used with care never gives the server an unknown id, a
\* wrong number of arguments or an outdated statement, whatever other statements
\* on the connection do and whatever the server refuses.
THEOREM NoMisuse == Spec => []NeverMisused
<1>1. PreparingInv => NeverMisused
  BY DEF PreparingInv, CarefulInv
<1> QED BY PreparingInvariant, <1>1, PTL
=============================================================================
