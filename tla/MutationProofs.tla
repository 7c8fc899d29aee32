---------------------------- MODULE MutationProofs ----------------------------
(* One effect per key, true answers, no lost update and honest refusals, for  *)
(* any requests, keys and fingerprints and any number of lost answers and     *)
(* crashes.                                                                   *)
EXTENDS Mutation, FiniteSetTheorems, TLAPS

-----------------------------------------------------------------------------
(* The inductive invariant *)

\* The claim and the outcome of an effect are there, and are its own.
EffectClaimed ==
    \A i \in DOMAIN effects :
        /\ claims[effects[i].key] = effects[i].body
        /\ outcomes[effects[i].key] = i

\* A claimed key has its effect and exactly one record that executed it.
Executed(k, i) == i \in DOMAIN executions /\ executions[i] = [kind |-> "executed", key |-> k]

ClaimExecuted ==
    \A k \in Keys :
        /\ claims[k] # None => /\ \E i \in DOMAIN effects : effects[i].key = k
                               /\ \E i \in DOMAIN executions : Executed(k, i)
        /\ \A i \in DOMAIN executions : Executed(k, i) => claims[k] # None
        /\ \A i, j \in DOMAIN executions : Executed(k, i) /\ Executed(k, j) => i = j

\* Request r is answered by what is stored under its key.
Served(r, result) ==
    claims[Key[r]] \in Accepted(r) /\ result = outcomes[Key[r]]

\* What the call has read is still so: nobody else writes inside the gate.
CallCurrent ==
    LET r == call.request IN
    /\ call.at # "none" => r \in Requests
    /\ call.at \in {"fresh", "claimed", "mutated"} => claims[Key[r]] = None
    /\ call.at \in {"claimed", "mutated"} => Requires[r] \in {None, Version}
    /\ call.at = "mutated" => call.result = Version + 1
    /\ call.at = "replay" => claims[Key[r]] \in Accepted(r)
    /\ call.at \in {"replayed", "answering"} => Served(r, call.result)

\* A result that was heard is the stored one.
AnswersStored ==
    \A r \in Requests : answer[r].kind = "result" => Served(r, answer[r].result)

\* No lost update: a mutation that requires a version took effect on exactly that
\* version, and its precondition is not held against a replay.
EffectsAtRequiredVersion ==
    \A i \in DOMAIN effects : effects[i].requires # None => effects[i].requires = i - 1

MutationInv ==
    /\ TypeOK
    /\ EffectClaimed
    /\ ClaimExecuted
    /\ EffectsAtRequiredVersion
    /\ CallCurrent
    /\ AnswersStored

-----------------------------------------------------------------------------
(* Types *)

\* A request's key and fingerprints are columns' values.
LEMMA RequestColumns ==
    ASSUME NEW r \in Requests
    PROVE  /\ Key[r] \in Keys /\ Body[r] \in Bodies /\ Legacy[r] \subseteq Bodies
           /\ Accepted(r) \subseteq Bodies
    BY DEF Keys, Bodies, Accepted

\* None stands for no claim.
LEMMA NoneNoBody == None \notin Bodies
    BY RequestAssumption DEF Bodies

\* An answer keeps the callers' domains.
LEMMA ReplyType ==
    ASSUME TypeOK, NEW r \in Requests, NEW result \in Nat,
           NEW kind \in {"result", "denied", "conflict", "precondition", "refused",
                         "unestablished"},
           Reply(r, kind, result)
    PROVE  /\ call' = NoCall
           /\ waiting' \subseteq Requests
           /\ answer' \in [Requests -> [kind : {"none", "result", "denied", "conflict",
                                               "precondition", "refused", "unestablished"},
                                        result : Nat]]
    BY DEF Reply, TypeOK

\* What a step does to the call and the callers: the call moves to a point, an
\* answer ends it, or callers and crashes act.
LEMMA CallFrame ==
    ASSUME [Next]_vars
    PROVE  \/ \E r \in Requests : Grant(r) \/ Deny(r)
           \/ Enter \/ FindClaim \/ Replay \/ CommitReplay \/ CheckPrecondition
           \/ Mutate \/ Commit \/ Answer \/ Unservable \/ MutateFails
           \/ (call' = call \/ call' = NoCall) /\ UNCHANGED <<durable, answer>>
    BY DEF Next, CallStep, Send, GiveUp, Crash, Restart, Quiescent, vars, callers

\* The domains are kept.
LEMMA MutationTypeStep == TypeOK /\ CallCurrent /\ [Next]_vars => TypeOK'
<1> SUFFICES ASSUME TypeOK, CallCurrent, [Next]_vars PROVE TypeOK'
    OBVIOUS
<1> DEFINE r == call.request
           CallType == [at : {"none", "granted", "open", "replay", "replayed", "fresh",
                              "claimed", "mutated", "answering"},
                        request : Requests \cup {None}, result : Nat]
<1>0. call.at # "none" => r \in Requests /\ Key[r] \in Keys /\ Body[r] \in Bodies
    BY RequestColumns DEF CallCurrent
<1>1. ASSUME NEW kind \in {"result", "denied", "conflict", "precondition", "refused",
                           "unestablished"},
             NEW result \in Nat, call.at # "none", Reply(r, kind, result),
             UNCHANGED <<durable, queued, up, losses, crashes>>
      PROVE  TypeOK'
  <2>1. NoCall \in CallType
    BY DEF NoCall
  <2>2. QED
    BY <1>0, <1>1, <2>1, ReplyType DEF TypeOK, durable
<1>2. ASSUME NEW p \in {"open", "replay", "fresh", "claimed", "answering"}, Goto(p),
             UNCHANGED <<durable, queued, up, losses, crashes>>
      PROVE  TypeOK'
    BY <1>2 DEF Goto, TypeOK, durable
<1>3. CASE UNCHANGED vars
    BY <1>3 DEF TypeOK, vars, durable, callers
<1>4. ASSUME NEW q \in Requests, Send(q) PROVE TypeOK'
    BY <1>4 DEF Send, TypeOK, durable
<1>5. ASSUME NEW q \in Requests, GiveUp(q) PROVE TypeOK'
    BY <1>5 DEF GiveUp, TypeOK, durable
<1>6. ASSUME NEW q \in Requests, Deny(q) PROVE TypeOK'
    BY <1>6 DEF Deny, TypeOK, durable
<1>7. ASSUME NEW q \in Requests, Grant(q) PROVE TypeOK'
    BY <1>7 DEF Grant, TypeOK, durable
<1>8. CASE Enter
    BY <1>1, <1>2, <1>8 DEF Enter, Expired
<1>9. CASE FindClaim
    BY <1>1, <1>2, <1>9 DEF FindClaim
<1>10. CASE Replay
  <2>1. CASE Expired("unestablished")
    BY <1>1, <1>10, <2>1 DEF Replay, Expired
  <2>2. CASE /\ call' = [call EXCEPT !.at = "replayed", !.result = outcomes[Key[r]]]
             /\ UNCHANGED <<waiting, answer>>
    <3>1. outcomes[Key[r]] \in Nat
      BY <1>0, <1>10 DEF Replay, TypeOK
    <3>2. call' \in CallType
      BY <2>2, <3>1 DEF TypeOK
    <3>3. UNCHANGED <<effects, claims, outcomes, executions, queued, waiting, answer, up,
                      losses, crashes>>
      BY <1>10, <2>2 DEF Replay, durable
    <3>4. QED
      BY <3>2, <3>3 DEF TypeOK
  <2>3. QED
    BY <1>10, <2>1, <2>2 DEF Replay
<1>11. CASE CommitReplay
  <2>1. CASE Expired("unestablished") /\ UNCHANGED executions
    BY <1>1, <1>11, <2>1 DEF CommitReplay, Expired, durable
  <2>2. CASE executions' = Append(executions, Execution("replayed", r)) /\ Goto("answering")
    <3>1. Execution("replayed", r) \in [kind : {"executed", "replayed"}, key : Keys]
      BY <1>0, <1>11 DEF CommitReplay, Execution
    <3>2. executions' \in Seq([kind : {"executed", "replayed"}, key : Keys])
      BY <2>2, <3>1 DEF TypeOK
    <3>3. call' \in CallType
      BY <2>2 DEF Goto, TypeOK
    <3>4. UNCHANGED <<effects, claims, outcomes, queued, waiting, answer, up, losses, crashes>>
      BY <1>11, <2>2 DEF CommitReplay, Goto
    <3>5. QED
      BY <3>2, <3>3, <3>4 DEF TypeOK
  <2>3. QED
    BY <1>11, <2>1, <2>2 DEF CommitReplay
<1>12. CASE CheckPrecondition
    BY <1>1, <1>2, <1>12 DEF CheckPrecondition, Expired
<1>13. CASE Mutate
  <2>1. Version + 1 \in Nat
    BY DEF Version, TypeOK
  <2>2. call' \in CallType
    BY <1>13, <2>1 DEF Mutate, TypeOK
  <2>3. UNCHANGED <<effects, claims, outcomes, executions, queued, waiting, answer, up,
                    losses, crashes>>
    BY <1>13 DEF Mutate, durable, callers
  <2>4. QED
    BY <2>2, <2>3 DEF TypeOK
<1>14. CASE Commit
  <2>1. CASE Expired("denied") /\ UNCHANGED durable
    BY <1>1, <1>14, <2>1 DEF Commit, Expired
  <2>2. CASE /\ effects' = Append(effects, Effect(r, Body[r]))
             /\ claims' = [claims EXCEPT ![Key[r]] = Body[r]]
             /\ outcomes' = [outcomes EXCEPT ![Key[r]] = call.result]
             /\ executions' = Append(executions, Execution("executed", r))
             /\ Goto("answering")
    <3>1. /\ Execution("executed", r) \in [kind : {"executed", "replayed"}, key : Keys]
          /\ Effect(r, Body[r]) \in [key : Keys, body : Bodies, requires : Nat \cup {None}]
      BY <1>0, <1>14, RequestAssumption DEF Commit, Execution, Effect
    <3>2. effects' \in Seq([key : Keys, body : Bodies, requires : Nat \cup {None}])
      BY <2>2, <3>1 DEF TypeOK
    <3>3. executions' \in Seq([kind : {"executed", "replayed"}, key : Keys])
      BY <2>2, <3>1 DEF TypeOK
    <3>4. claims' \in [Keys -> Bodies \cup {None}] /\ outcomes' \in [Keys -> Nat]
      BY <1>0, <1>14, <2>2 DEF TypeOK, Commit
    <3>5. QED
      BY <1>14, <2>2, <3>2, <3>3, <3>4 DEF Commit, Goto, TypeOK
  <2>3. QED
    BY <1>14, <2>1, <2>2 DEF Commit
<1>15. CASE Answer
  <2>1. call.result \in Nat
    BY DEF TypeOK
  <2>2. QED
    BY <1>1, <1>15, <2>1 DEF Answer
<1>16. CASE Unservable
    BY <1>1, <1>16 DEF Unservable
<1>17. CASE MutateFails
    BY <1>1, <1>17 DEF MutateFails
<1>18. CASE Crash
  <2>1. call' \in CallType
    BY <1>18 DEF Crash, NoCall
  <2>2. UNCHANGED <<effects, claims, outcomes, executions, waiting, answer, losses>>
    BY <1>18 DEF Crash, durable
  <2>3. queued' \in [Requests -> Nat]
    BY <1>18 DEF Crash
  <2>4. up' \in BOOLEAN
    BY <1>18 DEF Crash
  <2>5. crashes' \in Nat
    BY <1>18 DEF Crash, TypeOK
  <2>6. QED
    BY <2>1, <2>2, <2>3, <2>4, <2>5 DEF TypeOK
<1>19. CASE Restart
    BY <1>19 DEF Restart, TypeOK, durable, callers
<1>20. QED
    BY <1>3, <1>4, <1>5, <1>6, <1>7, <1>8, <1>9, <1>10, <1>11, <1>12, <1>13, <1>14, <1>15,
       <1>16, <1>17, <1>18, <1>19 DEF Next, CallStep, Quiescent

-----------------------------------------------------------------------------
(* The tables *)

\* What appending a row does to a table.
LEMMA AppendRow ==
    ASSUME NEW S, NEW t \in Seq(S), NEW e \in S
    PROVE  /\ Len(Append(t, e)) = Len(t) + 1
           /\ DOMAIN t = 1..Len(t) /\ Len(t) \in Nat
           /\ DOMAIN Append(t, e) = DOMAIN t \cup {Len(t) + 1}
           /\ \A i \in DOMAIN t : Append(t, e)[i] = t[i] /\ i # Len(t) + 1
           /\ Append(t, e)[Len(t) + 1] = e
    OBVIOUS

\* A replay leaves a record of itself.
ReplayRecorded(r) ==
    /\ executions' = Append(executions, Execution("replayed", r))
    /\ UNCHANGED <<effects, claims, outcomes>>

\* A mutation commits: its key was free and its precondition held.
Committed(r) ==
    /\ claims[Key[r]] = None
    /\ Requires[r] \in {None, Version}
    /\ effects' = Append(effects, Effect(r, Body[r]))
    /\ claims' = [claims EXCEPT ![Key[r]] = Body[r]]
    /\ outcomes' = [outcomes EXCEPT ![Key[r]] = Version + 1]
    /\ executions' = Append(executions, Execution("executed", r))

\* Every step leaves the tables alone, records a replay or commits a mutation.
LEMMA DurableStep ==
    ASSUME CallCurrent, [Next]_vars
    PROVE  \/ UNCHANGED <<effects, claims, outcomes, executions>>
           \/ \E r \in Requests : ReplayRecorded(r) \/ Committed(r)
<1>1. CASE CommitReplay
    BY <1>1 DEF CommitReplay, CallCurrent, ReplayRecorded
<1>2. CASE Commit
  <2>1. CASE UNCHANGED durable
    BY <2>1 DEF durable
  <2>2. CASE ~UNCHANGED durable
    BY <1>2, <2>2 DEF Commit, CallCurrent, Committed
  <2>3. QED
    BY <2>1, <2>2
<1>3. CASE UNCHANGED durable
    BY <1>3 DEF durable
<1>4. QED
    BY <1>1, <1>2, <1>3, CallFrame
       DEF Grant, Deny, Enter, FindClaim, Replay, CheckPrecondition, Mutate, Answer,
           Unservable, MutateFails, durable

EffectRows == [key : Keys, body : Bodies, requires : Nat \cup {None}]
ExecutionRows == [kind : {"executed", "replayed"}, key : Keys]

\* The effect a commit appends.
LEMMA EffectAppended ==
    ASSUME TypeOK, NEW r \in Requests, effects' = Append(effects, Effect(r, Body[r]))
    PROVE  /\ DOMAIN effects' = DOMAIN effects \cup {Version + 1} /\ Version \in Nat
           /\ \A i \in DOMAIN effects : effects'[i] = effects[i]
           /\ effects'[Version + 1] = Effect(r, Body[r])
<1>1. Effect(r, Body[r]) \in EffectRows
    BY RequestColumns, RequestAssumption DEF Effect, EffectRows
<1>2. effects \in Seq(EffectRows)
    BY DEF TypeOK, EffectRows
<1>3. QED
    BY <1>1, <1>2, AppendRow DEF Version

\* The record an execution or a replay appends.
LEMMA ExecutionAppended ==
    ASSUME TypeOK, NEW r \in Requests, NEW kind \in {"executed", "replayed"},
           executions' = Append(executions, Execution(kind, r))
    PROVE  /\ DOMAIN executions' = DOMAIN executions \cup {Len(executions) + 1}
           /\ \A i \in DOMAIN executions :
                 executions'[i] = executions[i] /\ i # Len(executions) + 1
           /\ executions'[Len(executions) + 1] = Execution(kind, r)
<1>1. Execution(kind, r) \in ExecutionRows
    BY RequestColumns DEF Execution, ExecutionRows
<1>2. executions \in Seq(ExecutionRows)
    BY DEF TypeOK, ExecutionRows
<1>3. QED
    BY <1>1, <1>2, AppendRow

\* An effect's key and fingerprint are columns' values.
LEMMA EffectColumns ==
    ASSUME TypeOK, NEW i \in DOMAIN effects
    PROVE  effects[i].key \in Keys /\ effects[i].body \in Bodies
<1>1. effects \in Seq(EffectRows)
    BY DEF TypeOK, EffectRows
<1>2. effects[i] \in EffectRows
    BY <1>1
<1>3. QED
    BY <1>2 DEF EffectRows

\* A claim once made stays as it is, with its outcome.
LEMMA ClaimKept ==
    ASSUME TypeOK, CallCurrent, [Next]_vars, NEW k \in Keys, claims[k] # None
    PROVE  claims'[k] = claims[k] /\ outcomes'[k] = outcomes[k]
    BY DurableStep, RequestColumns DEF ReplayRecorded, Committed, TypeOK

\* Claims and outcomes stay those of the effects.
LEMMA EffectClaimedStep ==
    MutationInv /\ [Next]_vars => EffectClaimed' /\ EffectsAtRequiredVersion'
<1> SUFFICES ASSUME MutationInv, [Next]_vars
             PROVE  EffectClaimed' /\ EffectsAtRequiredVersion'
    OBVIOUS
<1> USE DEF MutationInv
<1>1. CASE UNCHANGED <<effects, claims, outcomes>>
    BY <1>1 DEF EffectClaimed, EffectsAtRequiredVersion
<1>2. ASSUME NEW r \in Requests, Committed(r)
      PROVE  EffectClaimed' /\ EffectsAtRequiredVersion'
  <2> DEFINE e == Effect(r, Body[r])
  <2>1. /\ DOMAIN effects' = DOMAIN effects \cup {Version + 1} /\ Version \in Nat
        /\ \A i \in DOMAIN effects : effects'[i] = effects[i]
        /\ effects'[Version + 1] = e
    BY <1>2, EffectAppended DEF Committed
  <2>2. e.key = Key[r] /\ e.body = Body[r] /\ e.requires = Requires[r] /\ Key[r] \in Keys
    BY RequestColumns DEF Effect
  <2>3. ASSUME NEW i \in DOMAIN effects
        PROVE  /\ claims'[effects[i].key] = effects[i].body
               /\ outcomes'[effects[i].key] = i
    <3>1. effects[i].key \in Keys /\ effects[i].body \in Bodies
      BY EffectColumns
    <3>2. claims[effects[i].key] # None
      BY <3>1, NoneNoBody DEF EffectClaimed
    <3>3. QED
      BY <3>1, <3>2, ClaimKept DEF EffectClaimed
  <2>4. claims'[Key[r]] = Body[r] /\ outcomes'[Key[r]] = Version + 1
    BY <1>2, <2>2 DEF Committed, TypeOK
  <2>5. EffectClaimed'
    BY <2>1, <2>2, <2>3, <2>4 DEF EffectClaimed
  <2>6. e.requires # None => e.requires = (Version + 1) - 1
    BY <1>2, <2>1, <2>2 DEF Committed
  <2>7. EffectsAtRequiredVersion'
    BY <2>1, <2>6 DEF EffectsAtRequiredVersion
  <2>8. QED
    BY <2>5, <2>7
<1>3. QED
    BY <1>1, <1>2, DurableStep DEF ReplayRecorded

\* Each claimed key keeps its effect and its one record.
LEMMA ClaimExecutedStep == MutationInv /\ [Next]_vars => ClaimExecuted'
<1> SUFFICES ASSUME MutationInv, [Next]_vars, NEW k \in Keys
             PROVE  /\ claims'[k] # None =>
                           /\ \E i \in DOMAIN effects' : effects'[i].key = k
                           /\ \E i \in DOMAIN executions' : Executed(k, i)'
                    /\ \A i \in DOMAIN executions' : Executed(k, i)' => claims'[k] # None
                    /\ \A i, j \in DOMAIN executions' :
                           Executed(k, i)' /\ Executed(k, j)' => i = j
    BY DEF ClaimExecuted
<1> USE DEF MutationInv
<1>1. CASE UNCHANGED <<effects, claims, outcomes, executions>>
    BY <1>1 DEF ClaimExecuted, Executed
<1>2. ASSUME NEW r \in Requests, ReplayRecorded(r) PROVE ClaimExecuted'
  <2>1. /\ DOMAIN executions' = DOMAIN executions \cup {Len(executions) + 1}
        /\ \A i \in DOMAIN executions : executions'[i] = executions[i]
        /\ executions'[Len(executions) + 1] = Execution("replayed", r)
    BY <1>2, ExecutionAppended DEF ReplayRecorded
  <2>2. \A h, i : Executed(h, i)' <=> Executed(h, i)
    BY <2>1 DEF Executed, Execution
  <2>3. UNCHANGED <<effects, claims>>
    BY <1>2 DEF ReplayRecorded
  <2>4. QED
    BY <2>1, <2>2, <2>3 DEF ClaimExecuted, Executed
<1>3. ASSUME NEW r \in Requests, Committed(r) PROVE ClaimExecuted'
  <2>1. /\ DOMAIN executions' = DOMAIN executions \cup {Len(executions) + 1}
        /\ \A i \in DOMAIN executions : executions'[i] = executions[i] /\ i # Len(executions) + 1
        /\ executions'[Len(executions) + 1] = Execution("executed", r)
    BY <1>3, ExecutionAppended DEF Committed
  <2>2. /\ DOMAIN effects' = DOMAIN effects \cup {Version + 1}
        /\ \A i \in DOMAIN effects : effects'[i] = effects[i]
        /\ effects'[Version + 1].key = Key[r]
    <3>1. effects' = Append(effects, Effect(r, Body[r])) /\ Effect(r, Body[r]).key = Key[r]
      BY <1>3 DEF Committed, Effect
    <3>2. QED
      BY <3>1, EffectAppended
  <2>3. \A h, i : Executed(h, i)' <=> \/ Executed(h, i)
                                      \/ i = Len(executions) + 1 /\ h = Key[r]
    BY <2>1 DEF Executed, Execution
  <2>4. /\ claims[Key[r]] = None /\ claims'[Key[r]] # None
        /\ \A h \in Keys : h # Key[r] => claims'[h] = claims[h]
    BY <1>3, RequestColumns, NoneNoBody DEF Committed, TypeOK
  <2>5. \A i \in DOMAIN executions : ~Executed(Key[r], i)
    BY <2>4, RequestColumns DEF ClaimExecuted
  <2>6. ASSUME NEW h \in Keys
        PROVE  /\ claims'[h] # None =>
                      /\ \E i \in DOMAIN effects' : effects'[i].key = h
                      /\ \E i \in DOMAIN executions' : Executed(h, i)'
               /\ \A i \in DOMAIN executions' : Executed(h, i)' => claims'[h] # None
               /\ \A i, j \in DOMAIN executions' :
                      Executed(h, i)' /\ Executed(h, j)' => i = j
    <3>1. CASE h = Key[r]
      BY <2>1, <2>2, <2>3, <2>4, <2>5, <3>1 DEF Executed
    <3>2. CASE h # Key[r]
      <4>1. claims[h] # None => /\ \E i \in DOMAIN effects : effects[i].key = h
                                /\ \E i \in DOMAIN executions : Executed(h, i)
        BY DEF ClaimExecuted
      <4>2. \A i : Executed(h, i)' <=> Executed(h, i)
        BY <2>3, <3>2
      <4>3. /\ \A i \in DOMAIN executions : Executed(h, i) => claims[h] # None
            /\ \A i, j \in DOMAIN executions : Executed(h, i) /\ Executed(h, j) => i = j
        BY DEF ClaimExecuted
      <4>4. \A i : Executed(h, i) => i \in DOMAIN executions
        BY DEF Executed
      <4>5. QED
        BY <2>1, <2>2, <2>4, <3>2, <4>1, <4>2, <4>3, <4>4
    <3>3. QED
      BY <3>1, <3>2
  <2>7. QED
    BY <2>6 DEF ClaimExecuted
<1>4. QED
    BY <1>1, <1>2, <1>3, DurableStep DEF ClaimExecuted

-----------------------------------------------------------------------------
(* The call and the answers *)

\* An answer is heard by its own caller.
LEMMA ReplyHeard ==
    ASSUME TypeOK, NEW q \in Requests, NEW kind, NEW result, Reply(q, kind, result),
           NEW r \in Requests, answer'[r] # answer[r]
    PROVE  r = q /\ answer'[r] = [kind |-> kind, result |-> result]
    BY DEF Reply, TypeOK

\* What a caller hears is so of the tables, which the answer leaves alone.
LEMMA AnswerStep ==
    ASSUME TypeOK, CallCurrent, [Next]_vars, NEW r \in Requests, answer'[r] # answer[r]
    PROVE  /\ UNCHANGED <<effects, claims, outcomes>>
           /\ answer'[r].kind # "result" => answer'[r].result = 0
           /\ \/ answer'[r].kind \in {"denied", "unestablished"}
              \/ /\ answer'[r].kind = "conflict"
                 /\ claims[Key[r]] # None /\ claims[Key[r]] \notin Accepted(r)
              \/ /\ answer'[r].kind = "precondition" /\ claims[Key[r]] = None
                 /\ Requires[r] \notin {None, Version}
              \/ answer'[r].kind = "refused" /\ claims[Key[r]] = None
              \/ answer'[r].kind = "result" /\ Served(r, answer'[r].result)
<1> DEFINE q == call.request
<1>1. call.at # "none" => q \in Requests
    BY DEF CallCurrent
<1>2. ASSUME NEW kind, NEW result, call.at # "none", Reply(q, kind, result)
      PROVE  r = q /\ answer'[r].kind = kind /\ answer'[r].result = result
  <2>1. r = q /\ answer'[r] = [kind |-> kind, result |-> result]
    BY <1>1, <1>2, ReplyHeard
  <2>2. QED
    BY <2>1
<1>3. ASSUME NEW p \in Requests, Deny(p)
      PROVE  /\ answer'[r].kind = "denied" /\ answer'[r].result = 0
             /\ UNCHANGED <<effects, claims, outcomes>>
    BY <1>3 DEF Deny, TypeOK, durable
<1>4. CASE Enter
    BY <1>2, <1>4 DEF Enter, Goto, Expired, durable
<1>5. CASE FindClaim
    BY <1>2, <1>5 DEF FindClaim, Goto, durable
<1>6. CASE Replay
    BY <1>2, <1>6 DEF Replay, Expired, durable
<1>7. CASE CommitReplay
    BY <1>2, <1>7 DEF CommitReplay, Goto, Expired
<1>8. CASE CheckPrecondition
    BY <1>2, <1>8 DEF CheckPrecondition, Goto, Expired, durable, CallCurrent
<1>9. CASE Commit
    BY <1>2, <1>9 DEF Commit, Goto, Expired, durable
<1>10. CASE Answer
    BY <1>2, <1>10 DEF Answer, CallCurrent, durable
<1>11. CASE Unservable
    BY <1>2, <1>11 DEF Unservable, durable
<1>12. CASE MutateFails
    BY <1>2, <1>12 DEF MutateFails, CallCurrent, durable
<1>13. ~(UNCHANGED answer) /\ ~Mutate /\ \A p \in Requests : ~Grant(p)
    BY DEF Grant, Mutate, callers
<1>14. QED
    BY <1>3, <1>4, <1>5, <1>6, <1>7, <1>8, <1>9, <1>10, <1>11, <1>12, <1>13, CallFrame

\* Heard results stay the stored ones.
LEMMA AnswersStoredStep == MutationInv /\ [Next]_vars => AnswersStored'
<1> SUFFICES ASSUME MutationInv, [Next]_vars, NEW r \in Requests, answer'[r].kind = "result"
             PROVE  claims'[Key[r]] \in Accepted(r) /\ answer'[r].result = outcomes'[Key[r]]
    BY DEF AnswersStored, Served
<1> USE DEF MutationInv
<1>1. CASE answer'[r] = answer[r]
  <2>1. Served(r, answer[r].result)
    BY <1>1 DEF AnswersStored
  <2>2. claims[Key[r]] # None
    BY <2>1, RequestColumns, NoneNoBody DEF Served
  <2>3. QED
    BY <1>1, <2>1, <2>2, ClaimKept, RequestColumns DEF Served
<1>2. CASE answer'[r] # answer[r]
    BY <1>2, AnswerStep DEF Served
<1>3. QED
    BY <1>1, <1>2

\* What the call knows stays so.
LEMMA CallCurrentStep == MutationInv /\ [Next]_vars => CallCurrent'
<1> SUFFICES ASSUME MutationInv, [Next]_vars PROVE CallCurrent'
    OBVIOUS
<1> USE DEF MutationInv
<1> DEFINE r == call.request
<1>1. call.at # "none" => r \in Requests /\ Key[r] \in Keys
    BY RequestColumns DEF CallCurrent
<1>2. CASE call' = NoCall
    BY <1>2 DEF NoCall, CallCurrent
<1>3. ASSUME NEW p, Goto(p) PROVE call'.at = p /\ call'.request = r /\ call'.result = call.result
    BY <1>3 DEF Goto, TypeOK
<1>4. CASE call' = call /\ UNCHANGED durable
    BY <1>4 DEF CallCurrent, Served, Version, durable
<1>5. ASSUME NEW q \in Requests, Grant(q) PROVE CallCurrent'
    BY <1>5 DEF Grant, CallCurrent
<1>6. CASE Enter
    BY <1>1, <1>2, <1>3, <1>6 DEF Enter, Expired, Reply, CallCurrent
<1>7. CASE FindClaim
    BY <1>1, <1>2, <1>3, <1>7 DEF FindClaim, Reply, CallCurrent, durable
<1>8. CASE Replay
  <2>1. CASE call' = [call EXCEPT !.at = "replayed", !.result = outcomes[Key[r]]]
    <3>1. call'.at = "replayed" /\ call'.request = r /\ call'.result = outcomes[Key[r]]
      BY <2>1 DEF TypeOK
    <3>2. QED
      BY <1>1, <1>8, <3>1 DEF Replay, CallCurrent, Served, durable
  <2>2. QED
    BY <1>2, <1>8, <2>1 DEF Replay, Expired, Reply
<1>9. CASE CommitReplay
    BY <1>1, <1>2, <1>3, <1>9 DEF CommitReplay, Expired, Reply, CallCurrent, Served
<1>10. CASE CheckPrecondition
    BY <1>1, <1>2, <1>3, <1>10
       DEF CheckPrecondition, Expired, Reply, CallCurrent, Version, durable
<1>11. CASE Mutate
  <2>1. call'.at = "mutated" /\ call'.request = r /\ call'.result = Version + 1
    BY <1>11 DEF Mutate, TypeOK
  <2>2. QED
    BY <1>1, <1>11, <2>1 DEF Mutate, CallCurrent, Version, durable
<1>12. CASE Commit
  <2>1. CASE Expired("denied")
    BY <1>2, <2>1 DEF Expired, Reply
  <2>2. CASE /\ claims' = [claims EXCEPT ![Key[r]] = Body[r]]
             /\ outcomes' = [outcomes EXCEPT ![Key[r]] = call.result]
             /\ Goto("answering")
    <3>1. claims'[Key[r]] = Body[r] /\ outcomes'[Key[r]] = call.result /\ r \in Requests
      BY <1>1, <1>12, <2>2 DEF Commit, TypeOK
    <3>2. QED
      BY <1>3, <2>2, <3>1 DEF CallCurrent, Served, Accepted
  <2>3. QED
    BY <1>12, <2>1, <2>2 DEF Commit
<1>13. QED
    BY <1>2, <1>4, <1>5, <1>6, <1>7, <1>8, <1>9, <1>10, <1>11, <1>12, CallFrame
       DEF Deny, Answer, Unservable, MutateFails, Reply

-----------------------------------------------------------------------------
(* The theorems *)

\* A new workspace and an upgraded one are consistent.
LEMMA MutationInit == Init => MutationInv
<1> SUFFICES ASSUME Init PROVE MutationInv
    OBVIOUS
<1>1. /\ call \in [at : {"none", "granted", "open", "replay", "replayed", "fresh",
                        "claimed", "mutated", "answering"},
                  request : Requests \cup {None}, result : Nat]
      /\ queued \in [Requests -> Nat] /\ waiting \subseteq Requests
      /\ answer \in [Requests -> [kind : {"none", "result", "denied", "conflict",
                                        "precondition", "refused", "unestablished"},
                                 result : Nat]]
      /\ losses \in Nat /\ crashes \in Nat
    BY DEF Init, NoCall, NoAnswer
<1>2. up \in BOOLEAN
    BY DEF Init
<1>3. CallCurrent
    BY DEF Init, NoCall, CallCurrent
<1>4. AnswersStored
    BY DEF Init, NoAnswer, AnswersStored
<1>5. CASE Empty
  <2>1. TypeOK
    BY <1>1, <1>2, <1>5 DEF Empty, TypeOK
  <2>2. EffectClaimed /\ ClaimExecuted /\ EffectsAtRequiredVersion
    BY <1>5 DEF Empty, EffectClaimed, ClaimExecuted, EffectsAtRequiredVersion
  <2>3. QED
    BY <1>3, <1>4, <2>1, <2>2 DEF MutationInv
<1>6. ASSUME NEW r \in Requests, NEW b \in Legacy[r], Upgraded(r, b) PROVE MutationInv
  <2>1. Key[r] \in Keys /\ b \in Bodies /\ b # None
    BY RequestColumns, NoneNoBody
  <2>2. Effect(r, b) \in EffectRows /\ Execution("executed", r) \in ExecutionRows
    BY <2>1, RequestAssumption DEF Effect, EffectRows, Execution, ExecutionRows
  <2>3. effects \in Seq(EffectRows) /\ executions \in Seq(ExecutionRows)
    BY <1>6, <2>2 DEF Upgraded
  <2>4. claims \in [Keys -> Bodies \cup {None}] /\ outcomes \in [Keys -> Nat]
    BY <1>6, <2>1 DEF Upgraded
  <2>5. TypeOK
    BY <1>1, <1>2, <2>3, <2>4 DEF TypeOK, EffectRows, ExecutionRows
  <2>6. /\ DOMAIN effects = {1} /\ effects[1] = Effect(r, b)
        /\ DOMAIN executions = {1} /\ executions[1] = Execution("executed", r)
    BY <1>6 DEF Upgraded
  <2>7. /\ effects[1].key = Key[r] /\ effects[1].body = b /\ effects[1].requires = Requires[r]
        /\ \A k : Executed(k, 1) <=> k = Key[r]
    BY <2>6 DEF Effect, Executed, Execution
  <2>8. /\ claims[Key[r]] = b /\ outcomes[Key[r]] = 1
        /\ \A k \in Keys : claims[k] # None => k = Key[r]
    BY <1>6, <2>1 DEF Upgraded
  <2>9. EffectClaimed
    BY <2>6, <2>7, <2>8 DEF EffectClaimed
  <2>10. ClaimExecuted
    BY <2>1, <2>6, <2>7, <2>8 DEF ClaimExecuted
  <2>11. EffectsAtRequiredVersion
    BY <1>6, <2>6, <2>7 DEF EffectsAtRequiredVersion, Upgraded
  <2>12. QED
    BY <1>3, <1>4, <2>5, <2>9, <2>10, <2>11 DEF MutationInv
<1>7. QED
    BY <1>5, <1>6 DEF Init

\* The seam keeps its invariant.
LEMMA MutationInvariant == Spec => []MutationInv
<1>1. MutationInv /\ [Next]_vars => MutationInv'
    BY MutationTypeStep, EffectClaimedStep, ClaimExecutedStep, CallCurrentStep,
       AnswersStoredStep DEF MutationInv
<1>2. QED
    BY <1>1, MutationInit, PTL DEF Spec

\* One effect per idempotency key, with its claim, its outcome and its one execution
\* record, whatever is sent again, lost or interrupted (execute_mutation's transaction).
THEOREM OneEffectPerKey == Spec => []EffectOnce
<1>1. MutationInv => EffectOnce
  <2> SUFFICES ASSUME MutationInv, NEW k \in Keys
               PROVE  LET done == {i \in DOMAIN effects : effects[i].key = k}
                          run  == {i \in DOMAIN executions :
                                     executions[i] = [kind |-> "executed", key |-> k]}
                      IN /\ Cardinality(done) <= 1 /\ Cardinality(run) = Cardinality(done)
                         /\ claims[k] # None <=> done # {}
                         /\ \A i \in done : claims[k] = effects[i].body /\ outcomes[k] = i
    BY DEF EffectOnce
  <2> USE DEF MutationInv
  <2> DEFINE done == {i \in DOMAIN effects : effects[i].key = k}
             run  == {i \in DOMAIN executions :
                        executions[i] = [kind |-> "executed", key |-> k]}
  <2>1. \A i \in done : claims[k] = effects[i].body /\ outcomes[k] = i
    BY DEF EffectClaimed
  <2>2. \A i \in done : claims[k] # None
    BY <2>1, EffectColumns, NoneNoBody
  <2>3. \A i \in DOMAIN executions : i \in run <=> Executed(k, i)
    BY DEF Executed
  <2>4. CASE claims[k] = None
    <3>1. done = {}
      BY <2>2, <2>4
    <3>2. run = {}
      BY <2>3, <2>4 DEF ClaimExecuted
    <3>3. Cardinality(done) = 0 /\ Cardinality(run) = 0
      BY <3>1, <3>2, FS_EmptySet
    <3>4. QED
      BY <2>4, <3>1, <3>3
  <2>5. CASE claims[k] # None
    <3>1. PICK i \in DOMAIN effects : effects[i].key = k
      BY <2>5 DEF ClaimExecuted
    <3>2. done = {i}
      BY <2>1, <3>1
    <3>3. PICK j \in DOMAIN executions : Executed(k, j)
      BY <2>5 DEF ClaimExecuted
    <3>4. run = {j}
      BY <2>3, <3>3 DEF ClaimExecuted
    <3>5. Cardinality(done) = 1 /\ Cardinality(run) = 1
      BY <3>2, <3>4, FS_Singleton
    <3>6. QED
      BY <2>1, <2>5, <3>2, <3>5
  <2>6. QED
    BY <2>4, <2>5
<1>2. QED
    BY <1>1, MutationInvariant, PTL

\* A result a caller heard is that of its own effect, and all callers of a key hear
\* the same, replays included (_replay).
THEOREM ResultsAreTheEffects == Spec => []AnswersAgree
<1>1. MutationInv => AnswersAgree
  <2> SUFFICES ASSUME MutationInv, NEW r \in Requests, answer[r].kind = "result"
               PROVE  /\ answer[r].result \in EffectsOf(r)
                      /\ \A s \in Requests :
                            answer[s].kind = "result" /\ Key[s] = Key[r]
                               => answer[s] = answer[r]
    BY DEF AnswersAgree
  <2> USE DEF MutationInv
  <2>1. /\ claims[Key[r]] \in Accepted(r) /\ answer[r].result = outcomes[Key[r]]
        /\ Key[r] \in Keys
    BY RequestColumns DEF AnswersStored, Served
  <2>2. claims[Key[r]] # None
    BY <2>1, RequestColumns, NoneNoBody
  <2>3. PICK i \in DOMAIN effects : effects[i].key = Key[r]
    BY <2>1, <2>2 DEF ClaimExecuted
  <2>4. claims[Key[r]] = effects[i].body /\ outcomes[Key[r]] = i
    BY <2>3 DEF EffectClaimed
  <2>5. answer[r].result \in EffectsOf(r)
    BY <2>1, <2>3, <2>4 DEF EffectsOf
  <2>6. ASSUME NEW s \in Requests, answer[s].kind = "result", Key[s] = Key[r]
        PROVE  answer[s] = answer[r]
    <3>1. answer[s].result = answer[r].result
      BY <2>1, <2>6 DEF AnswersStored, Served
    <3>2. \A q \in Requests :
             answer[q] = [kind |-> answer[q].kind, result |-> answer[q].result]
      BY DEF TypeOK
    <3>3. QED
      BY <2>6, <3>1, <3>2
  <2>7. QED
    BY <2>5, <2>6
<1>2. QED
    BY <1>1, MutationInvariant, PTL

\* A mutation that requires a version took effect on exactly that version
\* (the precondition of execute_mutation).
THEOREM NoLostUpdate == Spec => []EffectsAtRequiredVersion
<1>1. MutationInv => EffectsAtRequiredVersion
    BY DEF MutationInv
<1>2. QED
    BY <1>1, MutationInvariant, PTL

\* A failure a caller settles on is never that of a request which took effect (the
\* refusals of execute_mutation and of the replay).
THEOREM SettledFailuresAreTrue == Spec => SettledFailureHadNoEffect
<1>1. MutationInv /\ [Next]_vars =>
        [\A r \in Requests :
            Hears(r, {"conflict", "precondition", "refused"}) => EffectsOf(r) = {}]_vars
  <2> SUFFICES ASSUME MutationInv, [Next]_vars, NEW r \in Requests,
                      Hears(r, {"conflict", "precondition", "refused"})
               PROVE  EffectsOf(r) = {}
    OBVIOUS
  <2> USE DEF MutationInv
  <2>1. claims[Key[r]] = None \/ claims[Key[r]] \notin Accepted(r)
    BY AnswerStep DEF Hears
  <2>2. claims[Key[r]] \notin Accepted(r)
    BY <2>1, RequestColumns, NoneNoBody
  <2>3. QED
    BY <2>2 DEF EffectsOf, EffectClaimed
<1>2. QED
    BY <1>1, MutationInvariant, PTL DEF Spec, SettledFailureHadNoEffect

-----------------------------------------------------------------------------
(* The refinement of IdempotentRegister *)

\* Whoever waits has not settled.
WaitingUnsettled == \A r \in waiting : ~Settles(answer[r])

AnswerKinds == {"result", "denied", "conflict", "precondition", "refused", "unestablished"}

\* Caller q hears something, and waits no more.
Heard(q) ==
    /\ q \in waiting /\ waiting' = waiting \ {q}
    /\ \E kind \in AnswerKinds, result \in Nat :
          answer' = [answer EXCEPT ![q] = [kind |-> kind, result |-> result]]

\* Nobody hears anything, and whoever begins to wait has not settled.
NothingHeard ==
    /\ answer' = answer
    /\ \A r \in waiting' : r \in waiting \/ ~Settles(answer[r])

\* At most one caller hears an answer in a step, and that one was waiting.
LEMMA CallersStep ==
    ASSUME TypeOK, CallCurrent, [Next]_vars
    PROVE  NothingHeard \/ \E q \in Requests : Heard(q)
<1> DEFINE r == call.request
<1>1. call.at # "none" => r \in Requests
    BY DEF CallCurrent
<1>2. ASSUME NEW kind \in AnswerKinds, NEW result \in Nat, call.at # "none",
             Reply(r, kind, result)
      PROVE  NothingHeard \/ \E q \in Requests : Heard(q)
  <2>1. CASE r \in waiting /\ queued[r] = 0
    <3>1. /\ waiting' = waiting \ {r}
          /\ answer' = [answer EXCEPT ![r] = [kind |-> kind, result |-> result]]
      BY <1>2, <2>1 DEF Reply
    <3>2. Heard(r)
      BY <2>1, <3>1 DEF Heard
    <3>3. QED
      BY <1>1, <1>2, <3>2
  <2>2. CASE ~(r \in waiting /\ queued[r] = 0)
    BY <1>2, <2>2 DEF Reply, NothingHeard
  <2>3. QED
    BY <2>1, <2>2
<1>3. UNCHANGED <<waiting, answer>> => NothingHeard
    BY DEF NothingHeard
<1>4. ASSUME NEW p, Goto(p) PROVE NothingHeard
    BY <1>3, <1>4 DEF Goto
<1>5. ASSUME NEW q \in Requests, Send(q) PROVE NothingHeard
    BY <1>5 DEF Send, NothingHeard
<1>6. ASSUME NEW q \in Requests, GiveUp(q) PROVE NothingHeard
    BY <1>6 DEF GiveUp, NothingHeard
<1>7. ASSUME NEW q \in Requests, Grant(q) PROVE NothingHeard
    BY <1>3, <1>7 DEF Grant
<1>8. ASSUME NEW q \in Requests, Deny(q) PROVE NothingHeard \/ Heard(q)
  <2>1. CASE q \in waiting /\ queued'[q] = 0
    <3>1. /\ waiting' = waiting \ {q}
          /\ answer' = [answer EXCEPT ![q] = [kind |-> "denied", result |-> 0]]
      BY <1>8, <2>1 DEF Deny
    <3>2. "denied" \in AnswerKinds /\ 0 \in Nat
      BY DEF AnswerKinds
    <3>3. Heard(q)
      BY <2>1, <3>1, <3>2, Zenon DEF Heard
    <3>4. QED
      BY <3>3
  <2>2. CASE ~(q \in waiting /\ queued'[q] = 0)
    BY <1>8, <2>2 DEF Deny, NothingHeard
  <2>3. QED
    BY <2>1, <2>2
<1>9. CASE Enter
    BY <1>2, <1>4, <1>9 DEF Enter, Expired, AnswerKinds
<1>10. CASE FindClaim
    BY <1>2, <1>4, <1>10 DEF FindClaim, AnswerKinds
<1>11. CASE Replay
    BY <1>2, <1>3, <1>11 DEF Replay, Expired, AnswerKinds
<1>12. CASE CommitReplay
    BY <1>2, <1>4, <1>12 DEF CommitReplay, Expired, AnswerKinds
<1>13. CASE CheckPrecondition
    BY <1>2, <1>4, <1>13 DEF CheckPrecondition, Expired, AnswerKinds
<1>14. CASE Mutate
    BY <1>3, <1>14 DEF Mutate, callers
<1>15. CASE Commit
    BY <1>2, <1>4, <1>15 DEF Commit, Expired, AnswerKinds
<1>16. CASE Answer
  <2>1. call.result \in Nat
    BY DEF TypeOK
  <2>2. QED
    BY <1>2, <1>16, <2>1 DEF Answer, AnswerKinds
<1>17. CASE Unservable
    BY <1>2, <1>17 DEF Unservable, AnswerKinds
<1>18. CASE MutateFails
    BY <1>2, <1>18 DEF MutateFails, AnswerKinds
<1>19. CASE Crash \/ Restart \/ Quiescent \/ UNCHANGED vars
    BY <1>3, <1>19 DEF Crash, Restart, Quiescent, vars, callers
<1>20. QED
    BY <1>5, <1>6, <1>7, <1>8, <1>9, <1>10, <1>11, <1>12, <1>13, <1>14, <1>15, <1>16,
       <1>17, <1>18, <1>19 DEF Next, CallStep

\* Whoever hears an answer waits no more, and only the unsettled begin to wait.
LEMMA WaitingStep ==
    ASSUME TypeOK, CallCurrent, WaitingUnsettled, [Next]_vars
    PROVE  WaitingUnsettled'
<1>1. CASE NothingHeard
    BY <1>1 DEF NothingHeard, WaitingUnsettled, Settles
<1>2. ASSUME NEW q \in Requests, Heard(q) PROVE WaitingUnsettled'
  <2>1. \A p \in waiting' : p \in waiting /\ answer'[p] = answer[p]
    BY <1>2 DEF Heard, TypeOK
  <2>2. QED
    BY <2>1 DEF WaitingUnsettled, Settles
<1>3. QED
    BY <1>1, <1>2, CallersStep

\* What was applied under a request's key is what the tables say of the key.
LEMMA AppliedIsClaimed ==
    ASSUME TypeOK, EffectClaimed, ClaimExecuted, NEW r \in Requests
    PROVE  /\ claims[Key[r]] = None => Register!Under(r) = {}
           /\ claims[Key[r]] # None =>
                 /\ outcomes[Key[r]] \in Register!Under(r)
                 /\ effects[outcomes[Key[r]]].body = claims[Key[r]]
<1>1. ASSUME claims[Key[r]] = None PROVE Register!Under(r) = {}
  <2>1. ASSUME NEW i \in DOMAIN effects, effects[i].key = Key[r] PROVE FALSE
    BY <1>1, <2>1, EffectColumns, NoneNoBody DEF EffectClaimed
  <2>2. QED
    BY <2>1 DEF Register!Under
<1>2. ASSUME claims[Key[r]] # None
      PROVE  /\ outcomes[Key[r]] \in Register!Under(r)
             /\ effects[outcomes[Key[r]]].body = claims[Key[r]]
  <2>1. PICK i \in DOMAIN effects : effects[i].key = Key[r]
    BY <1>2, RequestColumns DEF ClaimExecuted
  <2>2. claims[Key[r]] = effects[i].body /\ outcomes[Key[r]] = i
    BY <2>1 DEF EffectClaimed
  <2>3. QED
    BY <2>1, <2>2 DEF Register!Under
<1>3. QED
    BY <1>1, <1>2

\* Every step of the seam is a step of the register, or changes nothing in it.
LEMMA RegisterStep ==
    ASSUME MutationInv, WaitingUnsettled, [Next]_vars
    PROVE  [Register!Next]_(Register!vars)
<1> USE DEF MutationInv
<1>1. CASE answer' = answer
  <2>1. CASE effects' = effects
    BY <1>1, <2>1 DEF Register!vars
  <2>2. ASSUME NEW r \in Requests, Committed(r) PROVE Register!Next
    <3>1. Register!Under(r) = {}
      BY <2>2, AppliedIsClaimed DEF Committed
    <3>2. Register!Current(r)
      BY <2>2 DEF Committed, Register!Current, Version
    <3>3. effects' = Append(effects, Register!Entry(r, Body[r]))
      BY <2>2 DEF Committed, Effect, Register!Entry
    <3>4. Register!Apply(r)
      BY <1>1, <3>1, <3>2, <3>3 DEF Register!Apply
    <3>5. QED
      BY <3>4 DEF Register!Next
  <2>3. QED
    BY <2>1, <2>2, DurableStep DEF ReplayRecorded
<1>2. ASSUME NEW r \in Requests, Heard(r), answer' # answer PROVE Register!Next
  <2>1. PICK kind \in AnswerKinds, result \in Nat :
           answer' = [answer EXCEPT ![r] = [kind |-> kind, result |-> result]]
    BY <1>2 DEF Heard
  <2>2. answer'[r] = [kind |-> kind, result |-> result]
    BY <2>1 DEF TypeOK
  <2>3. answer'[r] # answer[r]
    BY <1>2, <2>1, <2>2 DEF TypeOK
  <2>4. answer'[r].kind = kind /\ answer'[r].result = result
    BY <2>2
  <2>5. /\ effects' = effects
        /\ kind # "result" => result = 0
        /\ \/ kind \in {"denied", "unestablished"}
           \/ /\ kind = "conflict"
              /\ claims[Key[r]] # None /\ claims[Key[r]] \notin Accepted(r)
           \/ /\ kind = "precondition" /\ claims[Key[r]] = None
              /\ Requires[r] \notin {None, Version}
           \/ kind = "refused" /\ claims[Key[r]] = None
           \/ kind = "result" /\ Served(r, result)
    BY <2>3, <2>4, AnswerStep
  <2>6. ~Register!Settled(r)
    BY <1>2 DEF Heard, WaitingUnsettled, Settles, Register!Settled
  <2>7. Register!Hear(r, kind, result)
    BY <2>1, <2>5, <2>6 DEF Register!Hear
  <2>8. CASE kind \in {"denied", "unestablished"}
    <3>1. Register!HearNothing(r)
      BY <2>5, <2>7, <2>8 DEF Register!HearNothing
    <3>2. QED
      BY <3>1 DEF Register!Next
  <2>9. CASE kind = "conflict"
    <3>1. outcomes[Key[r]] \in Register!Under(r)
          /\ effects[outcomes[Key[r]]].body \notin Register!Spellings(r)
      BY <2>5, <2>9, AppliedIsClaimed DEF Accepted, Register!Spellings
    <3>2. Register!Hear(r, "conflict", 0)
      BY <2>5, <2>7, <2>9
    <3>3. Register!HearConflict(r)
      BY <3>1, <3>2 DEF Register!HearConflict
    <3>4. QED
      BY <3>3 DEF Register!Next
  <2>10. CASE kind = "precondition"
    <3>1. Register!Under(r) = {}
      BY <2>5, <2>10, AppliedIsClaimed
    <3>2. ~Register!Current(r)
      BY <2>5, <2>10 DEF Register!Current, Version
    <3>3. Register!Hear(r, "precondition", 0)
      BY <2>5, <2>7, <2>10
    <3>4. Register!HearPrecondition(r)
      BY <3>1, <3>2, <3>3 DEF Register!HearPrecondition
    <3>5. QED
      BY <3>4 DEF Register!Next
  <2>11. CASE kind = "refused"
    <3>1. Register!Under(r) = {}
      BY <2>5, <2>11, AppliedIsClaimed
    <3>2. Register!Hear(r, "refused", 0)
      BY <2>5, <2>7, <2>11
    <3>3. Register!HearRefused(r)
      BY <3>1, <3>2 DEF Register!HearRefused
    <3>4. QED
      BY <3>3 DEF Register!Next
  <2>12. CASE kind = "result"
    <3>1. claims[Key[r]] \in Accepted(r) /\ result = outcomes[Key[r]]
      BY <2>5, <2>12 DEF Served
    <3>2. claims[Key[r]] # None
      BY <3>1, RequestColumns, NoneNoBody
    <3>3. result \in Register!Under(r) /\ effects[result].body \in Register!Spellings(r)
      BY <3>1, <3>2, AppliedIsClaimed DEF Accepted, Register!Spellings
    <3>4. Register!Hear(r, "result", result)
      BY <2>7, <2>12
    <3>5. Register!HearResult(r)
      BY <3>3, <3>4 DEF Register!HearResult
    <3>6. QED
      BY <3>5 DEF Register!Next
  <2>13. QED
    BY <2>5, <2>8, <2>9, <2>10, <2>11, <2>12
<1>3. QED
    BY <1>1, <1>2, CallersStep DEF NothingHeard

\* The seam implements the register: however requests are sent again, answers lost and
\* processes killed, a key is applied at most once and at the version it requires, and
\* whatever a caller hears is then true of the record (execute_mutation).
THEOREM RegisterRefinement == Spec => ImplementsRegister
<1>1. Init => Register!Init
  <2> SUFFICES ASSUME Init PROVE Register!Init
    OBVIOUS
  <2>1. answer = [r \in Requests |-> [kind |-> "none", result |-> 0]]
    BY DEF Init, NoAnswer
  <2>2. CASE Empty
    BY <2>1, <2>2 DEF Empty, Register!Init
  <2>3. ASSUME NEW r \in Requests, NEW b \in Legacy[r], Upgraded(r, b)
        PROVE  Register!Init
    <3>1. Requires[r] \in {0, None} /\ effects = <<Register!Entry(r, b)>>
      BY <2>3 DEF Upgraded, Effect, Register!Entry
    <3>2. QED
      BY <2>1, <3>1 DEF Register!Init
  <2>4. QED
    BY <2>2, <2>3 DEF Init
<1>2. Init => WaitingUnsettled
    BY DEF Init, WaitingUnsettled
<1>3. MutationInv /\ WaitingUnsettled /\ [Next]_vars => WaitingUnsettled'
    BY WaitingStep DEF MutationInv
<1>4. MutationInv /\ WaitingUnsettled /\ [Next]_vars => [Register!Next]_(Register!vars)
    BY RegisterStep
<1>5. QED
    BY <1>1, <1>2, <1>3, <1>4, MutationInvariant, PTL
       DEF Spec, ImplementsRegister, Register!Spec
=============================================================================
