------------------------- MODULE DelayedRetryProofs -------------------------
(***************************************************************************)
(* Proofs about DelayedRetry for every retry budget and number of calls.   *)
(***************************************************************************)
EXTENDS DelayedRetry, TLAPS

Phases == {"inspect", "write", "lock", "open", "attr", "deleg", "close", "remove"}

\* The operation with an effect that a phase sends, and those that the phases
\* after it may send.
Own(phase) ==
    CASE phase = "inspect" -> {}
      [] phase = "write"   -> {"Write"}
      [] phase = "lock"    -> {"Lock"}
      [] phase = "open"    -> {"Open"}
      [] phase = "attr"    -> {"Open"}
      [] phase = "deleg"   -> {"DelegReturn"}
      [] phase = "close"   -> {"Close"}
      [] phase = "remove"  -> {"Remove"}

After(phase) ==
    CASE phase \in {"open", "attr"} -> {"DelegReturn", "Close", "Remove"}
      [] phase = "deleg"            -> {"Close", "Remove"}
      [] phase = "close"            -> {"Remove"}
      [] OTHER                      -> {}

\* What is still to be sent has not taken effect; once the response is there
\* the phase's own operation has taken effect as often as the response says.
Fresh ==
    /\ \A op \in Effects : execs[op] \in {0, 1}
    /\ pc \in {"send", "got"} => \A op \in After(call.phase) : execs[op] = 0
    /\ pc = "send" => \A op \in Own(call.phase) : execs[op] = 0
    /\ pc = "got" => \A op \in Own(call.phase) : ~Took(op, reply) => execs[op] = 0

Inv == TypeOK /\ SlotInStep /\ Fresh

-----------------------------------------------------------------------------
\* The COMPOUNDs have these phases.
LEMMA PhasesOfCompound == DOMAIN Compound = Phases
BY DEF Compound, Phases

\* The only operation with an effect in a phase's COMPOUND is its own, and
\* before the operation a loop rebuilds there is none.
LEMMA EffectsOfCompound ==
    ASSUME NEW phase \in Phases
    PROVE  /\ Len(Compound[phase]) \in Nat /\ DOMAIN Compound[phase] = 1..Len(Compound[phase])
           /\ \A i \in 1..Len(Compound[phase]) :
                 Compound[phase][i] \in Effects => Compound[phase][i] \in Own(phase)
           /\ \A i, j \in 1..Len(Compound[phase]) :
                 i < j /\ Compound[phase][j] = Rebuilt[phase] => Compound[phase][i] \notin Effects
<1> USE DEF Effects, Own, Rebuilt
<1>1. CASE phase = "inspect"
  <2>1. Compound[phase] = <<"Lookup", "GetAttr">>
    BY <1>1 DEF Compound
  <2> QED  BY <1>1, <2>1
<1>2. CASE phase = "write"
  <2>1. Compound[phase] = <<"PutFh", "Write">>
    BY <1>2 DEF Compound
  <2> QED  BY <1>2, <2>1
<1>3. CASE phase = "lock"
  <2>1. Compound[phase] = <<"PutFh", "Lock">>
    BY <1>3 DEF Compound
  <2> QED  BY <1>3, <2>1
<1>4. CASE phase = "open"
  <2>1. Compound[phase] = <<"Lookup", "Open", "GetFh">>
    BY <1>4 DEF Compound
  <2> QED  BY <1>4, <2>1
<1>5. CASE phase = "attr"
  <2>1. Compound[phase] = <<"Lookup", "OpenAttr", "Open", "GetFh">>
    BY <1>5 DEF Compound
  <2> QED  BY <1>5, <2>1
<1>6. CASE phase = "deleg"
  <2>1. Compound[phase] = <<"PutFh", "DelegReturn">>
    BY <1>6 DEF Compound
  <2> QED  BY <1>6, <2>1
<1>7. CASE phase = "close"
  <2>1. Compound[phase] = <<"PutFh", "Close">>
    BY <1>7 DEF Compound
  <2> QED  BY <1>7, <2>1
<1>8. CASE phase = "remove"
  <2>1. Compound[phase] = <<"Lookup", "Remove">>
    BY <1>8 DEF Compound
  <2> QED  BY <1>8, <2>1
<1> QED  BY <1>1, <1>2, <1>3, <1>4, <1>5, <1>6, <1>7, <1>8 DEF Phases

\* Nothing that may be repeated as a prefix has an effect.
LEMMA PrefixHasNoEffect == ReplayablePrefix \cap Effects = {}
BY DEF ReplayablePrefix, Effects

\* What a response says took effect is the phase's own operation.
LEMMA TookIsOwn ==
    ASSUME TypeOK, NEW r \in Reply, NEW op \in Effects, Took(op, r)
    PROVE  op \in Own(call.phase)
<1>1. call.phase \in Phases  BY PhasesOfCompound DEF TypeOK
<1>2. r.ok \in Nat /\ r.ok <= Len(Ops) + 1  BY <1>1, EffectsOfCompound DEF Reply, Ops
<1>3. PICK i \in 1..(r.ok - 1) : Ops[i] = op  BY DEF Took
<1>4. i \in 1..Len(Ops)  BY <1>1, <1>2, <1>3, EffectsOfCompound DEF Ops
<1> QED  BY <1>1, <1>3, <1>4, EffectsOfCompound DEF Ops

\* compound_status sends again only when nothing took effect.
LEMMA RepeatIsHarmless ==
    ASSUME TypeOK, NEW r \in Reply, AllowsDelayedRetry(Ops, r), NEW op \in Effects
    PROVE  ~Took(op, r)
<1>1. r.ok \in Nat  BY DEF Reply
<1>2. CASE r.ok = 0  BY <1>1, <1>2 DEF Took
<1>3. CASE \A i \in 1..(r.ok - 1) : Ops[i] \in ReplayablePrefix
  BY <1>3, PrefixHasNoEffect DEF Took
<1> QED  BY <1>2, <1>3 DEF AllowsDelayedRetry

\* The loops around OPEN, LOCK and CLOSE rebuild only what did not take effect.
LEMMA RebuildIsHarmless ==
    ASSUME TypeOK, OwnerDelayed, NEW op \in Effects
    PROVE  ~Took(op, reply)
<1>1. call.phase \in Phases  BY PhasesOfCompound DEF TypeOK
<1>2. reply.ok \in 1..Len(Ops) /\ Ops[reply.ok] = Rebuilt[call.phase]
  BY <1>1, EffectsOfCompound DEF OwnerDelayed, Ops
<1>3. \A i \in 1..(reply.ok - 1) : i \in 1..Len(Ops) /\ i < reply.ok
  BY <1>1, <1>2, EffectsOfCompound DEF Ops
<1> QED  BY <1>1, <1>2, <1>3, EffectsOfCompound DEF Ops, Took

-----------------------------------------------------------------------------
\* A new client has an empty slot and has executed nothing.
LEMMA InitInv == Init => Inv
<1> SUFFICES ASSUME Init PROVE Inv  OBVIOUS
<1>1. call \in [kind : DOMAIN Compound \cup {"temp"}, phase : DOMAIN Compound, saved : Statuses]
  BY PhasesOfCompound DEF Init, Phases, Statuses
<1>2. \A op \in Effects : execs[op] = 0  BY DEF Init
<1>3. execs \in [Effects -> Nat]  BY DEF Init
<1>4. reply \in [ok : Nat, status : Statuses]  BY DEF Init, NoReply, Statuses
<1>5. TypeOK
  <2>1. result \in Statuses  BY DEF Init, Statuses
  <2>2. retry \in 0..MaxRetries /\ outer \in 0..MaxRetries /\ calls \in 0..MaxCalls
    BY ConstantsAssumption DEF Init
  <2>3. /\ seq \in Nat /\ slot \in Nat /\ sent \in Nat /\ opens \in {0, 1}
        /\ pc \in {"idle", "send", "got"}
    BY DEF Init
  <2>4. deleg \in BOOLEAN /\ path \in BOOLEAN /\ unclean \in BOOLEAN  BY DEF Init
  <2> QED  BY <1>1, <1>3, <1>4, <2>1, <2>2, <2>3, <2>4 DEF TypeOK
<1>6. SlotInStep  BY DEF Init, SlotInStep
<1>7. Fresh  BY <1>2 DEF Init, Fresh
<1> QED  BY <1>5, <1>6, <1>7 DEF Inv

\* Starting a call resets the history of the call.
LEMMA BeginInv ==
    ASSUME Inv, Inspect \/ OpenFile \/ UseFile
    PROVE  Inv'
<1>1. PICK kind \in DOMAIN Compound \cup {"temp"}, phase \in DOMAIN Compound : Begin(kind, phase)
  BY PhasesOfCompound DEF Inspect, OpenFile, UseFile, Phases
<1>2. TypeOK'
  <2>1. call' \in [kind : DOMAIN Compound \cup {"temp"}, phase : DOMAIN Compound, saved : Statuses]
    BY <1>1 DEF Begin, Statuses
  <2>2. execs' \in [Effects -> Nat]  BY <1>1 DEF Begin
  <2>3. calls' \in 0..MaxCalls /\ retry' \in 0..MaxRetries /\ outer' \in 0..MaxRetries
    BY <1>1, ConstantsAssumption DEF Inv, TypeOK, Begin
  <2> QED  BY <1>1, <2>1, <2>2, <2>3 DEF Inv, TypeOK, Begin, serverVars
<1>3. SlotInStep'  BY <1>1 DEF Inv, SlotInStep, Begin, serverVars
<1>4. \A op \in Effects : execs'[op] = 0  BY <1>1 DEF Begin
<1>5. phase \in Phases /\ call'.phase = phase /\ pc' = "send"  BY <1>1, PhasesOfCompound DEF Begin
<1>6. Own(phase) \subseteq Effects /\ After(phase) \subseteq Effects
  BY <1>5 DEF Own, After, Effects, Phases
<1>7. Fresh'  BY <1>4, <1>5, <1>6 DEF Fresh
<1> QED  BY <1>2, <1>3, <1>7 DEF Inv

\* One turn of compound_status: a request that is sent again had no effect, one
\* that is not had at most the effect of its phase, for the first time.
LEMMA SendInv ==
    ASSUME Inv, Send
    PROVE  Inv'
<1>1. PICK r \in Reply :
        /\ Serve(r) /\ seq' = NextSeq(r.ok)
        /\ IF AllowsDelayedRetry(Ops, r) /\ WithinBudget(retry)
           THEN retry' = retry + 1 /\ UNCHANGED <<pc, reply>>
           ELSE pc' = "got" /\ reply' = r /\ UNCHANGED retry
  BY DEF Send
<1>2. /\ pc = "send" /\ sent' = sent + 1 /\ call' = call /\ outer' = outer /\ result' = result
      /\ unclean' = unclean /\ calls' = calls
  BY DEF Send
<1>3. r.ok \in Nat /\ r \in [ok : Nat, status : Statuses]
  <2>1. call.phase \in Phases  BY PhasesOfCompound DEF Inv, TypeOK
  <2>2. Len(Ops) \in Nat  BY <2>1, EffectsOfCompound DEF Ops
  <2> QED  BY <2>2 DEF Reply
<1>4. execs' = [op \in Effects |-> IF Took(op, r) THEN execs[op] + 1 ELSE execs[op]]
  BY <1>1 DEF Serve
<1>5. TypeOK'
  <2>1. seq' \in Nat /\ slot' \in Nat /\ sent' \in Nat
    BY <1>1, <1>2, <1>3 DEF Inv, TypeOK, Serve, NextSeq
  <2>2. opens' \in {0, 1}  BY <1>1 DEF Inv, TypeOK, Serve
  <2>3. deleg' \in BOOLEAN  BY <1>1, Zenon DEF Inv, TypeOK, Serve
  <2>4. path' \in BOOLEAN  BY <1>1, Zenon DEF Inv, TypeOK, Serve
  <2>5. execs' \in [Effects -> Nat]  BY <1>4 DEF Inv, TypeOK
  <2>6. retry' \in 0..MaxRetries
    BY <1>1, ConstantsAssumption DEF Inv, TypeOK, WithinBudget
  <2>7. pc' \in {"idle", "send", "got"} /\ reply' \in [ok : Nat, status : Statuses]
    BY <1>1, <1>2, <1>3 DEF Inv, TypeOK
  <2> QED  BY <1>2, <2>1, <2>2, <2>3, <2>4, <2>5, <2>6, <2>7 DEF Inv, TypeOK
<1>6. SlotInStep'  BY <1>1, <1>3 DEF Inv, TypeOK, SlotInStep, Serve, NextSeq
<1>7. Fresh'
  <2> DEFINE phase == call.phase
  <2>1. phase \in Phases  BY PhasesOfCompound DEF Inv, TypeOK
  <2>2. /\ Own(phase) \subseteq Effects /\ After(phase) \subseteq Effects
        /\ Own(phase) \cap After(phase) = {}
    BY <2>1 DEF Own, After, Effects, Phases
  <2>3. \A op \in Effects : execs[op] \in {0, 1} /\ (Took(op, r) => op \in Own(phase))
    BY TookIsOwn DEF Inv, Fresh
  <2>4. \A op \in Own(phase) \cup After(phase) : execs[op] = 0
    BY <1>2 DEF Inv, Fresh
  <2>5. /\ \A op \in Effects : execs'[op] \in {0, 1}
        /\ \A op \in After(phase) : execs'[op] = 0
        /\ \A op \in Own(phase) : ~Took(op, r) => execs'[op] = 0
    BY <1>4, <2>2, <2>3, <2>4
  <2>6. CASE pc' = "got" /\ reply' = r
    <3>1. \A op \in Own(phase) : Took(op, reply)' = Took(op, r)
      BY <1>2, <2>6 DEF Took, Ops
    <3> QED  BY <1>2, <2>5, <2>6, <3>1 DEF Fresh
  <2>7. CASE AllowsDelayedRetry(Ops, r) /\ pc' = pc
    <3>1. \A op \in Effects : ~Took(op, r)  BY <2>7, RepeatIsHarmless DEF Inv
    <3> QED  BY <1>2, <2>2, <2>5, <2>7, <3>1 DEF Fresh
  <2> QED  BY <1>1, <2>6, <2>7
<1> QED  BY <1>5, <1>6, <1>7 DEF Inv

\* A rebuilt request had no effect before.
LEMMA RebuildInv ==
    ASSUME Inv, Rebuild
    PROVE  Inv'
<1>1. TypeOK'
  BY ConstantsAssumption
  DEF Inv, TypeOK, Rebuild, WithinBudget, NoReply, Statuses, serverVars, histVars
<1>2. SlotInStep'  BY DEF Inv, SlotInStep, Rebuild, serverVars
<1>3. \A op \in Effects : ~Took(op, reply)  BY RebuildIsHarmless DEF Inv, Rebuild
<1>4. call.phase \in Phases  BY PhasesOfCompound DEF Inv, TypeOK
<1>5. Own(call.phase) \subseteq Effects  BY <1>4 DEF Own, Effects, Phases
<1>6. Fresh'  BY <1>3, <1>5 DEF Inv, Fresh, Rebuild, histVars
<1> QED  BY <1>1, <1>2, <1>6 DEF Inv

\* The call ends: only the slot and the counts are left to speak of.
LEMMA FinishInv ==
    ASSUME Inv, NEW status \in Statuses, Finish(status), reply' = NoReply,
           unclean' \in BOOLEAN, UNCHANGED <<seq, serverVars, execs, sent, calls>>
    PROVE  Inv'
<1>1. TypeOK'
  BY ConstantsAssumption DEF Inv, TypeOK, Finish, NoReply, Statuses, serverVars
<1>2. SlotInStep'  BY DEF Inv, SlotInStep, serverVars
<1>3. Fresh'  BY DEF Inv, Fresh, Finish
<1> QED  BY <1>1, <1>2, <1>3 DEF Inv

\* The call goes on to a phase whose operations have not been sent.
LEMMA PhaseInv ==
    ASSUME Inv, pc = "got", NEW phase \in Phases, NEW saved \in Statuses, Phase(phase, saved),
           Own(phase) \cup After(phase) \subseteq After(call.phase),
           reply' = NoReply, unclean' \in BOOLEAN, UNCHANGED <<seq, serverVars, execs, sent, calls>>
    PROVE  Inv'
<1>1. call' = [call EXCEPT !.phase = phase, !.saved = saved]  BY DEF Phase
<1>2. call' \in [kind : DOMAIN Compound \cup {"temp"}, phase : DOMAIN Compound, saved : Statuses]
  BY <1>1, PhasesOfCompound DEF Inv, TypeOK
<1>3. call'.phase = phase  BY <1>1 DEF Inv, TypeOK
<1>4. TypeOK'
  BY <1>2, ConstantsAssumption DEF Inv, TypeOK, Phase, NoReply, Statuses, serverVars
<1>5. SlotInStep'  BY DEF Inv, SlotInStep, serverVars
<1>6. Fresh'  BY <1>3 DEF Inv, Fresh, Phase
<1> QED  BY <1>4, <1>5, <1>6 DEF Inv

\* What the operations do with a response: a new phase, or the end of the call.
LEMMA HandleInv ==
    ASSUME Inv, Handle
    PROVE  Inv'
<1> USE DEF Inv
<1>1. reply.status \in Statuses /\ call.saved \in Statuses /\ unclean \in BOOLEAN
  BY DEF TypeOK
<1>2. "ok" \in Statuses /\ "error" \in Statuses  BY DEF Statuses
<1>3. CASE Rebuild  BY <1>3, RebuildInv
<1>4. CASE SimpleReturns  BY <1>1, <1>4, FinishInv DEF SimpleReturns, histVars
<1>5. CASE OpenRefused  BY <1>1, <1>5, FinishInv DEF OpenRefused, histVars
<1>6. CASE OpenUnusable
  <2> DEFINE saved == IF reply.status = "ok" THEN "error" ELSE reply.status
  <2>1. saved \in Statuses  BY <1>1, <1>2
  <2>2. Own("close") \cup After("close") \subseteq After(call.phase) /\ "close" \in Phases
    BY <1>6 DEF OpenUnusable, Own, After, Phases
  <2> QED  BY <1>1, <1>6, <2>1, <2>2, PhaseInv DEF OpenUnusable, Settled, histVars
<1>7. CASE OpenReturns
  <2>1. CASE Finish("ok")  BY <1>1, <1>2, <1>7, <2>1, FinishInv DEF OpenReturns, histVars
  <2>2. CASE Phase("deleg", "ok")
    <3>1. Own("deleg") \cup After("deleg") \subseteq After(call.phase) /\ "deleg" \in Phases
      BY <1>7 DEF OpenReturns, Own, After, Phases
    <3> QED  BY <1>1, <1>2, <1>7, <2>2, <3>1, PhaseInv DEF OpenReturns, Settled, histVars
  <2> QED  BY <1>7, <2>1, <2>2 DEF OpenReturns
<1>8. CASE DelegReturned
  <2>1. CASE Finish("ok") /\ UNCHANGED unclean
    BY <1>1, <1>2, <1>8, <2>1, FinishInv DEF DelegReturned
  <2>2. CASE Phase("close", reply.status) /\ unclean' = TRUE
    <3>1. Own("close") \cup After("close") \subseteq After(call.phase) /\ "close" \in Phases
      BY <1>8 DEF DelegReturned, Own, After, Phases
    <3> QED  BY <1>1, <1>8, <2>2, <3>1, PhaseInv DEF DelegReturned, Settled
  <2> QED  BY <1>8, <2>1, <2>2 DEF DelegReturned
<1>9. CASE CleanupClosed
  <2>1. unclean' \in BOOLEAN  BY <1>9, Zenon DEF CleanupClosed
  <2>2. CASE Finish(call.saved)  BY <1>1, <1>9, <2>1, <2>2, FinishInv DEF CleanupClosed
  <2>3. CASE Phase("remove", call.saved)
    <3>1. Own("remove") \cup After("remove") \subseteq After(call.phase) /\ "remove" \in Phases
      BY <1>9 DEF CleanupClosed, Own, After, Phases
    <3> QED  BY <1>1, <1>9, <2>1, <2>3, <3>1, PhaseInv DEF CleanupClosed, Settled
  <2> QED  BY <1>9, <2>2, <2>3 DEF CleanupClosed
<1>10. CASE CleanupRemoved
  <2>1. unclean' \in BOOLEAN  BY <1>10, Zenon DEF CleanupRemoved
  <2> QED  BY <1>1, <1>10, <2>1, FinishInv DEF CleanupRemoved
<1> QED  BY <1>3, <1>4, <1>5, <1>6, <1>7, <1>8, <1>9, <1>10 DEF Handle

\* Every step, and stuttering, keeps the invariant.
LEMMA NextInv == Inv /\ [Next]_vars => Inv'
<1> SUFFICES ASSUME Inv, [Next]_vars PROVE Inv'  OBVIOUS
<1>1. CASE Inspect \/ OpenFile \/ UseFile  BY <1>1, BeginInv
<1>2. CASE Send  BY <1>2, SendInv
<1>3. CASE Handle  BY <1>3, HandleInv
<1>4. CASE UNCHANGED vars
  BY <1>4
  DEF Inv, TypeOK, SlotInStep, Fresh, Took, Ops, vars, clientVars, serverVars, histVars
<1> QED  BY <1>1, <1>2, <1>3, <1>4 DEF Next

-----------------------------------------------------------------------------
\* The variables keep their types; in particular neither loop exceeds the
\* budget of RetryPolicy.
THEOREM TypeCorrect == Spec => []TypeOK
<1>1. Inv => TypeOK  BY DEF Inv
<1> QED  BY <1>1, InitInv, NextInv, PTL DEF Spec

\* Whatever the server delays or refuses, each request carries the sequence id
\* the server's slot expects (sequence_succeeded).
THEOREM SlotStaysInStep == Spec => []SlotInStep
<1>1. Inv => SlotInStep  BY DEF Inv
<1> QED  BY <1>1, InitInv, NextInv, PTL DEF Spec

\* No operation takes effect twice in one call, however the DELAY loop of
\* compound_status and the loops around OPEN, LOCK and CLOSE nest.
THEOREM NothingTwice == Spec => []NoReexecution
<1>1. Inv => NoReexecution
  <2> SUFFICES ASSUME Inv, NEW op \in Effects PROVE execs[op] <= 1  BY DEF NoReexecution
  <2>1. execs[op] \in {0, 1}  BY DEF Inv, Fresh
  <2> QED  BY <2>1
<1> QED  BY <1>1, InitInv, NextInv, PTL DEF Spec
=============================================================================
