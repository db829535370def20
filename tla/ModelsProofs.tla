---------------------------- MODULE ModelsProofs ----------------------------
(***************************************************************************)
(* Proofs about Models, for any models, parameters and number of requests. *)
(***************************************************************************)
EXTENDS Models, TLAPS

-----------------------------------------------------------------------------
(* Types.                                                                  *)

\* What a request holds at each of its steps.
LEMMA CallerShape ==
    ASSUME NEW q \in CallerState
    PROVE  /\ q.step # "idle" => q.model \in ModelIds
           /\ q.step = "save" => q.row \in ModelRow
           /\ q.step = "fill" => q.parameters \in Parameters
BY DEF CallerState, Idle

\* Callers keep their types when one of them goes to a state of a caller.
LEMMA CallerMoves ==
    ASSUME ModelsTypeOK, NEW k \in Callers, NEW state \in CallerState,
           CallerTo(k, state)
    PROVE  caller' \in [Callers -> CallerState]
BY DEF ModelsTypeOK, CallerTo

\* A caller that calls nothing is in a state of a caller.
LEMMA IdleIsAState == Idle \in CallerState
BY DEF CallerState

\* The first step of every operation keeps the types.
LEMMA BeginTypes ==
    ASSUME ModelsTypeOK, NEW k \in Callers, NEW m \in ModelIds, Begin(k, m)
    PROVE  ModelsTypeOK'
<1>1. ASSUME NEW row \in ModelRow, CreateModel(k, m, row) PROVE ModelsTypeOK'
  BY <1>1 DEF CreateModel, ModelsTypeOK
<1>2. ASSUME NEW status \in Statuses, UpdateModelStatus(k, m, status)
      PROVE  ModelsTypeOK'
  <2>1. [model[m] EXCEPT !.status = status] \in ModelRow
    BY <1>2 DEF UpdateModelStatus, ModelsTypeOK, ModelRow
  <2> QED BY <1>2, <2>1 DEF UpdateModelStatus, ModelsTypeOK
<1>3. ASSUME NEW given \in SUBSET {"status", "parameters"}, NEW request \in ModelRow,
             BeginUpdateModel(k, m, given, request)
      PROVE  ModelsTypeOK'
  <2>1. Changed(model[m], given, request) \in ModelRow
    BY <1>3 DEF BeginUpdateModel, ModelsTypeOK, ModelRow, Changed
  <2>2. [step |-> "save", model |-> m, row |-> Changed(model[m], given, request)]
           \in CallerState
    BY <2>1 DEF CallerState
  <2> QED BY <1>3, <2>2, CallerMoves DEF BeginUpdateModel, ModelsTypeOK
<1>4. ASSUME Miss(k, m) PROVE ModelsTypeOK'
  <2>1. [step |-> "read", model |-> m] \in CallerState
    BY DEF CallerState
  <2> QED BY <1>4, <2>1, CallerMoves DEF Miss, ModelsTypeOK
<1> QED BY <1>1, <1>2, <1>3, <1>4 DEF Begin

\* The later steps of every operation keep the types.
LEMMA ContinueTypes ==
    ASSUME ModelsTypeOK, NEW k \in Callers, Continue(k)
    PROVE  ModelsTypeOK'
<1>q. caller[k] \in CallerState
  BY DEF ModelsTypeOK
<1>1. ASSUME SaveModel(k) PROVE ModelsTypeOK'
  <2>1. caller[k].model \in ModelIds /\ caller[k].row \in ModelRow
    BY <1>q, <1>1, CallerShape DEF SaveModel
  <2>2. [step |-> "invalidate", model |-> caller[k].model] \in CallerState
    BY <2>1 DEF CallerState
  <2> QED BY <1>1, <2>1, <2>2, CallerMoves DEF SaveModel, ModelsTypeOK
<1>2. ASSUME Invalidate(k) PROVE ModelsTypeOK'
  BY <1>2, CallerMoves, IdleIsAState DEF Invalidate, DropCopy, ModelsTypeOK
<1>3. ASSUME ReadParameters(k) PROVE ModelsTypeOK'
  <2> DEFINE m == caller[k].model
             next == IF model[m] = NoModel THEN Idle
                     ELSE [step |-> "fill", model |-> m,
                           parameters |-> model[m].parameters]
  <2>1. m \in ModelIds
    BY <1>q, <1>3, CallerShape DEF ReadParameters
  <2>2. next \in CallerState
    BY <2>1 DEF CallerState, ModelsTypeOK, ModelRow
  <2>3. CallerTo(k, next) /\ UNCHANGED <<model, cache, late, missed>>
    BY <1>3 DEF ReadParameters
  <2> HIDE DEF next
  <2> QED BY <2>2, <2>3, CallerMoves DEF ModelsTypeOK
<1>4. ASSUME Fill(k) PROVE ModelsTypeOK'
  <2>1. caller[k].model \in ModelIds /\ caller[k].parameters \in Parameters
    BY <1>q, <1>4, CallerShape DEF Fill
  <2> QED BY <1>4, <2>1, CallerMoves, IdleIsAState DEF Fill, ModelsTypeOK
<1>5. ASSUME Abandon(k) PROVE ModelsTypeOK'
  <2>1. caller[k].step = "invalidate" => caller[k].model \in ModelIds
    BY <1>q, CallerShape
  <2> QED BY <1>5, <2>1, CallerMoves, IdleIsAState DEF Abandon, ModelsTypeOK
<1> QED BY <1>1, <1>2, <1>3, <1>4, <1>5 DEF Continue

\* Every variable of Models stays in its set: what is cached under a model is
\* parameters (ai_model_service.go:117-128).
THEOREM ModelsTypes == Spec => []ModelsTypeOK
<1>1. Init => ModelsTypeOK
  BY IdleIsAState DEF Init, ModelsTypeOK
<1>2. ModelsTypeOK /\ [Next]_vars => ModelsTypeOK'
  <2> SUFFICES ASSUME ModelsTypeOK, [Next]_vars PROVE ModelsTypeOK'
    OBVIOUS
  <2>1. CASE UNCHANGED vars
    BY <2>1 DEF vars, ModelsTypeOK
  <2>2. ASSUME NEW k \in Callers, Continue(k) \/ \E m \in ModelIds : Begin(k, m)
        PROVE  ModelsTypeOK'
    BY <2>2, BeginTypes, ContinueTypes
  <2>3. ASSUME NEW m \in ModelIds, Expire(m) PROVE ModelsTypeOK'
    BY <2>3 DEF Expire, DropCopy, ModelsTypeOK
  <2> QED BY <2>1, <2>2, <2>3 DEF Next
<1> QED BY <1>1, <1>2, PTL DEF Spec

-----------------------------------------------------------------------------
(* Cached parameters.                                                      *)

\* What makes up for a copy that is not the model's parameters.
Cause(m) ==
    \/ m \in late \union missed
    \/ \E k \in Callers : caller[k].step = "invalidate" /\ caller[k].model = m

\* A model that is not there has no copy: only a row that was read is cached,
\* and rows are never deleted.
Backed(m) ==
    /\ model[m] # NoModel => cache[m] \in {NoCopy, model[m].parameters} \/ Cause(m)
    /\ model[m] = NoModel =>
          /\ cache[m] = NoCopy
          /\ \A k \in Callers :
                caller[k].step \in {"fill", "save"} => caller[k].model # m

\* A cause lasts as long as its marks and the callers of the model do.
LEMMA CauseStays ==
    ASSUME ModelsTypeOK, NEW m \in ModelIds, Cause(m), UNCHANGED <<late, missed>>,
           NEW k \in Callers, NEW state, CallerTo(k, state),
           caller[k].step # "invalidate"
    PROVE  Cause(m)'
BY DEF Cause, CallerTo, ModelsTypeOK

\* A request that moves while every table stays.
LEMMA BackedMove ==
    ASSUME ModelsTypeOK, NEW m \in ModelIds, Backed(m),
           UNCHANGED <<model, cache, late, missed>>,
           NEW k \in Callers, NEW state, CallerTo(k, state),
           caller[k].step # "invalidate",
           state.step \in {"fill", "save"} => model[state.model] # NoModel
    PROVE  Backed(m)'
<1>1. Cause(m) => Cause(m)'
  BY CauseStays
<1>2. ASSUME model[m] = NoModel, NEW j \in Callers, caller'[j].step \in {"fill", "save"}
      PROVE  caller'[j].model # m
  BY <1>2 DEF CallerTo, ModelsTypeOK, Backed
<1> QED BY <1>1, <1>2 DEF Backed

\* Every step keeps the causes of stale parameters.
LEMMA BackedStep ==
    ASSUME ModelsTypeOK, NEW m \in ModelIds, \A n \in ModelIds : Backed(n),
           [Next]_vars
    PROVE  Backed(m)'
<1>1. CASE UNCHANGED vars
  BY <1>1 DEF vars, Backed, Cause
<1>2. ASSUME NEW k \in Callers, NEW n \in ModelIds, Begin(k, n) PROVE Backed(m)'
  <2>1. ASSUME NEW row \in ModelRow, CreateModel(k, n, row) PROVE Backed(m)'
    BY <2>1, NoModelAssumption DEF CreateModel, ModelsTypeOK, Backed, Cause
  <2>2. ASSUME NEW status \in Statuses, UpdateModelStatus(k, n, status)
        PROVE  Backed(m)'
    <3>1. /\ [model[n] EXCEPT !.status = status].parameters = model[n].parameters
          /\ [model[n] EXCEPT !.status = status] \in ModelRow
      BY <2>2 DEF UpdateModelStatus, ModelsTypeOK, ModelRow
    <3> QED BY <2>2, <3>1, NoModelAssumption
            DEF UpdateModelStatus, ModelsTypeOK, Backed, Cause
  <2>3. ASSUME NEW given \in SUBSET {"status", "parameters"}, NEW request \in ModelRow,
               BeginUpdateModel(k, n, given, request)
        PROVE  Backed(m)'
    BY <2>3, BackedMove DEF BeginUpdateModel, Idle
  <2>4. CASE Miss(k, n)
    BY <2>4, BackedMove DEF Miss, Idle
  <2> QED BY <1>2, <2>1, <2>2, <2>3, <2>4 DEF Begin
<1>3. ASSUME NEW k \in Callers, Continue(k) PROVE Backed(m)'
  <2>q. caller[k] \in CallerState
    BY DEF ModelsTypeOK
  <2>1. CASE SaveModel(k)
    <3> DEFINE n == caller[k].model
    <3>1. n \in ModelIds /\ caller[k].row \in ModelRow
      BY <2>q, <2>1, CallerShape DEF SaveModel
    <3>2. model[n] # NoModel
      BY <2>1, <3>1 DEF SaveModel, Backed
    <3>3. CASE n = m
      <4>1. model'[m] # NoModel
        BY <2>1, <3>1, <3>3, NoModelAssumption DEF SaveModel, ModelsTypeOK
      <4>2. caller'[k].step = "invalidate" /\ caller'[k].model = m
        BY <2>1, <3>3 DEF SaveModel, CallerTo, ModelsTypeOK
      <4> QED BY <4>1, <4>2 DEF Backed, Cause
    <3>4. CASE n # m
      <4>1. model'[m] = model[m] /\ UNCHANGED <<cache, late, missed>>
        BY <2>1, <3>4 DEF SaveModel, ModelsTypeOK
      <4>2. Cause(m) => Cause(m)'
        BY <2>1, CauseStays DEF SaveModel
      <4>3. \A j \in Callers : caller'[j].step \in {"fill", "save"} =>
               caller'[j] = caller[j]
        BY <2>1 DEF SaveModel, CallerTo, ModelsTypeOK
      <4> QED BY <4>1, <4>2, <4>3 DEF Backed
    <3> QED BY <3>3, <3>4
  <2>2. CASE Invalidate(k)
    <3>1. CASE caller[k].model = m
      BY <2>2, <3>1
         DEF Invalidate, DropCopy, CallerTo, Idle, Backed, ModelsTypeOK
    <3>2. CASE caller[k].model # m
      BY <2>2, <3>2
         DEF Invalidate, DropCopy, CallerTo, Idle, Cause, Backed, ModelsTypeOK
    <3> QED BY <3>1, <3>2
  <2>3. CASE ReadParameters(k)
    BY <2>3, BackedMove DEF ReadParameters, Idle
  <2>4. CASE Fill(k)
    <3>1. caller[k].model \in ModelIds
      BY <2>q, <2>4, CallerShape DEF Fill
    <3>2. CASE caller[k].model = m
      BY <2>4, <3>1, <3>2 DEF Fill, CallerTo, Idle, Cause, Backed, ModelsTypeOK
    <3>3. CASE caller[k].model # m
      BY <2>4, <3>3 DEF Fill, CallerTo, Idle, Cause, Backed, ModelsTypeOK
    <3> QED BY <3>2, <3>3
  <2>5. CASE Abandon(k)
    BY <2>5 DEF Abandon, CallerTo, Idle, Cause, Backed, ModelsTypeOK
  <2> QED BY <1>3, <2>1, <2>2, <2>3, <2>4, <2>5 DEF Continue
<1>4. ASSUME NEW n \in ModelIds, Expire(n) PROVE Backed(m)'
  BY <1>4 DEF Expire, DropCopy, Cause, Backed, ModelsTypeOK
<1> QED BY <1>1, <1>2, <1>3, <1>4 DEF Next

\* Cached parameters that are not the model's were stored late or left by a
\* failed delete, or are about to be deleted (ai_model_service.go:66-70, 86,
\* 123-128).
THEOREM ModelsStale == Spec => []ParametersStaleHasCause
<1> DEFINE AllBacked == \A m \in ModelIds : Backed(m)
<1>1. Init => AllBacked
  BY DEF Init, Backed, Idle
<1>2. ModelsTypeOK /\ AllBacked /\ [Next]_vars => AllBacked'
  BY BackedStep
<1>3. AllBacked => ParametersStaleHasCause
  BY DEF Backed, Cause, ParametersStaleHasCause
<1> HIDE DEF AllBacked
<1> QED BY <1>1, <1>2, <1>3, ModelsTypes, PTL DEF Spec

=============================================================================
