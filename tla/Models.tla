------------------------------- MODULE Models -------------------------------
(***************************************************************************)
(* internal/services/ai_model_service.go and api/v1/ai_model/handler.go:   *)
(* the AI models an administrator edits, and the cached copy of the        *)
(* parameters of each (model_params:<id>, one hour).  UpdateModel reads a  *)
(* whole row, changes the fields of the request and saves the whole row;   *)
(* UpdateModelStatus writes the one column.  Models are never deleted.     *)
(***************************************************************************)
EXTENDS FiniteSets

CONSTANTS
    ModelIds,     \* ids the database may give
    Parameters,   \* parameters that pass ValidateModelParameters
    Callers,      \* requests served at the same time
    NoModel,      \* no such row
    NoCopy        \* no cached parameters

\* The other fields, name, description, URL and price, are written as the
\* parameters are.
Statuses == {"open", "closed", "draft"}
ModelRow == [status : Statuses, parameters : Parameters]

ASSUME NoModelAssumption == NoModel \notin ModelRow
ASSUME NoCopyAssumption == NoCopy \notin Parameters

VARIABLES
    model,        \* model[m]: the committed row, or NoModel
    cache,        \* cache[m]: its cached parameters, or NoCopy
    caller,       \* caller[k]: where a request is, and what it holds
    late,         \* models whose copy was out of date when it was stored
    missed        \* models whose copy a writer left there by failing

vars == <<model, cache, caller, late, missed>>

Idle == [step |-> "idle"]

CallerState ==
    {Idle}
    \union [step : {"save"}, model : ModelIds, row : ModelRow]
    \union [step : {"fill"}, model : ModelIds, parameters : Parameters]
    \union [step : {"read", "invalidate"}, model : ModelIds]

Init ==
    /\ model = [m \in ModelIds |-> NoModel]
    /\ cache = [m \in ModelIds |-> NoCopy]
    /\ caller = [k \in Callers |-> Idle]
    /\ late = {}
    /\ missed = {}

CallerTo(k, state) == caller' = [caller EXCEPT ![k] = state]

-----------------------------------------------------------------------------

CreateModel(k, m, row) ==
    /\ caller[k] = Idle
    /\ model[m] = NoModel
    /\ model' = [model EXCEPT ![m] = row]
    /\ UNCHANGED <<cache, caller, late, missed>>

UpdateModelStatus(k, m, status) ==
    /\ caller[k] = Idle
    /\ model[m] # NoModel
    /\ model' = [model EXCEPT ![m].status = status]
    /\ UNCHANGED <<cache, caller, late, missed>>

\* given is what an UpdateModel request sets.
Changed(row, given, request) ==
    [status |-> IF "status" \in given THEN request.status ELSE row.status,
     parameters |-> IF "parameters" \in given THEN request.parameters
                                              ELSE row.parameters]

BeginUpdateModel(k, m, given, request) ==
    /\ caller[k] = Idle
    /\ model[m] # NoModel
    /\ CallerTo(k, [step |-> "save", model |-> m,
                    row |-> Changed(model[m], given, request)])
    /\ UNCHANGED <<model, cache, late, missed>>

\* A plausible slip: the copy is left to its expiry.
SaveModelKeepsCopy(k) ==
    LET q == caller[k] IN
    /\ q.step = "save"
    /\ model' = [model EXCEPT ![q.model] = q.row]
    /\ CallerTo(k, Idle)
    /\ UNCHANGED <<cache, late, missed>>

SaveModel(k) ==
    LET q == caller[k] IN
    /\ q.step = "save"
    /\ model' = [model EXCEPT ![q.model] = q.row]
    /\ CallerTo(k, [step |-> "invalidate", model |-> q.model])
    /\ UNCHANGED <<cache, late, missed>>

DropCopy(m) ==
    /\ cache' = [cache EXCEPT ![m] = NoCopy]
    /\ late' = late \ {m}
    /\ missed' = missed \ {m}

Invalidate(k) ==
    /\ caller[k].step = "invalidate"
    /\ DropCopy(caller[k].model)
    /\ CallerTo(k, Idle)
    /\ UNCHANGED model

-----------------------------------------------------------------------------
(* GetModelParametersByID; a hit changes nothing.                          *)

\* Whether or not there is a copy, a GET or the decoding of what it returns
\* may fail, which counts as a miss.
Miss(k, m) ==
    /\ caller[k] = Idle
    /\ CallerTo(k, [step |-> "read", model |-> m])
    /\ UNCHANGED <<model, cache, late, missed>>

ReadParameters(k) ==
    LET m == caller[k].model IN
    /\ caller[k].step = "read"
    /\ CallerTo(k, IF model[m] = NoModel THEN Idle
                   ELSE [step |-> "fill", model |-> m,
                         parameters |-> model[m].parameters])
    /\ UNCHANGED <<model, cache, late, missed>>

Fill(k) ==
    LET q == caller[k] IN
    /\ q.step = "fill"
    /\ cache' = [cache EXCEPT ![q.model] = q.parameters]
    /\ late' = IF q.parameters = model[q.model].parameters
               THEN late \ {q.model} ELSE late \union {q.model}
    /\ missed' = missed \ {q.model}
    /\ CallerTo(k, Idle)
    /\ UNCHANGED model

Expire(m) ==
    /\ cache[m] # NoCopy
    /\ DropCopy(m)
    /\ UNCHANGED <<model, caller>>

-----------------------------------------------------------------------------

\* A call fails, or the process ends.  Errors of Del and Set are dropped.
Abandon(k) ==
    /\ caller[k] # Idle
    /\ missed' = IF caller[k].step = "invalidate" THEN missed \union {caller[k].model}
                                                  ELSE missed
    /\ CallerTo(k, Idle)
    /\ UNCHANGED <<model, cache, late>>

Begin(k, m) ==
    \/ \E row \in ModelRow : CreateModel(k, m, row)
    \/ \E status \in Statuses : UpdateModelStatus(k, m, status)
    \/ \E given \in SUBSET {"status", "parameters"}, request \in ModelRow :
          BeginUpdateModel(k, m, given, request)
    \/ Miss(k, m)

Continue(k) ==
    \/ SaveModel(k)
    \/ Invalidate(k)
    \/ ReadParameters(k)
    \/ Fill(k)
    \/ Abandon(k)

Next ==
    \/ \E k \in Callers : Continue(k) \/ \E m \in ModelIds : Begin(k, m)
    \/ \E m \in ModelIds : Expire(m)

Spec == Init /\ [][Next]_vars

-----------------------------------------------------------------------------
(* Properties.                                                             *)

\* Every variable stays in its set: what is cached under a model is
\* parameters of a model (ai_model_service.go:117-128).
ModelsTypeOK ==
    /\ model \in [ModelIds -> ModelRow \union {NoModel}]
    /\ cache \in [ModelIds -> Parameters \union {NoCopy}]
    /\ caller \in [Callers -> CallerState]
    /\ late \subseteq ModelIds /\ missed \subseteq ModelIds

\* The cached parameters are the model's, unless a writer is about to delete
\* the copy or failed to, or a reader stored what it had read before the last
\* write.  A status update, which leaves the copy alone, and an update that
\* restores old parameters by saving a stale row make no exception
\* (ai_model_service.go:66-70, 86, 123-128).
ParametersStaleHasCause ==
    \A m \in ModelIds :
       model[m] # NoModel =>
          \/ cache[m] \in {NoCopy, model[m].parameters}
          \/ m \in late \union missed
          \/ \E k \in Callers :
                caller[k].step = "invalidate" /\ caller[k].model = m

=============================================================================
