------------------------------ MODULE Prompts ------------------------------
(***************************************************************************)
(* internal/services/prompt_service.go: prompts by code, and the cached    *)
(* copy of each (prompt:code:<code>, 24 hours).  A copy is filled after a  *)
(* miss and deleted after an update or a delete; creation does not touch   *)
(* it.  Every access to the database or to Redis is a step of its own.     *)
(***************************************************************************)
EXTENDS Integers, FiniteSets

CONSTANTS
    Codes,        \* prompt codes; the table has a unique index on them
    Contents,     \* what a prompt may say
    Callers,      \* requests served at the same time
    NoPrompt,     \* no such row, or no cached copy
    MaxPrompts    \* bound: how many rows are ever created

PromptRow == [id : 1..MaxPrompts, content : Contents]

ASSUME CodesAssumption == IsFiniteSet(Codes)
ASSUME MaxPromptsAssumption == MaxPrompts \in Nat
ASSUME NoPromptAssumption == NoPrompt \notin PromptRow

VARIABLES
    prompt,       \* prompt[c]: the committed row of a code, or NoPrompt
    cache,        \* cache[c]: its cached copy, or NoPrompt
    caller,       \* caller[k]: where a request is, and what it holds
    lastId,       \* the last id the database gave
    late,         \* codes whose copy was out of date when it was stored
    missed        \* codes whose copy a writer left there by failing

history == <<late, missed>>
vars == <<prompt, cache, caller, lastId, history>>

Idle == [step |-> "idle"]

CallerState ==
    {Idle}
    \union [step : {"insert"}, code : Codes, content : Contents]
    \union [step : {"save", "fill"}, code : Codes, row : PromptRow]
    \union [step : {"read", "invalidate"}, code : Codes]

Init ==
    /\ prompt = [c \in Codes |-> NoPrompt]
    /\ cache = [c \in Codes |-> NoPrompt]
    /\ caller = [k \in Callers |-> Idle]
    /\ lastId = 0
    /\ late = {}
    /\ missed = {}

CallerTo(k, state) == caller' = [caller EXCEPT ![k] = state]

-----------------------------------------------------------------------------
(* Writers.                                                                *)

\* CreatePrompt looks for the code first; the unique index has the last word.
BeginCreate(k, c, content) ==
    /\ caller[k] = Idle
    /\ prompt[c] = NoPrompt
    /\ CallerTo(k, [step |-> "insert", code |-> c, content |-> content])
    /\ UNCHANGED <<prompt, cache, lastId, history>>

InsertPrompt(k) ==
    LET q == caller[k] IN
    /\ q.step = "insert"
    /\ lastId < MaxPrompts
    /\ lastId' = lastId + 1
    /\ prompt' = IF prompt[q.code] = NoPrompt
                 THEN [prompt EXCEPT ![q.code] = [id |-> lastId + 1, content |-> q.content]]
                 ELSE prompt
    /\ CallerTo(k, Idle)
    /\ UNCHANGED <<cache, history>>

\* One transaction: all the codes are new and are created, or none is.
BatchCreatePrompts(k, codes, content) ==
    /\ caller[k] = Idle
    /\ \A c \in codes : prompt[c] = NoPrompt
    /\ lastId + Cardinality(codes) =< MaxPrompts
    /\ lastId' = lastId + Cardinality(codes)
    /\ \E id \in [codes -> lastId + 1 .. lastId'] :
          /\ \A c, d \in codes : id[c] = id[d] => c = d
          /\ prompt' = [c \in Codes |->
                           IF c \in codes THEN [id |-> id[c], content |-> content[c]]
                                          ELSE prompt[c]]
    /\ UNCHANGED <<cache, caller, history>>

BeginUpdate(k, c, content) ==
    /\ caller[k] = Idle
    /\ prompt[c] # NoPrompt
    /\ CallerTo(k, [step |-> "save", code |-> c,
                    row |-> [prompt[c] EXCEPT !.content = content]])
    /\ UNCHANGED <<prompt, cache, lastId, history>>

\* A plausible slip: the row is matched by its code.
SaveByCode(k) ==
    LET q == caller[k] IN
    /\ q.step = "save"
    /\ prompt' = [prompt EXCEPT ![q.code] = q.row]
    /\ CallerTo(k, [step |-> "invalidate", code |-> q.code])
    /\ UNCHANGED <<cache, lastId, history>>

\* Save updates the row with the id it has read, inserts it if there is none,
\* and fails if the code belongs to another row by now.
SavePrompt(k) ==
    LET q == caller[k]
        taken == prompt[q.code] # NoPrompt /\ prompt[q.code].id # q.row.id
    IN
    /\ q.step = "save"
    /\ \/ /\ ~ taken
          /\ prompt' = [prompt EXCEPT ![q.code] = q.row]
          /\ CallerTo(k, [step |-> "invalidate", code |-> q.code])
       \/ /\ taken
          /\ CallerTo(k, Idle)
          /\ UNCHANGED prompt
    /\ UNCHANGED <<cache, lastId, history>>

\* A plausible slip: the copy is left to its expiry.
DeleteKeepsCopy(k, c) ==
    /\ caller[k] = Idle
    /\ prompt[c] # NoPrompt
    /\ prompt' = [prompt EXCEPT ![c] = NoPrompt]
    /\ UNCHANGED <<cache, caller, lastId, history>>

DeletePrompt(k, c) ==
    /\ caller[k] = Idle
    /\ prompt[c] # NoPrompt
    /\ prompt' = [prompt EXCEPT ![c] = NoPrompt]
    /\ CallerTo(k, [step |-> "invalidate", code |-> c])
    /\ UNCHANGED <<cache, lastId, history>>

DropCopy(c) ==
    /\ cache' = [cache EXCEPT ![c] = NoPrompt]
    /\ late' = late \ {c}
    /\ missed' = missed \ {c}

Invalidate(k) ==
    /\ caller[k].step = "invalidate"
    /\ DropCopy(caller[k].code)
    /\ CallerTo(k, Idle)
    /\ UNCHANGED <<prompt, lastId>>

-----------------------------------------------------------------------------
(* GetPromptByCode.                                                        *)

\* A hit changes nothing.  Whether or not there is a copy, a GET or the
\* decoding of what it returns may fail, which counts as a miss.
Miss(k, c) ==
    /\ caller[k] = Idle
    /\ CallerTo(k, [step |-> "read", code |-> c])
    /\ UNCHANGED <<prompt, cache, lastId, history>>

\* A plausible slip: a row that was not found is cached too.
ReadPromptUnchecked(k) ==
    LET q == caller[k] IN
    /\ q.step = "read"
    /\ CallerTo(k, [step |-> "fill", code |-> q.code, row |-> prompt[q.code]])
    /\ UNCHANGED <<prompt, cache, lastId, history>>

ReadPrompt(k) ==
    LET q == caller[k] IN
    /\ q.step = "read"
    /\ CallerTo(k, IF prompt[q.code] = NoPrompt THEN Idle
                   ELSE [step |-> "fill", code |-> q.code, row |-> prompt[q.code]])
    /\ UNCHANGED <<prompt, cache, lastId, history>>

Fill(k) ==
    LET q == caller[k] IN
    /\ q.step = "fill"
    /\ cache' = [cache EXCEPT ![q.code] = q.row]
    /\ late' = IF q.row = prompt[q.code] THEN late \ {q.code}
                                         ELSE late \union {q.code}
    /\ missed' = missed \ {q.code}
    /\ CallerTo(k, Idle)
    /\ UNCHANGED <<prompt, lastId>>

Expire(c) ==
    /\ cache[c] # NoPrompt
    /\ DropCopy(c)
    /\ UNCHANGED <<prompt, caller, lastId>>

-----------------------------------------------------------------------------

\* A call fails, or the process ends.  Errors of Del and Set are dropped.
Abandon(k) ==
    /\ caller[k] # Idle
    /\ missed' = IF caller[k].step = "invalidate" THEN missed \union {caller[k].code}
                                                  ELSE missed
    /\ CallerTo(k, Idle)
    /\ UNCHANGED <<prompt, cache, lastId, late>>

Begin(k) ==
    \/ \E c \in Codes, content \in Contents :
          BeginCreate(k, c, content) \/ BeginUpdate(k, c, content)
    \/ \E codes \in SUBSET Codes \ {{}} : \E content \in [codes -> Contents] :
          BatchCreatePrompts(k, codes, content)
    \/ \E c \in Codes : DeletePrompt(k, c) \/ Miss(k, c)

Continue(k) ==
    \/ InsertPrompt(k)
    \/ SavePrompt(k)
    \/ Invalidate(k)
    \/ ReadPrompt(k)
    \/ Fill(k)
    \/ Abandon(k)

Next ==
    \/ \E k \in Callers : Begin(k) \/ Continue(k)
    \/ \E c \in Codes : Expire(c)

Spec == Init /\ [][Next]_vars

-----------------------------------------------------------------------------
(* Properties.                                                             *)

\* Every variable stays in its set: no caller works with a row that is not
\* there, and none is cached (prompt_service.go:57-61, 106-114).
PromptsTypeOK ==
    /\ prompt \in [Codes -> PromptRow \union {NoPrompt}]
    /\ cache \in [Codes -> PromptRow \union {NoPrompt}]
    /\ caller \in [Callers -> CallerState]
    /\ lastId \in 0..MaxPrompts
    /\ late \subseteq Codes /\ missed \subseteq Codes

\* The cached copy of a prompt is the prompt, unless its writer is about to
\* delete the copy, or one of two things went wrong: a reader stored what it
\* had read before the last write, or a writer failed to delete the copy.
\* Nothing else, such as creating a deleted code again, makes it stale
\* (prompt_service.go:33, 68-70, 85-87, 111-114).
StaleHasCause ==
    \A c \in Codes :
       cache[c] \in {NoPrompt, prompt[c]}
          \/ c \in late \union missed
          \/ \E k \in Callers :
                caller[k].step = "invalidate" /\ caller[k].code = c

\* A prompt that was deleted and created again under the same code is not
\* overwritten by an update that had read the old one
\* (prompt_service.go:58-64).
NewPromptKept ==
    [][\A c \in Codes : prompt[c] # NoPrompt /\ prompt'[c] # NoPrompt =>
          prompt'[c].id = prompt[c].id]_vars

=============================================================================
