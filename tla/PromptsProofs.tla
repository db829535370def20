---------------------------- MODULE PromptsProofs ----------------------------
(***************************************************************************)
(* Proofs about Prompts, for any codes, contents and number of requests.   *)
(***************************************************************************)
EXTENDS Prompts, FiniteSetTheorems, TLAPS

-----------------------------------------------------------------------------
(* Types.                                                                  *)

\* What a request holds at each of its steps.
LEMMA CallerShape ==
    ASSUME NEW q \in CallerState
    PROVE  /\ q.step # "idle" => q.code \in Codes
           /\ q.step = "insert" => q.content \in Contents
           /\ q.step \in {"save", "fill"} => q.row \in PromptRow
           /\ q.step = "idle" => q = Idle
BY DEF CallerState, Idle

\* Callers keep their types when one of them goes to a state of a caller.
LEMMA CallerMoves ==
    ASSUME PromptsTypeOK, NEW k \in Callers, NEW state \in CallerState,
           CallerTo(k, state)
    PROVE  caller' \in [Callers -> CallerState]
BY DEF PromptsTypeOK, CallerTo

\* A caller that calls nothing is in a state of a caller.
LEMMA IdleIsAState == Idle \in CallerState
BY DEF CallerState

\* The first step of every operation keeps the types.
LEMMA BeginTypes ==
    ASSUME PromptsTypeOK, NEW k \in Callers, Begin(k)
    PROVE  PromptsTypeOK'
<1>1. ASSUME NEW c \in Codes, NEW content \in Contents, BeginCreate(k, c, content)
      PROVE  PromptsTypeOK'
  <2>1. [step |-> "insert", code |-> c, content |-> content] \in CallerState
    BY DEF CallerState
  <2> QED BY <1>1, <2>1, CallerMoves DEF BeginCreate, PromptsTypeOK, history
<1>2. ASSUME NEW c \in Codes, NEW content \in Contents, BeginUpdate(k, c, content)
      PROVE  PromptsTypeOK'
  <2>1. [prompt[c] EXCEPT !.content = content] \in PromptRow
    BY <1>2 DEF BeginUpdate, PromptsTypeOK, PromptRow
  <2>2. [step |-> "save", code |-> c, row |-> [prompt[c] EXCEPT !.content = content]]
           \in CallerState
    BY <2>1 DEF CallerState
  <2> QED BY <1>2, <2>2, CallerMoves DEF BeginUpdate, PromptsTypeOK, history
<1>3. ASSUME NEW codes \in SUBSET Codes, NEW content \in [codes -> Contents],
             BatchCreatePrompts(k, codes, content)
      PROVE  PromptsTypeOK'
  <2>1. lastId' = lastId + Cardinality(codes) /\ lastId' =< MaxPrompts
        /\ UNCHANGED <<cache, caller, late, missed>>
    BY <1>3 DEF BatchCreatePrompts, history
  <2>2. PICK id \in [codes -> lastId + 1 .. lastId'] :
           prompt' = [c \in Codes |->
                         IF c \in codes THEN [id |-> id[c], content |-> content[c]]
                                        ELSE prompt[c]]
    BY <1>3 DEF BatchCreatePrompts
  <2>3. ASSUME NEW c \in codes PROVE [id |-> id[c], content |-> content[c]] \in PromptRow
    BY <2>1, MaxPromptsAssumption DEF PromptRow, PromptsTypeOK
  <2>4. prompt' \in [Codes -> PromptRow \union {NoPrompt}]
    BY <2>2, <2>3 DEF PromptsTypeOK
  <2>5. Cardinality(codes) \in Nat
    BY CodesAssumption, FS_Subset, FS_CardinalityType
  <2>6. lastId' \in 0..MaxPrompts
    BY <2>1, <2>5, MaxPromptsAssumption DEF PromptsTypeOK
  <2> QED BY <2>1, <2>4, <2>6 DEF PromptsTypeOK
<1>4. ASSUME NEW c \in Codes, DeletePrompt(k, c) \/ Miss(k, c)
      PROVE  PromptsTypeOK'
  <2>1. /\ [step |-> "invalidate", code |-> c] \in CallerState
        /\ [step |-> "read", code |-> c] \in CallerState
    BY DEF CallerState
  <2> QED BY <1>4, <2>1, CallerMoves DEF DeletePrompt, Miss, PromptsTypeOK, history
<1> QED BY <1>1, <1>2, <1>3, <1>4 DEF Begin

\* The later steps of every operation keep the types.
LEMMA ContinueTypes ==
    ASSUME PromptsTypeOK, NEW k \in Callers, Continue(k)
    PROVE  PromptsTypeOK'
<1>q. caller[k] \in CallerState
  BY DEF PromptsTypeOK
<1>1. ASSUME InsertPrompt(k) PROVE PromptsTypeOK'
  <2>1. [id |-> lastId + 1, content |-> caller[k].content] \in PromptRow
    BY <1>q, <1>1, CallerShape, MaxPromptsAssumption
       DEF InsertPrompt, PromptRow, PromptsTypeOK
  <2>2. prompt' \in [Codes -> PromptRow \union {NoPrompt}]
    BY <1>1, <2>1 DEF InsertPrompt, PromptsTypeOK
  <2>3. lastId' \in 0..MaxPrompts
    BY <1>1, MaxPromptsAssumption DEF InsertPrompt, PromptsTypeOK
  <2> QED BY <1>1, <2>2, <2>3, CallerMoves, IdleIsAState
          DEF InsertPrompt, PromptsTypeOK, history
<1>2. ASSUME SavePrompt(k) PROVE PromptsTypeOK'
  <2>1. caller[k].code \in Codes /\ caller[k].row \in PromptRow
    BY <1>q, <1>2, CallerShape DEF SavePrompt
  <2>2. [step |-> "invalidate", code |-> caller[k].code] \in CallerState
    BY <2>1 DEF CallerState
  <2> QED BY <1>2, <2>1, <2>2, CallerMoves, IdleIsAState
          DEF SavePrompt, PromptsTypeOK, history
<1>3. ASSUME Invalidate(k) PROVE PromptsTypeOK'
  BY <1>3, CallerMoves, IdleIsAState DEF Invalidate, DropCopy, PromptsTypeOK
<1>4. ASSUME ReadPrompt(k) PROVE PromptsTypeOK'
  <2> DEFINE next == IF prompt[caller[k].code] = NoPrompt THEN Idle
                     ELSE [step |-> "fill", code |-> caller[k].code,
                           row |-> prompt[caller[k].code]]
  <2>1. caller[k].code \in Codes
    BY <1>q, <1>4, CallerShape DEF ReadPrompt
  <2>2. next \in CallerState
    BY <2>1 DEF CallerState, PromptsTypeOK
  <2>3. CallerTo(k, next) /\ UNCHANGED <<prompt, cache, lastId, late, missed>>
    BY <1>4 DEF ReadPrompt, history
  <2> HIDE DEF next
  <2> QED BY <2>2, <2>3, CallerMoves DEF PromptsTypeOK
<1>5. ASSUME Fill(k) PROVE PromptsTypeOK'
  <2>1. caller[k].code \in Codes /\ caller[k].row \in PromptRow
    BY <1>q, <1>5, CallerShape DEF Fill
  <2> QED BY <1>5, <2>1, CallerMoves, IdleIsAState DEF Fill, PromptsTypeOK
<1>6. ASSUME Abandon(k) PROVE PromptsTypeOK'
  <2>1. caller[k].step = "invalidate" => caller[k].code \in Codes
    BY <1>q, CallerShape
  <2> QED BY <1>6, <2>1, CallerMoves, IdleIsAState DEF Abandon, PromptsTypeOK
<1> QED BY <1>1, <1>2, <1>3, <1>4, <1>5, <1>6 DEF Continue

\* Every variable of Prompts stays in its set: no request works with a row
\* that is not there.
THEOREM PromptsTypes == Spec => []PromptsTypeOK
<1>1. Init => PromptsTypeOK
  BY MaxPromptsAssumption, IdleIsAState DEF Init, PromptsTypeOK
<1>2. PromptsTypeOK /\ [Next]_vars => PromptsTypeOK'
  <2> SUFFICES ASSUME PromptsTypeOK, [Next]_vars PROVE PromptsTypeOK'
    OBVIOUS
  <2>1. CASE UNCHANGED vars
    BY <2>1 DEF vars, history, PromptsTypeOK
  <2>2. ASSUME NEW k \in Callers, Begin(k) \/ Continue(k) PROVE PromptsTypeOK'
    BY <2>2, BeginTypes, ContinueTypes
  <2>3. ASSUME NEW c \in Codes, Expire(c) PROVE PromptsTypeOK'
    BY <2>3 DEF Expire, DropCopy, PromptsTypeOK
  <2> QED BY <2>1, <2>2, <2>3 DEF Next
<1> QED BY <1>1, <1>2, PTL DEF Spec

-----------------------------------------------------------------------------
(* Cached copies.                                                          *)

\* What makes up for a copy of c that is not the prompt.
Cause(c) ==
    \/ c \in late \union missed
    \/ \E k \in Callers : caller[k].step = "invalidate" /\ caller[k].code = c

\* A request that moves takes no cause away, unless it was about to delete
\* the copy.
LEMMA CauseStays ==
    ASSUME PromptsTypeOK, NEW c \in Codes, Cause(c), UNCHANGED <<late, missed>>,
           NEW k \in Callers, NEW state, CallerTo(k, state),
           caller[k].step # "invalidate"
    PROVE  Cause(c)'
BY DEF Cause, CallerTo, PromptsTypeOK

\* Every step keeps the causes of stale copies.
LEMMA StaleStep ==
    ASSUME PromptsTypeOK, StaleHasCause, [Next]_vars, NEW c \in Codes
    PROVE  cache'[c] \in {NoPrompt, prompt'[c]} \/ Cause(c)'
<1>0. cache[c] \in {NoPrompt, prompt[c]} \/ Cause(c)
  BY DEF StaleHasCause, Cause
<1>1. CASE UNCHANGED vars
  BY <1>0, <1>1 DEF vars, history, Cause
<1>2. ASSUME NEW k \in Callers, Begin(k)
      PROVE  cache'[c] \in {NoPrompt, prompt'[c]} \/ Cause(c)'
  <2>1. ASSUME NEW d \in Codes, NEW content \in Contents,
               BeginCreate(k, d, content) \/ BeginUpdate(k, d, content)
        PROVE  cache'[c] \in {NoPrompt, prompt'[c]} \/ Cause(c)'
    BY <1>0, <2>1, CauseStays DEF BeginCreate, BeginUpdate, Idle, history
  <2>2. ASSUME NEW codes \in SUBSET Codes, NEW content \in [codes -> Contents],
               BatchCreatePrompts(k, codes, content)
        PROVE  cache'[c] \in {NoPrompt, prompt'[c]} \/ Cause(c)'
    <3>1. UNCHANGED <<cache, caller, late, missed>>
      BY <2>2 DEF BatchCreatePrompts, history
    <3>2. prompt[c] = NoPrompt \/ prompt'[c] = prompt[c]
      BY <2>2 DEF BatchCreatePrompts
    <3> QED BY <1>0, <3>1, <3>2 DEF Cause
  <2>3. ASSUME NEW d \in Codes, DeletePrompt(k, d)
        PROVE  cache'[c] \in {NoPrompt, prompt'[c]} \/ Cause(c)'
    <3>1. CASE d = c
      BY <2>3, <3>1 DEF DeletePrompt, CallerTo, Cause, PromptsTypeOK
    <3>2. CASE d # c
      BY <1>0, <2>3, <3>2, CauseStays DEF DeletePrompt, Idle, history, PromptsTypeOK
    <3> QED BY <3>1, <3>2
  <2>4. ASSUME NEW d \in Codes, Miss(k, d)
        PROVE  cache'[c] \in {NoPrompt, prompt'[c]} \/ Cause(c)'
    BY <1>0, <2>4, CauseStays DEF Miss, Idle, history
  <2> QED BY <1>2, <2>1, <2>2, <2>3, <2>4 DEF Begin
<1>3. ASSUME NEW k \in Callers, Continue(k)
      PROVE  cache'[c] \in {NoPrompt, prompt'[c]} \/ Cause(c)'
  <2> USE DEF history
  <2>1. CASE InsertPrompt(k)
    <3>1. prompt[c] = NoPrompt \/ prompt'[c] = prompt[c]
      BY <2>1 DEF InsertPrompt, PromptsTypeOK
    <3> QED BY <1>0, <2>1, <3>1, CauseStays DEF InsertPrompt
  <2>2. CASE SavePrompt(k)
    <3>1. CASE /\ prompt' = [prompt EXCEPT ![caller[k].code] = caller[k].row]
               /\ CallerTo(k, [step |-> "invalidate", code |-> caller[k].code])
      <4>1. CASE caller[k].code = c
        BY <3>1, <4>1 DEF CallerTo, Cause, PromptsTypeOK
      <4>2. CASE caller[k].code # c
        <5>1. prompt'[c] = prompt[c] /\ UNCHANGED <<cache, late, missed>>
          BY <2>2, <3>1, <4>2 DEF SavePrompt, PromptsTypeOK
        <5> QED BY <1>0, <2>2, <3>1, <5>1, CauseStays DEF SavePrompt
      <4> QED BY <4>1, <4>2
    <3>2. CASE CallerTo(k, Idle) /\ UNCHANGED prompt
      BY <1>0, <2>2, <3>2, CauseStays DEF SavePrompt
    <3> QED BY <2>2, <3>1, <3>2 DEF SavePrompt
  <2>3. CASE Invalidate(k)
    <3>1. CASE caller[k].code = c
      BY <2>3, <3>1 DEF Invalidate, DropCopy, PromptsTypeOK
    <3>2. CASE caller[k].code # c
      BY <1>0, <2>3, <3>2 DEF Invalidate, DropCopy, CallerTo, Cause, PromptsTypeOK
    <3> QED BY <3>1, <3>2
  <2>4. CASE ReadPrompt(k)
    BY <1>0, <2>4, CauseStays DEF ReadPrompt
  <2>5. CASE Fill(k)
    <3>1. CASE caller[k].code = c
      BY <2>5, <3>1 DEF Fill, Cause, PromptsTypeOK
    <3>2. CASE caller[k].code # c
      BY <1>0, <2>5, <3>2 DEF Fill, CallerTo, Cause, PromptsTypeOK
    <3> QED BY <3>1, <3>2
  <2>6. CASE Abandon(k)
    BY <1>0, <2>6 DEF Abandon, CallerTo, Cause, PromptsTypeOK
  <2> QED BY <1>3, <2>1, <2>2, <2>3, <2>4, <2>5, <2>6 DEF Continue
<1>4. ASSUME NEW d \in Codes, Expire(d)
      PROVE  cache'[c] \in {NoPrompt, prompt'[c]} \/ Cause(c)'
  BY <1>0, <1>4 DEF Expire, DropCopy, Cause, PromptsTypeOK
<1> QED BY <1>1, <1>2, <1>3, <1>4 DEF Next

\* A cached copy that is not the prompt was stored late or left by a failed
\* delete, or is about to be deleted (prompt_service.go:33, 68-70, 85-87).
THEOREM PromptsStale == Spec => []StaleHasCause
<1>1. Init => StaleHasCause
  BY DEF Init, StaleHasCause
<1>2. PromptsTypeOK /\ StaleHasCause /\ [Next]_vars => StaleHasCause'
  <2>1. ASSUME PromptsTypeOK, StaleHasCause, [Next]_vars PROVE StaleHasCause'
    <3>1. \A c \in Codes : cache'[c] \in {NoPrompt, prompt'[c]} \/ Cause(c)'
      BY <2>1, StaleStep
    <3> QED BY <3>1 DEF StaleHasCause, Cause
  <2> QED BY <2>1
<1> QED BY <1>1, <1>2, PromptsTypes, PTL DEF Spec

-----------------------------------------------------------------------------
(* Updates keep to the row they have read.                                 *)

\* No step puts an old row in the place of a prompt created anew.
LEMMA KeptStep ==
    ASSUME PromptsTypeOK, Next, NEW c \in Codes,
           prompt[c] # NoPrompt, prompt'[c] # NoPrompt
    PROVE  prompt'[c].id = prompt[c].id
<1>1. ASSUME NEW k \in Callers, Begin(k) PROVE prompt'[c].id = prompt[c].id
  <2>1. ASSUME NEW d \in Codes, DeletePrompt(k, d) PROVE prompt'[c] = prompt[c]
    BY <2>1 DEF DeletePrompt, PromptsTypeOK
  <2>2. ASSUME NEW codes \in SUBSET Codes, NEW content \in [codes -> Contents],
               BatchCreatePrompts(k, codes, content)
        PROVE  prompt'[c] = prompt[c]
    BY <2>2 DEF BatchCreatePrompts
  <2> QED BY <1>1, <2>1, <2>2 DEF Begin, BeginCreate, BeginUpdate, Miss
<1>2. ASSUME NEW k \in Callers, Continue(k) PROVE prompt'[c].id = prompt[c].id
  <2>1. CASE InsertPrompt(k)
    BY <2>1 DEF InsertPrompt, PromptsTypeOK
  <2>2. CASE SavePrompt(k)
    BY <2>2 DEF SavePrompt, PromptsTypeOK
  <2> QED BY <1>2, <2>1, <2>2 DEF Continue, Invalidate, ReadPrompt, Fill, Abandon
<1>3. ASSUME NEW d \in Codes, Expire(d) PROVE prompt'[c].id = prompt[c].id
  BY <1>3 DEF Expire
<1> QED BY <1>1, <1>2, <1>3 DEF Next

\* A prompt that was deleted and created again is not overwritten by an
\* update that had read the old one (prompt_service.go:58-64).
THEOREM PromptsKept == Spec => NewPromptKept
<1>1. ASSUME PromptsTypeOK, [Next]_vars
      PROVE  [\A c \in Codes : prompt[c] # NoPrompt /\ prompt'[c] # NoPrompt =>
                 prompt'[c].id = prompt[c].id]_vars
  BY <1>1, KeptStep
<1>2. Spec => [][\A c \in Codes : prompt[c] # NoPrompt /\ prompt'[c] # NoPrompt =>
                 prompt'[c].id = prompt[c].id]_vars
  BY <1>1, PromptsTypes, PTL DEF Spec
<1> QED BY <1>2 DEF NewPromptKept

=============================================================================
