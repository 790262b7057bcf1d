--------------------------- MODULE Buttons_proofs ----------------------------
(***************************************************************************)
(* Proofs about the buttons, for any front panel and any handlers.         *)
(***************************************************************************)
EXTENDS Buttons, TLAPS

\* Handlers are installed once all buttons are in the map.
MapIsFull == installed # {} => buttons = Button

\* What a button that has been told of, and has a handler of all changes, has
\* still to tell: its state differs from the last one that was told, it has
\* been read in this sweep and its turn to tell is to come.
PendingOnce ==
  \A b \in Button : Trigger[b] = "any" /\ told[b] # "nothing" =>
    /\ b \in callback
    /\ stateChanged[b] <=> told[b] # currentState[b]
    /\ stateChanged[b] => \/ pc = "update" /\ b \notin todo
                          \/ pc = "trigger" /\ b \in todo

\* The inductive invariant.
IInv == TypeOK /\ MapIsFull /\ ChangeIsKept /\ PendingOnce

-----------------------------------------------------------------------------
\* The initial state satisfies the invariant: all buttons are released, as far
\* as anybody knows.
LEMMA InitInv == Init => IInv
BY DEF Init, IInv, TypeOK, MapIsFull, ChangeIsKept, PendingOnce, Believed, State, Pressed, Released

\* The type of the state is kept by every step of the two threads.
LEMMA TypeStep == IInv /\ [Next]_vars => TypeOK' /\ MapIsFull'
<1> SUFFICES ASSUME TypeOK, MapIsFull, [Next]_vars PROVE TypeOK' /\ MapIsFull'
  BY DEF IInv
<1> USE DEF TypeOK, MapIsFull
<1>1. ASSUME NEW b \in Button, Move(b) PROVE TypeOK' /\ MapIsFull'
  BY <1>1 DEF Move
<1>2. ASSUME NEW b \in Button, RegisterButton(b) PROVE TypeOK' /\ MapIsFull'
  BY <1>2 DEF RegisterButton, Update
<1>3. ASSUME NEW b \in Button, RegisterCallback(b) PROVE TypeOK' /\ MapIsFull'
  BY <1>3 DEF RegisterCallback
<1>4. ASSUME NEW b \in Button, WriteArrives(b) PROVE TypeOK' /\ MapIsFull'
  BY <1>4 DEF WriteArrives
<1>5. CASE BeginUpdate \/ BeginTrigger \/ EndUpdate
  BY <1>5 DEF BeginUpdate, BeginTrigger, EndUpdate, Unchanged
<1>6. ASSUME NEW b \in Button, UpdateOne(b) PROVE TypeOK' /\ MapIsFull'
  BY <1>6 DEF UpdateOne, Update, Unchanged
<1>7. ASSUME NEW b \in Button, TriggerOne(b) PROVE TypeOK' /\ MapIsFull'
  BY <1>7 DEF TriggerOne, Unchanged
<1>8. CASE UNCHANGED vars
  BY <1>8 DEF vars
<1> QED BY <1>1, <1>2, <1>3, <1>4, <1>5, <1>6, <1>7, <1>8 DEF Next, DisplayInit, Sweep

\* No step forgets a change: update() sets stateChanged_ with the state, and
\* triggerCallback() resets it with a call only.
LEMMA KeptStep == IInv /\ [Next]_vars => ChangeIsKept'
<1> SUFFICES ASSUME TypeOK, ChangeIsKept, [Next]_vars,
                    NEW b \in Button, Wants(b, currentState[b])',
                    (currentState[b] # Believed(b))'
             PROVE  stateChanged'[b]
  BY DEF IInv, ChangeIsKept
<1> USE DEF TypeOK, ChangeIsKept, Wants, Believed
<1>1. ASSUME NEW c \in Button, RegisterButton(c) \/ UpdateOne(c) PROVE stateChanged'[b]
  <2>1. Update(c) /\ told' = told
    BY <1>1 DEF RegisterButton, UpdateOne
  <2>2. CASE currentState'[b] = currentState[b]
    BY <2>1, <2>2 DEF Update
  <2>3. CASE currentState'[b] # currentState[b]
    BY <2>1, <2>3 DEF Update
  <2> QED BY <2>2, <2>3
<1>2. ASSUME NEW c \in Button, TriggerOne(c) PROVE stateChanged'[b]
  <2>1. CASE c = b
    BY <1>2, <2>1 DEF TriggerOne, Unchanged, State, Pressed, Released
  <2>2. CASE c # b
    BY <1>2, <2>2 DEF TriggerOne, Unchanged
  <2> QED BY <2>1, <2>2
<1>3. ASSUME NEW c \in Button, Move(c) \/ RegisterCallback(c) \/ WriteArrives(c)
      PROVE stateChanged'[b]
  BY <1>3 DEF Move, RegisterCallback, WriteArrives
<1>4. CASE BeginUpdate \/ BeginTrigger \/ EndUpdate
  BY <1>4 DEF BeginUpdate, BeginTrigger, EndUpdate, Unchanged
<1>5. CASE UNCHANGED vars
  BY <1>5 DEF vars
<1> QED BY <1>1, <1>2, <1>3, <1>4, <1>5 DEF Next, DisplayInit, Sweep

\* What has been told is pending again only when it has changed, once a sweep.
LEMMA PendingStep == IInv /\ [Next]_vars => PendingOnce'
<1> SUFFICES ASSUME TypeOK, MapIsFull, PendingOnce, [Next]_vars,
                    NEW b \in Button, Trigger[b] = "any", told'[b] # "nothing"
             PROVE  /\ b \in callback'
                    /\ stateChanged'[b] <=> told'[b] # currentState'[b]
                    /\ stateChanged'[b] => \/ pc' = "update" /\ b \notin todo'
                                           \/ pc' = "trigger" /\ b \in todo'
  BY DEF IInv, PendingOnce
<1> DEFINE Kept == /\ b \in callback'
                   /\ stateChanged'[b] <=> told'[b] # currentState'[b]
                   /\ stateChanged'[b] => \/ pc' = "update" /\ b \notin todo'
                                          \/ pc' = "trigger" /\ b \in todo'
<1> USE DEF TypeOK, PendingOnce, MapIsFull
<1>1. ASSUME NEW c \in Button, RegisterButton(c) PROVE Kept
  <2>1. told'[b] = told[b] /\ c # b
    BY <1>1 DEF RegisterButton, Update
  <2> QED BY <1>1, <2>1 DEF RegisterButton, Update
<1>2. ASSUME NEW c \in Button, UpdateOne(c) PROVE Kept
  <2>1. told' = told /\ callback' = callback /\ pc' = pc /\ pc = "update"
    BY <1>2 DEF UpdateOne, Unchanged
  <2>2. CASE c = b
    BY <1>2, <2>1, <2>2 DEF UpdateOne, Update
  <2>3. CASE c # b
    BY <1>2, <2>1, <2>3 DEF UpdateOne, Update
  <2> QED BY <2>2, <2>3
<1>3. ASSUME NEW c \in Button, TriggerOne(c) PROVE Kept
  <2>1. callback' = callback /\ pc' = pc /\ pc = "trigger" /\ currentState' = currentState
    BY <1>3 DEF TriggerOne, Unchanged
  <2>2. CASE c = b
    <3>1. CASE CallDue(b)
      BY <1>3, <2>1, <2>2, <3>1 DEF TriggerOne, CallDue
    <3>2. CASE ~CallDue(b)
      BY <1>3, <2>1, <2>2, <3>2 DEF TriggerOne, CallDue, Wants
    <3> QED BY <3>1, <3>2
  <2>3. CASE c # b
    BY <1>3, <2>1, <2>3 DEF TriggerOne
  <2> QED BY <2>2, <2>3
<1>4. ASSUME NEW c \in Button, Move(c) \/ RegisterCallback(c) \/ WriteArrives(c) PROVE Kept
  BY <1>4 DEF Move, RegisterCallback, WriteArrives
<1>5. CASE BeginUpdate \/ BeginTrigger \/ EndUpdate
  BY <1>5 DEF BeginUpdate, BeginTrigger, EndUpdate, Unchanged
<1>6. CASE UNCHANGED vars
  BY <1>6 DEF vars
<1> QED BY <1>1, <1>2, <1>3, <1>4, <1>5, <1>6 DEF Next, DisplayInit, Sweep

\* The invariant holds in every state.
THEOREM Invariance == Spec => []IInv
<1>1. Init => IInv
  BY InitInv
<1>2. IInv /\ [Next]_vars => IInv'
  BY TypeStep, KeptStep, PendingStep DEF IInv
<1> QED BY <1>1, <1>2, PTL DEF Spec

\* The state of the buttons and of both threads always has its type.
THEOREM TypeCorrect == Spec => []TypeOK
<1>1. IInv => TypeOK
  BY DEF IInv
<1> QED BY <1>1, Invariance, PTL

\* A change that the handler wants to know of is pending until it is told,
\* whenever it comes (stateChanged_ of button.cc).
THEOREM ChangesAreKept == Spec => []ChangeIsKept
<1>1. IInv => ChangeIsKept
  BY DEF IInv
<1> QED BY <1>1, Invariance, PTL

\* A handler of all changes is never called twice with the same state
\* (Button::triggerCallback()).
THEOREM NeverAnEcho == Spec => NoEcho
<1> DEFINE Step == \A b \in Button :
       Trigger[b] = "any" /\ TriggerOne(b) /\ CallDue(b) => told[b] # currentState[b]
<1>1. IInv => [Step]_vars
  <2> SUFFICES ASSUME IInv, NEW b \in Button, Trigger[b] = "any", CallDue(b)
               PROVE  told[b] # currentState[b]
    OBVIOUS
  <2>1. CASE told[b] = "nothing"
    BY <2>1 DEF IInv, TypeOK, State, Pressed, Released
  <2>2. CASE told[b] # "nothing"
    BY <2>2 DEF IInv, PendingOnce, CallDue
  <2> QED BY <2>1, <2>2
<1> QED BY <1>1, Invariance, PTL DEF NoEcho
=============================================================================
