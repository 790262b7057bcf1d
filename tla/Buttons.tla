------------------------------- MODULE Buttons -------------------------------
(***************************************************************************)
(* The front panel's buttons: ButtonManager::run(), Button, and the calls  *)
(* of Display::init() that register buttons and handlers                   *)
(* (peripherals/buttonmanager.cc, button.cc, application/display.cc).      *)
(*                                                                         *)
(* The button thread polls the pins under the manager's lock while the     *)
(* session manager's thread, in Display::init(), writes a handler to a     *)
(* Button without it: the writes reach the button thread one by one and in *)
(* any order.  The order of the buttons makes no difference to either      *)
(* thread and is left open.                                                *)
(***************************************************************************)
CONSTANTS
  Button,       \* the buttons of the front panel
  Trigger       \* what the display's handler of each is to be called for

Pressed  == "pressed"
Released == "released"
State    == {Pressed, Released}

ASSUME ButtonsAssumption == Trigger \in [Button -> {Pressed, "any", "none"}]

Handled  == {b \in Button : Trigger[b] # "none"}
Wants(b, s) == Trigger[b] \in {"any", s}

VARIABLES
  pin,          \* whether each button is held down
  buttons,      \* the buttons in the manager's map
  currentState, \* Button::currentState_
  stateChanged, \* Button::stateChanged_
  installed,    \* the handlers that registerCallback() has written
  callback,     \* those of which the button thread sees callback_ ...
  triggerState, \* ... and callbackTriggerState_
  pc,           \* where the button thread is
  todo,         \* the buttons its loop has still to visit
  told          \* the state of the last call for each button

vars == <<pin, buttons, currentState, stateChanged, installed, callback,
          triggerState, pc, todo, told>>

TypeOK ==
  /\ pin \in [Button -> State]
  /\ buttons \in SUBSET Button
  /\ currentState \in [Button -> State]
  /\ stateChanged \in [Button -> BOOLEAN]
  /\ installed \in SUBSET Handled
  /\ callback \in SUBSET installed /\ triggerState \in SUBSET installed
  /\ pc \in {"idle", "update", "trigger"}
  /\ todo \in SUBSET buttons
  /\ told \in [Button -> State \cup {"nothing"}]

Init ==
  /\ pin \in [Button -> State]
  /\ buttons = {}
  /\ currentState = [b \in Button |-> Released]
  /\ stateChanged = [b \in Button |-> FALSE]
  /\ installed = {} /\ callback = {} /\ triggerState = {}
  /\ pc = "idle" /\ todo = {}
  /\ told = [b \in Button |-> "nothing"]

-----------------------------------------------------------------------------
\* A button is pressed or released.
Move(b) ==
  /\ \E s \in State \ {pin[b]} : pin' = [pin EXCEPT ![b] = s]
  /\ UNCHANGED <<buttons, currentState, stateChanged, installed, callback,
                 triggerState, pc, todo, told>>

\* A mutant of the next definition: a change is forgotten at the next reading.
Update_Overwrites(b) ==
  /\ currentState' = [currentState EXCEPT ![b] = pin[b]]
  /\ stateChanged' = [stateChanged EXCEPT ![b] = pin[b] # currentState[b]]

\* Button::update()
Update(b) ==
  /\ currentState' = [currentState EXCEPT ![b] = pin[b]]
  /\ stateChanged' = [stateChanged EXCEPT ![b] = @ \/ pin[b] # currentState[b]]

-----------------------------------------------------------------------------
\* The session manager's thread.  registerButton() takes the lock, and
\* constructs a Button, which reads its pin.
RegisterButton(b) ==
  /\ b \notin buttons
  /\ pc = "idle"
  /\ buttons' = buttons \cup {b}
  /\ Update(b)
  /\ UNCHANGED <<pin, installed, callback, triggerState, pc, todo, told>>

\* A mutant of the next definition: all buttons have a handler.
RegisterCallback_All(b) ==
  /\ buttons = Button
  /\ b \notin installed
  /\ installed' = installed \cup {b}
  /\ UNCHANGED <<pin, buttons, currentState, stateChanged, callback,
                 triggerState, pc, todo, told>>

\* registerCallback(), of a button that is in the map; it takes no lock ...
RegisterCallback(b) ==
  /\ buttons = Button
  /\ b \in Handled \ installed
  /\ installed' = installed \cup {b}
  /\ UNCHANGED <<pin, buttons, currentState, stateChanged, callback,
                 triggerState, pc, todo, told>>

\* ... and what it writes arrives in any order.
WriteArrives(b) ==
  /\ \/ /\ b \in installed \ callback
        /\ callback' = callback \cup {b}
        /\ UNCHANGED triggerState
     \/ /\ b \in installed \ triggerState
        /\ triggerState' = triggerState \cup {b}
        /\ UNCHANGED callback
  /\ UNCHANGED <<pin, buttons, currentState, stateChanged, installed, pc, todo, told>>

DisplayInit == \E b \in Button : RegisterButton(b) \/ RegisterCallback(b)

-----------------------------------------------------------------------------
\* The button thread.
Unchanged == UNCHANGED <<pin, buttons, installed, callback, triggerState>>

\* ButtonManager::update() takes the lock.
BeginUpdate ==
  /\ pc = "idle"
  /\ pc' = "update" /\ todo' = buttons
  /\ UNCHANGED <<currentState, stateChanged, told>> /\ Unchanged

UpdateOne(b) ==
  /\ pc = "update" /\ b \in todo
  /\ Update(b)
  /\ todo' = todo \ {b}
  /\ UNCHANGED <<pc, told>> /\ Unchanged

BeginTrigger ==
  /\ pc = "update" /\ todo = {}
  /\ pc' = "trigger" /\ todo' = buttons
  /\ UNCHANGED <<currentState, stateChanged, told>> /\ Unchanged

\* The conditions of triggerCallback(); the trigger state is BUTTON_ANY_STATE at first.
CallDue(b) ==
  /\ b \in callback
  /\ stateChanged[b]
  /\ b \in triggerState => Wants(b, currentState[b])

\* A mutant of the next definition: a change is forgotten if there is nobody to tell.
TriggerOne_Forgets(b) ==
  /\ pc = "trigger" /\ b \in todo
  /\ stateChanged' = [stateChanged EXCEPT ![b] = FALSE]
  /\ told' = [told EXCEPT ![b] = IF CallDue(b) THEN currentState[b] ELSE @]
  /\ todo' = todo \ {b}
  /\ UNCHANGED <<pc, currentState>> /\ Unchanged

\* A mutant of the next definition: a change that was told stays pending.
TriggerOne_Again(b) ==
  /\ pc = "trigger" /\ b \in todo
  /\ told' = [told EXCEPT ![b] = IF CallDue(b) THEN currentState[b] ELSE @]
  /\ todo' = todo \ {b}
  /\ UNCHANGED <<pc, currentState, stateChanged>> /\ Unchanged

\* Button::triggerCallback()
TriggerOne(b) ==
  /\ pc = "trigger" /\ b \in todo
  /\ stateChanged' = [stateChanged EXCEPT ![b] = @ /\ ~CallDue(b)]
  /\ told' = [told EXCEPT ![b] = IF CallDue(b) THEN currentState[b] ELSE @]
  /\ todo' = todo \ {b}
  /\ UNCHANGED <<pc, currentState>> /\ Unchanged

\* The lock is given back, and the thread sleeps.
EndUpdate ==
  /\ pc = "trigger" /\ todo = {}
  /\ pc' = "idle"
  /\ UNCHANGED <<currentState, stateChanged, todo, told>> /\ Unchanged

Sweep == BeginUpdate \/ BeginTrigger \/ EndUpdate
         \/ \E b \in Button : UpdateOne(b) \/ TriggerOne(b)

-----------------------------------------------------------------------------
Next == DisplayInit \/ Sweep \/ \E b \in Button : Move(b) \/ WriteArrives(b)

Spec == Init /\ [][Next]_vars

\* Both threads run; the lock is free again and again, for a sleep of 10 ms,
\* and what one thread has written reaches the other.
FairSpec ==
  /\ Spec
  /\ WF_vars(Sweep)
  /\ SF_vars(DisplayInit)
  /\ \A b \in Button : WF_vars(WriteArrives(b))

-----------------------------------------------------------------------------
\* What the display believes of a button: released, until it has been told.
Believed(b) == IF told[b] = "nothing" THEN Released ELSE told[b]

\* A state that the handler wants to know, and does not, is still pending: no
\* change is forgotten because it came before the button had its handler, or
\* between two sweeps (stateChanged_ in update() and triggerCallback()).
ChangeIsKept ==
  \A b \in Button :
    Wants(b, currentState[b]) /\ currentState[b] # Believed(b) => stateChanged[b]

\* A handler of all changes is never called twice with the same state.
NoEcho ==
  [][\A b \in Button :
       Trigger[b] = "any" /\ TriggerOne(b) /\ CallDue(b) => told[b] # currentState[b]]_vars

\* The display comes to know how a button is held, as soon as it is held like
\* this for long enough, even if it has been so since the program started.
HeldIsTold ==
  \A b \in Button, s \in State :
    Wants(b, s) => (<>[](pin[b] = s) => <>[](Believed(b) = s))
=============================================================================
