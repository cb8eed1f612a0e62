----------------------------- MODULE RunLifecycle -----------------------------
(* The lifecycle of one run: core/statemachine/machine.go.                    *)
(* The machine is a value (its state); an operation that the code refuses    *)
(* with an error leaves the value unchanged.                                  *)

RunStates == {"queued", "running", "waiting_approval", "waiting_user_input",
              "completed", "failed", "cancelled"}

TerminalStates == {"completed", "failed", "cancelled"}

ControlKinds == {"stop", "approve", "deny", "resume", "answer"}

\* The transition matrix, as the set of pairs it allows.
AllowedTransitions_NoCancelInWait ==
  ({"queued"} \X {"running", "cancelled"})
    \cup ({"running"} \X (RunStates \ {"queued", "running"}))
    \cup ({"waiting_approval", "waiting_user_input"} \X {"running", "failed"})
AllowedTransitions ==
  ({"queued"} \X {"running", "cancelled"})
    \cup ({"running"} \X (RunStates \ {"queued", "running"}))
    \cup ({"waiting_approval", "waiting_user_input"}
             \X {"running", "failed", "cancelled"})

CanTransition(current, next) == <<current, next>> \in AllowedTransitions

\* Machine.Transition: the new state, or the old one when refused.
Transition(current, next) == IF CanTransition(current, next) THEN next ELSE current

IsTerminal(state) == state \in TerminalStates

\* The pairs on which Machine.ApplyControl returns no error.
AcceptsControl(state, action) ==
  \/ action \in {"stop", "deny"} /\ CanTransition(state, "cancelled")
  \/ action \in {"approve", "resume"}
       /\ state \in {"queued", "waiting_approval", "running"}
  \/ action = "answer" /\ state = "waiting_user_input"

ApplyControl_ActionAsState(state, action) ==
  IF AcceptsControl(state, action) THEN action ELSE state
ApplyControl_StaysWaiting(state, action) ==
  IF AcceptsControl(state, action) /\ action = "answer" THEN "running" ELSE state
\* Machine.ApplyControl: stop and deny cancel, the others put the run back to
\* running; a refused control changes nothing.
ApplyControl(state, action) ==
  IF ~AcceptsControl(state, action) THEN state
  ELSE IF action \in {"stop", "deny"} THEN "cancelled" ELSE "running"
===============================================================================
