---------------------------- MODULE TurnService ----------------------------
(***************************************************************************)
(* What the agent promises a client that submits turns, whatever happens   *)
(* inside a turn: accepted turns are numbered and started in the order in  *)
(* which they were accepted, one at a time; a started turn gets exactly    *)
(* one outcome; it is aborted if and only if it was cancelled; the service *)
(* stops only between turns.  Continue-as-new is invisible.                *)
(***************************************************************************)
EXTENDS Integers, Sequences

CONSTANT NONE

VARIABLES
  queue,      \* accepted turns that have not started, oldest first
  accepted,   \* number of turns accepted so far
  active,     \* the turn that is running
  cancelled,  \* it has been cancelled
  outcomes,   \* <<turn, outcome>> of the turns that are over
  stopped

serviceVars == <<queue, accepted, active, cancelled, outcomes, stopped>>

ServiceInit ==
  /\ accepted \in {0, 1}
  /\ queue = IF accepted = 1 THEN <<0>> ELSE <<>>
  /\ active = NONE
  /\ cancelled = FALSE
  /\ outcomes = {}
  /\ stopped = FALSE

Submit ==
  /\ ~stopped
  /\ queue' = Append(queue, accepted)
  /\ accepted' = accepted + 1
  /\ UNCHANGED <<active, cancelled, outcomes, stopped>>

Begin ==
  /\ ~stopped
  /\ active = NONE
  /\ queue # <<>>
  /\ active' = Head(queue)
  /\ queue' = Tail(queue)
  /\ UNCHANGED <<accepted, cancelled, outcomes, stopped>>

Cancel ==
  /\ active # NONE
  /\ cancelled' = TRUE
  /\ UNCHANGED <<queue, accepted, active, outcomes, stopped>>

Outcome == IF cancelled THEN "TurnAborted" ELSE "TurnComplete"

Finish ==
  /\ active # NONE
  /\ outcomes' = outcomes \cup {<<active, Outcome>>}
  /\ active' = NONE
  /\ cancelled' = FALSE
  /\ stopped' \in BOOLEAN
  /\ UNCHANGED <<queue, accepted>>

Stop ==
  /\ active = NONE
  /\ stopped' = TRUE
  /\ UNCHANGED <<queue, accepted, active, cancelled, outcomes>>

ServiceNext == Submit \/ Begin \/ Cancel \/ Finish \/ Stop

ServiceSpec == ServiceInit /\ [][ServiceNext]_serviceVars

=============================================================================
