---------------------------- MODULE SumController ----------------------------
(* The SUM auto-wake controller (runtime/sum_controller.py): one durable      *)
(* record that decides when to send "continue" into the conversation, the     *)
(* listeners that poll it and post the message (pulse_anchor.html), and the   *)
(* model that acknowledges the wake and later reports its turn complete.      *)
(*                                                                            *)
(* Each method runs inside _locked_state, so each section under the lock is   *)
(* one step.  A command sent through set_state is two: the transport guard    *)
(* and the command itself, with the lock released in between.  server_v2 and  *)
(* the operator connector, which exposes the same tools, are two processes,   *)
(* so sections of different calls interleave.                                 *)
(* Times are kept as distances to now(); Unset stands for a stored 0.         *)
EXTENDS Integers, Sequences

CONSTANTS Listeners,   \* mounted listener widgets
          Generations, \* transport generations
          NoGen,       \* an empty transport generation
          Generation,  \* the generation each listener was built with
          ChatGen,     \* the generation the model's instructions name
          Debounce, AckTimeout, RetryEvery, Grace, \* the controller's delays
          MaxAttempts, \* max_wake_attempts
          MaxWakes,    \* bound: wakes ever started
          MaxChat      \* bound: messages waiting in the conversation

ASSUME SumAssumption ==
  /\ NoGen \notin Generations
  /\ Generation \in [Listeners -> Generations]
  /\ ChatGen \in Generations \cup {NoGen}
  /\ {Debounce, AckTimeout, RetryEvery, Grace} \subseteq Nat \ {0}
  /\ MaxAttempts \in Nat \ {0}
  /\ MaxWakes \in Nat
  /\ MaxChat \in Nat

VARIABLES
  ctl,     \* the stored record
  wakes,   \* wake ids drawn so far; ids are numbered, 0 is the empty id
  phase,   \* where each listener is in pollSumController
  seen,    \* the wake a listener was asked to post, 0 if none
  chat,    \* messages waiting for the model, by the wakes they were posted for
  turn,    \* what the model is doing, and for which message
  checked, \* the wake an exact acknowledgement was found to match, 0 if none
  wanted   \* history: the operator's last word was "on", and no pause since

vars == <<ctl, wakes, phase, seen, chat, turn, checked, wanted>>

Unset == -1
WakeIds == 0..MaxWakes
InTurn == {"AWAKE", "WORKING", "STATIC_DEBOUNCE"}
States == InTurn \cup {"IDLE", "ARMED", "WAKE", "PAUSED", "ERROR"}
Times == Nat \cup {Unset}

Records ==
  [enabled : BOOLEAN, state : States, wake : Nat, acked : Nat, attempt : Nat,
   send_required : BOOLEAN, sent : BOOLEAN, wait : Times, response : Times,
   candidate : Times, observed : BOOLEAN, locked : BOOLEAN,
   bound : Generations \cup {NoGen}, error : {"", "ACK_TIMEOUT", "GENERATION_CHANGED"}]

Phases == {"idle", "tick", "post", "confirm", "mark"}
Turns == {"rest", "ask", "ack", "work", "complete"}
NoTurn == [at |-> "rest", for |-> 0]
Working == [at |-> "work", for |-> 0]

Later(s, t) == IF s >= t THEN s ELSE t
Sooner(t) == IF t > 0 THEN t - 1 ELSE t

-----------------------------------------------------------------------------
(* The methods of the store, as functions of the record *)

EmptyRecord ==
  [enabled |-> FALSE, state |-> "IDLE", wake |-> 0, acked |-> 0, attempt |-> 0,
   send_required |-> FALSE, sent |-> FALSE, wait |-> Unset, response |-> Unset,
   candidate |-> Unset, observed |-> FALSE, locked |-> FALSE,
   bound |-> NoGen, error |-> ""]

\* Fault: a switch leaves the lock of an unfinished turn.
SwitchedKeepingLock(c, on, g) ==
  [c EXCEPT !.enabled = on, !.state = IF on THEN "ARMED" ELSE "IDLE", !.error = "",
            !.send_required = FALSE, !.wait = Unset, !.response = Unset,
            !.bound = IF on /\ g # NoGen THEN g ELSE @]

\* What was pending is dropped, the wake and what was acknowledged stay.
Switched(c, on, g) ==
  [c EXCEPT !.enabled = on, !.state = IF on THEN "ARMED" ELSE "IDLE", !.error = "",
            !.send_required = FALSE, !.wait = Unset, !.response = Unset,
            !.locked = FALSE, !.bound = IF on /\ g # NoGen THEN g ELSE @]

Paused(c) ==
  [c EXCEPT !.enabled = FALSE, !.state = "PAUSED", !.send_required = FALSE,
            !.wait = Unset, !.response = Unset, !.locked = FALSE,
            !.error = "GENERATION_CHANGED"]

\* A first generation is bound; another one than the bound one pauses a
\* controller that is on.
Guarded(c, g) ==
  IF g = NoGen THEN c
  ELSE IF c.bound = NoGen THEN [c EXCEPT !.bound = g]
  ELSE IF c.bound = g \/ ~c.enabled THEN c
  ELSE Paused(c)

WakeStarted(c, id) ==
  [c EXCEPT !.state = "WAKE", !.wake = id, !.attempt = 0, !.send_required = TRUE,
            !.sent = FALSE, !.wait = Unset, !.response = Unset, !.candidate = Unset,
            !.observed = FALSE, !.locked = FALSE, !.error = ""]

\* The time left to wait for an acknowledgement: the stored deadline, or the
\* grace period since the host was seen to respond if that is later.
\* (Records from before wake_wait_until was stored are left out.)
WaitLeft(c) == IF c.response = Unset THEN c.wait ELSE Later(c.wait, c.response)
RetryDue(c) == c.sent /\ ~c.send_required /\ WaitLeft(c) <= 0

\* Fault: the lock of the turn is not asked, only whether it rests.
WakeDueUnlocked(c) ==
  /\ c.enabled
  /\ c.state = "ARMED" \/ (c.state \in InTurn /\ c.candidate <= 0)

\* A new wake is due when the controller was armed, or when a completed turn has
\* rested for the debounce time.
WakeDue(c) ==
  /\ c.enabled /\ ~c.locked
  /\ c.state = "ARMED" \/ (c.state = "STATIC_DEBOUNCE" /\ c.candidate = 0)

Asked(c) == c.enabled /\ ~c.locked /\ c.state = "WAKE" /\ RetryDue(c)

\* Fault: the deadline passes without effect once the attempts are spent.
TickedSilently(c) ==
  IF Asked(c) /\ c.attempt < MaxAttempts
  THEN [c EXCEPT !.send_required = TRUE, !.wait = WaitLeft(c)] ELSE c

\* A wake whose deadline passed is sent again, or given up.
Ticked(c) ==
  IF ~Asked(c) THEN c
  ELSE IF c.attempt < MaxAttempts
  THEN [c EXCEPT !.send_required = TRUE, !.wait = WaitLeft(c)]
  ELSE [c EXCEPT !.enabled = FALSE, !.state = "ERROR", !.send_required = FALSE,
                 !.wait = WaitLeft(c), !.error = "ACK_TIMEOUT"]

Counts(c) == c.state = "WAKE" /\ c.wake # 0 /\ c.send_required

Sent(c) ==
  IF ~Counts(c) THEN c
  ELSE [c EXCEPT !.attempt = @ + 1, !.send_required = FALSE, !.sent = TRUE,
                 !.wait = IF c.attempt = 0 THEN AckTimeout ELSE RetryEvery,
                 !.response = IF c.attempt = 0 THEN Unset ELSE @]

\* Fault: whatever ended the wake, a late acknowledgement brings it back.
AcceptsAny(c) == c.wake # 0 /\ c.state \in {"WAKE", "ERROR", "PAUSED"}

\* A wake is acknowledged once, while it is out or after it timed out.
Accepts(c) ==
  \/ c.state = "WAKE"
  \/ c.state = "ERROR" /\ c.error = "ACK_TIMEOUT" /\ c.wake # 0

AckedCurrent(c) ==
  IF ~Accepts(c) THEN c
  ELSE [c EXCEPT !.enabled = TRUE, !.state = "AWAKE", !.acked = c.wake,
                 !.send_required = FALSE, !.wait = Unset, !.response = Unset,
                 !.error = "", !.observed = FALSE, !.locked = TRUE]

Signalled(c, active) ==
  CASE active /\ c.state = "WAKE" ->
         [c EXCEPT !.observed = TRUE, !.response = Grace, !.wait = Later(@, Grace)]
    [] active /\ c.locked /\ c.state \in InTurn ->
         [c EXCEPT !.state = "WORKING", !.candidate = Unset, !.observed = TRUE]
    [] ~active /\ c.state = "WORKING" /\ c.observed /\ c.locked ->
         [c EXCEPT !.state = "AWAKE"]
    [] OTHER -> c

Completed(c) ==
  IF c.wake # 0 /\ c.acked = c.wake /\ c.locked /\ c.state \in InTurn
  THEN [c EXCEPT !.locked = FALSE, !.state = "STATIC_DEBOUNCE",
                 !.candidate = Debounce, !.observed = FALSE]
  ELSE c

\* The bound generation and the last acknowledged wake are forgotten too; the
\* deadlines are not, which no state that follows looks at.
ResetRecord(c) == [EmptyRecord EXCEPT !.wait = c.wait, !.response = c.response]

-----------------------------------------------------------------------------
(* The listener: pollSumController *)

\* The guard of a call; it pauses, or the call goes on.
Guard(g) ==
  /\ ctl' = Guarded(ctl, g)
  /\ wanted' = (wanted /\ ctl'.state # "PAUSED")

Asks(l, next) ==
  /\ Guard(Generation[l])
  /\ phase' = [phase EXCEPT ![l] = IF ctl'.state = "PAUSED" THEN "idle" ELSE next]
  /\ UNCHANGED <<wakes, seen, chat, turn, checked>>

Poll(l) == phase[l] = "idle" /\ Asks(l, "tick")

\* The listener posts if the answer says so, whatever else it says.
Answered(l, c) ==
  LET asked == c.state = "WAKE" /\ c.send_required IN
  /\ ctl' = c
  /\ phase' = [phase EXCEPT ![l] = IF asked THEN "post" ELSE "idle"]
  /\ seen' = [seen EXCEPT ![l] = IF asked THEN c.wake ELSE 0]
  /\ UNCHANGED <<chat, turn, checked, wanted>>

\* The tick of a listener that reports itself well, with its video in view.
Tick(l) ==
  /\ phase[l] = "tick"
  /\ \/ /\ WakeDue(ctl) /\ wakes < MaxWakes
        /\ wakes' = wakes + 1
        /\ Answered(l, WakeStarted(ctl, wakes + 1))
     \/ /\ ~WakeDue(ctl)
        /\ Answered(l, Ticked(ctl))
        /\ UNCHANGED wakes

\* The tick of another one, which changes nothing.
TickUnwell(l) ==
  /\ phase[l] = "tick"
  /\ Answered(l, ctl)
  /\ UNCHANGED wakes

\* The host confirms the message; its text does not name the wake.
Post(l) ==
  /\ phase[l] = "post"
  /\ Len(chat) < MaxChat
  /\ chat' = Append(chat, seen[l])
  /\ phase' = [phase EXCEPT ![l] = "confirm"]
  /\ seen' = [seen EXCEPT ![l] = 0]
  /\ UNCHANGED <<ctl, wakes, turn, checked, wanted>>

Confirm(l) == phase[l] = "confirm" /\ Asks(l, "mark")

Mark(l) ==
  /\ phase[l] = "mark"
  /\ ctl' = Sent(ctl)
  /\ phase' = [phase EXCEPT ![l] = "idle"]
  /\ UNCHANGED <<wakes, seen, chat, turn, checked, wanted>>

\* The host is busy or does not confirm, a call fails, or the page is reloaded.
GiveUp(l) ==
  /\ phase[l] \in {"post", "confirm", "mark"}
  /\ phase' = [phase EXCEPT ![l] = "idle"]
  /\ seen' = [seen EXCEPT ![l] = 0]
  /\ UNCHANGED <<ctl, wakes, chat, turn, checked, wanted>>

\* A listener reports that the host became active or quiet.  (The guard of that
\* call, if it has one, does what the guard of a poll does.)
HostSignal(active) ==
  /\ Signalled(ctl, active) # ctl
  /\ ctl' = Signalled(ctl, active)
  /\ UNCHANGED <<wakes, phase, seen, chat, turn, checked, wanted>>

-----------------------------------------------------------------------------
(* The model, an exact acknowledgement, the operator, and time *)

\* The model takes up a message.
Reads ==
  /\ turn.at = "rest" /\ chat # <<>>
  /\ turn' = [at |-> "ask", for |-> Head(chat)]
  /\ chat' = Tail(chat)
  /\ UNCHANGED <<ctl, wakes, phase, seen, checked, wanted>>

\* It calls through set_state, with the generation its instructions name ...
ChatAsks(from, next) ==
  /\ turn.at = from
  /\ Guard(ChatGen)
  /\ turn' = IF ctl'.state = "PAUSED" THEN Working ELSE [turn EXCEPT !.at = next]
  /\ UNCHANGED <<wakes, phase, seen, chat, checked>>

\* ... or the tool itself, which has no guard.
ChatDirect(from, next) ==
  /\ turn.at = from
  /\ turn' = [turn EXCEPT !.at = next]
  /\ UNCHANGED <<ctl, wakes, phase, seen, chat, checked, wanted>>

AckCurrent ==
  /\ turn.at = "ack"
  /\ ctl' = AckedCurrent(ctl)
  /\ turn' = Working
  /\ UNCHANGED <<wakes, phase, seen, chat, checked, wanted>>

CompleteTurn ==
  /\ turn.at = "complete"
  /\ ctl' = Completed(ctl)
  /\ turn' = NoTurn
  /\ UNCHANGED <<wakes, phase, seen, chat, checked, wanted>>

\* The turn ends without the calls that were due.
TurnBreaksOff ==
  /\ turn.at # "rest"
  /\ turn' = NoTurn
  /\ UNCHANGED <<ctl, wakes, phase, seen, chat, checked, wanted>>

Chat ==
  \/ Reads
  \/ ChatAsks("ask", "ack") \/ ChatDirect("ask", "ack")
  \/ AckCurrent
  \/ ChatAsks("work", "complete") \/ ChatDirect("work", "complete")
  \/ CompleteTurn
  \/ TurnBreaksOff

\* ack_wake compares the ids (cycle and epoch change with the wake) ...
ExactChecks ==
  /\ checked = 0 /\ ctl.wake # 0
  /\ checked' = ctl.wake
  /\ UNCHANGED <<ctl, wakes, phase, seen, chat, turn, wanted>>

\* ... and acknowledges in a second section.
ExactActs ==
  /\ checked # 0
  /\ ctl' = AckedCurrent(ctl)
  /\ checked' = 0
  /\ UNCHANGED <<wakes, phase, seen, chat, turn, wanted>>

\* The switch of a listener's page sends its generation, the tool itself none.
PageGenerations == {Generation[l] : l \in Listeners}

Switch(on, g) ==
  /\ ctl' = Switched(ctl, on, g)
  /\ wanted' = on
  /\ UNCHANGED <<wakes, phase, seen, chat, turn, checked>>

Reset ==
  /\ ctl' = ResetRecord(ctl)
  /\ wanted' = FALSE
  /\ UNCHANGED <<wakes, phase, seen, chat, turn, checked>>

TimePasses ==
  /\ \E t \in {ctl.wait, ctl.response, ctl.candidate} : t > 0
  /\ ctl' = [ctl EXCEPT !.wait = Sooner(@), !.response = Sooner(@), !.candidate = Sooner(@)]
  /\ UNCHANGED <<wakes, phase, seen, chat, turn, checked, wanted>>

Init ==
  /\ ctl = EmptyRecord
  /\ wakes = 0
  /\ phase = [l \in Listeners |-> "idle"]
  /\ seen = [l \in Listeners |-> 0]
  /\ chat = <<>>
  /\ turn = NoTurn
  /\ checked = 0
  /\ wanted = FALSE

Listen(l) == Poll(l) \/ Tick(l) \/ TickUnwell(l) \/ Post(l) \/ Confirm(l) \/ Mark(l) \/ GiveUp(l)

Next ==
  \/ \E l \in Listeners : Listen(l)
  \/ \E active \in BOOLEAN : HostSignal(active)
  \/ Chat
  \/ ExactChecks \/ ExactActs
  \/ \E on \in BOOLEAN, g \in PageGenerations \cup {NoGen} : Switch(on, g)
  \/ Reset
  \/ TimePasses

Spec == Init /\ [][Next]_vars

\* The listeners' polls come round again and again, sometimes while one is well.
FairSpec ==
  /\ Spec
  /\ WF_vars(TimePasses)
  /\ \A l \in Listeners : WF_vars(Listen(l))
  /\ SF_vars(\E l \in Listeners : Tick(l))

-----------------------------------------------------------------------------
(* Properties *)

\* Types; an id that is used was drawn.
SumTypeOK ==
  /\ ctl \in Records
  /\ wakes \in WakeIds
  /\ ctl.wake <= wakes
  /\ phase \in [Listeners -> Phases]
  /\ seen \in [Listeners -> Nat]
  /\ chat \in Seq(Nat)
  /\ turn \in [at : Turns, for : Nat]
  /\ checked \in Nat
  /\ wanted \in BOOLEAN

\* Only the operator turns the controller on: after a stop, a reset or a pause no
\* late acknowledgement, tick or report does, though a late acknowledgement
\* turns on again a controller that gave a wake up.
EnabledByOperator == ctl.enabled => wanted

\* A lock on the turn can always be released by complete_current_turn: nothing
\* else would ever let the controller start a wake again.
LockCanBeReleased == ctl.locked => Completed(ctl) # ctl

\* Between two listeners that both were asked for the same message, attempts
\* are counted once per request and stay within their limit.
AttemptsWithinLimit == ctl.attempt <= MaxAttempts

\* A wake does not follow another before that one was acknowledged and its turn
\* reported complete, unless the operator armed the controller again.
OneWakeAtATime ==
  [][ctl'.wake > ctl.wake /\ ctl.state # "ARMED"
       => ctl.acked = ctl.wake /\ ~ctl.locked]_vars

\* A message that was sent is not waited on for ever: the wake is acknowledged,
\* stopped, sent again or given up, unless the host keeps reporting activity.
WaitEnds ==
  \/ (ctl.state = "WAKE" /\ ~ctl.send_required) ~> (ctl.state # "WAKE" \/ ctl.send_required)
  \/ []<><<HostSignal(TRUE)>>_vars

\* What the design calls the authoritative proof of delivery: the wake that a
\* turn acknowledges is the one its message was posted for.
\* The code does not keep this one (README, Divergences).
AckProvesDelivery ==
  [][turn.at = "ack" /\ turn'.at = "work" => ctl'.acked \in {ctl.acked, turn.for}]_vars
=============================================================================
