-------------------------- MODULE SumControllerProofs --------------------------
(* Proofs about SumController, for all listeners, generations, delays and     *)
(* attempt limits.                                                            *)
(*                                                                            *)
(* Each method of the store is a function of the record.  A lemma per method  *)
(* says that the record stays good and what it may change that the rest of    *)
(* the system relies on; a step only names the methods it applies.            *)
EXTENDS SumController, TLAPS

\* What the fields of the record say about one another.
RecordInv(c) ==
  /\ c.enabled <=> c.state \in InTurn \cup {"ARMED", "WAKE"}
  /\ c.error = "ACK_TIMEOUT" <=> c.state = "ERROR"
  /\ c.state \in InTurn \cup {"WAKE"} => c.wake # 0
  /\ c.state \in InTurn => c.acked = c.wake
  /\ c.locked => c.state \in InTurn
  /\ c.attempt <= MaxAttempts
  /\ c.send_required => c.state = "WAKE" /\ c.attempt < MaxAttempts

\* A wake that was given up can come back, so the operator's wish outlives it.
On(c) == c.enabled \/ c.state = "ERROR"

IInv ==
  /\ SumTypeOK
  /\ RecordInv(ctl)
  /\ On(ctl) => wanted

Good(c) == c \in Records /\ RecordInv(c)

\* A method other than the operator's switch and the start of a wake.
Kept(c, f) == f.wake = c.wake /\ (On(f) => On(c))

-----------------------------------------------------------------------------
(* One lemma per method *)

LEMMA Delays ==
  /\ Debounce \in Nat /\ AckTimeout \in Nat /\ RetryEvery \in Nat /\ Grace \in Nat
  /\ MaxAttempts \in Nat /\ 0 < MaxAttempts
BY SumAssumption

LEMMA KnownGenerations ==
  /\ ChatGen \in Generations \cup {NoGen}
  /\ \A l \in Listeners : Generation[l] \in Generations \cup {NoGen}
BY SumAssumption

LEMMA Numbers ==
  ASSUME SumTypeOK
  PROVE  wakes \in Nat /\ ctl.wake \in Nat
<1>1. MaxWakes \in Nat
  BY SumAssumption
<1>2. wakes \in Nat
  BY <1>1 DEF SumTypeOK, WakeIds
<1>3. ctl.wake \in Nat
  BY DEF SumTypeOK, Records
<1>4. QED
  BY <1>2, <1>3

LEMMA EmptyGood == Good(EmptyRecord) /\ ~On(EmptyRecord) /\ EmptyRecord.wake = 0
<1> DEFINE f == EmptyRecord
<1>1. f \in Records
  BY DEF EmptyRecord, Records, States, Times, Unset
<1>2. /\ f.enabled = FALSE /\ f.state = "IDLE" /\ f.wake = 0 /\ f.error = ""
      /\ f.locked = FALSE /\ f.attempt = 0 /\ f.send_required = FALSE
  BY DEF EmptyRecord
<1> HIDE DEF f
<1>2a. f.attempt = 0
  BY <1>2
<1>3. f.attempt < MaxAttempts /\ f.attempt <= MaxAttempts
  BY <1>2a, Delays
<1>4. Good(f) /\ ~On(f) /\ f.wake = 0
  BY <1>1, <1>2, <1>3 DEF Good, RecordInv, On, InTurn
<1>5. QED
  BY <1>4 DEF f

LEMMA SwitchedGood ==
  ASSUME NEW c, Good(c), NEW on \in BOOLEAN, NEW g \in Generations \cup {NoGen}
  PROVE  /\ Good(Switched(c, on, g))
         /\ Switched(c, on, g).wake = c.wake
         /\ On(Switched(c, on, g)) => on
<1> DEFINE f == Switched(c, on, g)
           s == IF on THEN "ARMED" ELSE "IDLE"
           b == IF on /\ g # NoGen THEN g ELSE c.bound
<1>0. s \in States /\ b \in Generations \cup {NoGen}
  BY DEF Good, Records, States
<1>1. f = [c EXCEPT !.enabled = on, !.state = s, !.error = "", !.send_required = FALSE,
                    !.wait = Unset, !.response = Unset, !.locked = FALSE, !.bound = b]
  BY DEF Switched, Good, Records
<1> HIDE DEF s, b, f
<1>1a. f \in Records
  BY <1>0, <1>1 DEF Good, Records, Times
<1>1b. /\ f.enabled = on /\ f.state = s /\ f.error = ""
       /\ f.send_required = FALSE /\ f.locked = FALSE
       /\ f.wake = c.wake /\ f.attempt = c.attempt
  BY <1>1 DEF Good, Records
<1>2. /\ f.enabled = on /\ f.state = (IF on THEN "ARMED" ELSE "IDLE") /\ f.error = ""
      /\ f.send_required = FALSE /\ f.locked = FALSE
      /\ f.wake = c.wake /\ f.attempt = c.attempt
  BY <1>1b DEF s
<1>3. Good(f) /\ f.wake = c.wake /\ (On(f) => on)
  BY <1>1a, <1>2 DEF Good, RecordInv, On, InTurn
<1>4. QED
  BY <1>3 DEF f

LEMMA PausedGood ==
  ASSUME NEW c, Good(c)
  PROVE  Good(Paused(c)) /\ Paused(c).wake = c.wake /\ ~On(Paused(c))
<1> DEFINE f == Paused(c)
<1>1. f \in Records
  BY DEF Good, Paused, Records, States, Times
<1>2. /\ f.enabled = FALSE /\ f.state = "PAUSED" /\ f.error = "GENERATION_CHANGED"
      /\ f.send_required = FALSE /\ f.locked = FALSE
      /\ f.wake = c.wake /\ f.attempt = c.attempt
  BY DEF Good, Paused, Records
<1> HIDE DEF f
<1>3. Good(f) /\ f.wake = c.wake /\ ~On(f)
  BY <1>1, <1>2 DEF Good, RecordInv, On, InTurn
<1>4. QED
  BY <1>3 DEF f

\* After a guard a paused controller is off, and an unpaused one is as it was.
LEMMA GuardedGood ==
  ASSUME NEW c, Good(c), NEW g \in Generations \cup {NoGen}
  PROVE  /\ Good(Guarded(c, g)) /\ Kept(c, Guarded(c, g))
         /\ Guarded(c, g).state = "PAUSED" => ~On(Guarded(c, g))
<1>1. CASE g # NoGen /\ c.bound = NoGen
  <2> DEFINE f == [c EXCEPT !.bound = g]
  <2>1. f \in Records
    BY DEF Good, Records
  <2>2. /\ f.enabled = c.enabled /\ f.state = c.state /\ f.error = c.error
        /\ f.send_required = c.send_required /\ f.locked = c.locked
        /\ f.wake = c.wake /\ f.acked = c.acked /\ f.attempt = c.attempt
    BY DEF Good, Records
  <2> HIDE DEF f
  <2>3. Good(f) /\ Kept(c, f) /\ (f.state = "PAUSED" => ~On(f))
    BY <2>1, <2>2 DEF Good, RecordInv, On, Kept, InTurn
  <2>4. QED
    BY <1>1, <2>3 DEF f, Guarded
<1>2. CASE g # NoGen /\ c.bound # NoGen /\ ~(c.bound = g \/ ~c.enabled)
  BY <1>2, PausedGood DEF Guarded, Kept
<1>3. CASE g = NoGen \/ (c.bound # NoGen /\ (c.bound = g \/ ~c.enabled))
  <2>1. Guarded(c, g) = c
    BY <1>3 DEF Guarded
  <2>2. QED
    BY <2>1 DEF Good, RecordInv, On, Kept, InTurn
<1>4. QED
  BY <1>1, <1>2, <1>3

LEMMA WakeStartedGood ==
  ASSUME NEW c, Good(c), c.enabled, NEW id \in Nat \ {0}
  PROVE  /\ Good(WakeStarted(c, id))
         /\ WakeStarted(c, id).wake = id
         /\ On(WakeStarted(c, id)) => On(c)
<1> DEFINE f == WakeStarted(c, id)
<1>1. f \in Records
  BY DEF Good, WakeStarted, Records, States, Times
<1>2. /\ f.enabled = c.enabled /\ f.state = "WAKE" /\ f.error = ""
      /\ f.locked = FALSE /\ f.wake = id /\ f.attempt = 0
  BY DEF Good, WakeStarted, Records
<1> HIDE DEF f
<1>2a. f.attempt = 0
  BY <1>2
<1>3. f.attempt < MaxAttempts /\ f.attempt <= MaxAttempts
  BY <1>2a, Delays
<1>4. Good(f) /\ f.wake = id /\ (On(f) => On(c))
  BY <1>1, <1>2, <1>3 DEF Good, RecordInv, On, InTurn
<1>5. QED
  BY <1>4 DEF f

LEMMA WaitLeftTime ==
  ASSUME NEW c, Good(c)
  PROVE  WaitLeft(c) \in Times
BY DEF Good, Records, WaitLeft, Later, Times, Unset

LEMMA TickedGood ==
  ASSUME NEW c, Good(c)
  PROVE  Good(Ticked(c)) /\ Kept(c, Ticked(c))
<1>1. CASE ~Asked(c)
  BY <1>1 DEF Ticked, Kept
<1>2. CASE Asked(c) /\ c.attempt < MaxAttempts
  <2> DEFINE f == [c EXCEPT !.send_required = TRUE, !.wait = WaitLeft(c)]
  <2>1. f \in Records
    BY WaitLeftTime DEF Good, Records
  <2>2. /\ f.enabled = c.enabled /\ f.state = c.state /\ f.error = c.error
        /\ f.locked = c.locked /\ f.acked = c.acked
        /\ f.wake = c.wake /\ f.attempt = c.attempt
    BY DEF Good, Records
  <2> HIDE DEF f
  <2>3. Good(f) /\ Kept(c, f)
    BY <1>2, <2>1, <2>2 DEF Good, RecordInv, On, Kept, InTurn, Asked
  <2>4. QED
    BY <1>2, <2>3 DEF f, Ticked
<1>3. CASE Asked(c) /\ ~(c.attempt < MaxAttempts)
  <2> DEFINE f == [c EXCEPT !.enabled = FALSE, !.state = "ERROR", !.send_required = FALSE,
                            !.wait = WaitLeft(c), !.error = "ACK_TIMEOUT"]
  <2>1. f \in Records
    BY WaitLeftTime DEF Good, Records, States
  <2>2. /\ f.enabled = FALSE /\ f.state = "ERROR" /\ f.error = "ACK_TIMEOUT"
        /\ f.send_required = FALSE /\ f.locked = c.locked
        /\ f.wake = c.wake /\ f.attempt = c.attempt
    BY DEF Good, Records
  <2> HIDE DEF f
  <2>3. Good(f) /\ Kept(c, f)
    BY <1>3, <2>1, <2>2 DEF Good, RecordInv, On, Kept, InTurn, Asked
  <2>4. QED
    BY <1>3, <2>3 DEF f, Ticked
<1>4. QED
  BY <1>1, <1>2, <1>3

\* An attempt is counted only when one was asked for, so below the limit.
LEMMA SentGood ==
  ASSUME NEW c, Good(c)
  PROVE  Good(Sent(c)) /\ Kept(c, Sent(c))
<1>1. CASE ~Counts(c)
  BY <1>1 DEF Sent, Kept
<1>2. CASE Counts(c)
  <2> DEFINE f == Sent(c)
             w == IF c.attempt = 0 THEN AckTimeout ELSE RetryEvery
             r == IF c.attempt = 0 THEN Unset ELSE c.response
  <2>0. /\ w \in Times /\ r \in Times
        /\ c.attempt + 1 \in Nat
    <3>1. c.attempt \in Nat /\ c.response \in Times
      BY DEF Good, Records
    <3>2. QED
      BY <3>1, Delays DEF Times
  <2>1. f = [c EXCEPT !.attempt = c.attempt + 1, !.send_required = FALSE, !.sent = TRUE,
                      !.wait = w, !.response = r]
    BY <1>2 DEF Sent, Good, Records
  <2> HIDE DEF w, r, f
  <2>2. f \in Records
    BY <2>0, <2>1 DEF Good, Records
  <2>3. /\ f.enabled = c.enabled /\ f.state = c.state /\ f.error = c.error
        /\ f.send_required = FALSE /\ f.locked = c.locked /\ f.acked = c.acked
        /\ f.wake = c.wake /\ f.attempt = c.attempt + 1
    BY <2>1 DEF Good, Records
  <2>4. c.attempt \in Nat /\ c.attempt < MaxAttempts
    BY <1>2 DEF Counts, Good, RecordInv, Records
  <2>5. Good(f) /\ Kept(c, f)
    BY <2>2, <2>3, <2>4, Delays DEF Good, RecordInv, On, Kept, InTurn
  <2>6. QED
    BY <2>5 DEF f
<1>3. QED
  BY <1>1, <1>2

\* Only a wake that is out or timed out accepts, so the controller was on or
\* had given up.
LEMMA AckedCurrentGood ==
  ASSUME NEW c, Good(c)
  PROVE  Good(AckedCurrent(c)) /\ Kept(c, AckedCurrent(c))
<1>1. CASE ~Accepts(c)
  BY <1>1 DEF AckedCurrent, Kept
<1>2. CASE Accepts(c)
  <2> DEFINE f == AckedCurrent(c)
  <2>1. f \in Records
    BY <1>2 DEF AckedCurrent, Good, Records, States, InTurn, Times
  <2>2. /\ f.enabled = TRUE /\ f.state = "AWAKE" /\ f.error = ""
        /\ f.send_required = FALSE /\ f.acked = c.wake
        /\ f.wake = c.wake /\ f.attempt = c.attempt
    BY <1>2 DEF AckedCurrent, Good, Records
  <2> HIDE DEF f
  <2>3. Good(f) /\ Kept(c, f)
    BY <1>2, <2>1, <2>2 DEF Accepts, Good, RecordInv, On, Kept, InTurn
  <2>4. QED
    BY <2>3 DEF f
<1>3. QED
  BY <1>1, <1>2

LEMMA SignalledGood ==
  ASSUME NEW c, Good(c), NEW active \in BOOLEAN
  PROVE  Good(Signalled(c, active)) /\ Kept(c, Signalled(c, active))
<1> DEFINE f == Signalled(c, active)
<1>0. Grace \in Times /\ Later(c.wait, Grace) \in Times
  BY Delays DEF Good, Records, Times, Later, Unset
<1>1. CASE active /\ c.state = "WAKE"
  <2>1. f = [c EXCEPT !.observed = TRUE, !.response = Grace, !.wait = Later(c.wait, Grace)]
    BY <1>1 DEF Signalled, Good, Records, InTurn
  <2> HIDE DEF f
  <2>2. f \in Records
    BY <1>0, <2>1 DEF Good, Records
  <2>3. /\ f.enabled = c.enabled /\ f.state = c.state /\ f.error = c.error
        /\ f.send_required = c.send_required /\ f.locked = c.locked
        /\ f.wake = c.wake /\ f.acked = c.acked /\ f.attempt = c.attempt
    BY <2>1 DEF Good, Records
  <2>4. Good(f) /\ Kept(c, f)
    BY <2>2, <2>3 DEF Good, RecordInv, On, Kept, InTurn
  <2>5. QED
    BY <2>4 DEF f
<1>2. CASE active /\ c.locked /\ c.state \in InTurn
  <2>1. f = [c EXCEPT !.state = "WORKING", !.candidate = Unset, !.observed = TRUE]
    BY <1>2 DEF Signalled, InTurn
  <2> HIDE DEF f
  <2>2. f \in Records
    BY <2>1 DEF Good, Records, States, InTurn, Times
  <2>3. /\ f.enabled = c.enabled /\ f.state = "WORKING" /\ f.error = c.error
        /\ f.send_required = c.send_required /\ f.locked = c.locked
        /\ f.wake = c.wake /\ f.acked = c.acked /\ f.attempt = c.attempt
    BY <2>1 DEF Good, Records
  <2>4. Good(f) /\ Kept(c, f)
    BY <1>2, <2>2, <2>3 DEF Good, RecordInv, On, Kept, InTurn
  <2>5. QED
    BY <2>4 DEF f
<1>3. CASE ~active /\ c.state = "WORKING" /\ c.observed /\ c.locked
  <2>1. f = [c EXCEPT !.state = "AWAKE"]
    BY <1>3 DEF Signalled, InTurn
  <2> HIDE DEF f
  <2>2. f \in Records
    BY <2>1 DEF Good, Records, States, InTurn
  <2>3. /\ f.enabled = c.enabled /\ f.state = "AWAKE" /\ f.error = c.error
        /\ f.send_required = c.send_required /\ f.locked = c.locked
        /\ f.wake = c.wake /\ f.acked = c.acked /\ f.attempt = c.attempt
    BY <2>1 DEF Good, Records
  <2>4. Good(f) /\ Kept(c, f)
    BY <1>3, <2>2, <2>3 DEF Good, RecordInv, On, Kept, InTurn
  <2>5. QED
    BY <2>4 DEF f
<1>4. CASE /\ ~(active /\ c.state = "WAKE")
           /\ ~(active /\ c.locked /\ c.state \in InTurn)
           /\ ~(~active /\ c.state = "WORKING" /\ c.observed /\ c.locked)
  <2>1. f = c
    BY <1>4 DEF Signalled
  <2>2. QED
    BY <2>1 DEF Kept
<1>5. QED
  BY <1>1, <1>2, <1>3, <1>4

LEMMA CompletedGood ==
  ASSUME NEW c, Good(c)
  PROVE  Good(Completed(c)) /\ Kept(c, Completed(c))
<1> DEFINE due == c.wake # 0 /\ c.acked = c.wake /\ c.locked /\ c.state \in InTurn
<1>1. CASE ~due
  BY <1>1 DEF Completed, Kept
<1>2. CASE due
  <2> DEFINE f == [c EXCEPT !.locked = FALSE, !.state = "STATIC_DEBOUNCE",
                            !.candidate = Debounce, !.observed = FALSE]
  <2>1. f \in Records
    BY Delays DEF Good, Records, States, InTurn, Times
  <2>2. /\ f.enabled = c.enabled /\ f.state = "STATIC_DEBOUNCE" /\ f.error = c.error
        /\ f.send_required = c.send_required /\ f.locked = FALSE
        /\ f.wake = c.wake /\ f.acked = c.acked /\ f.attempt = c.attempt
    BY DEF Good, Records
  <2> HIDE DEF f
  <2>3. Good(f) /\ Kept(c, f)
    BY <1>2, <2>1, <2>2 DEF Good, RecordInv, On, Kept, InTurn
  <2>4. QED
    BY <1>2, <2>3 DEF f, Completed
<1>3. QED
  BY <1>1, <1>2

LEMMA ResetGood ==
  ASSUME NEW c, Good(c)
  PROVE  Good(ResetRecord(c)) /\ ResetRecord(c).wake = 0 /\ ~On(ResetRecord(c))
<1> DEFINE f == ResetRecord(c)
<1>1. f \in Records
  BY EmptyGood DEF ResetRecord, Good, Records
<1>2. /\ f.enabled = FALSE /\ f.state = "IDLE" /\ f.wake = 0 /\ f.error = ""
      /\ f.locked = FALSE /\ f.attempt = 0 /\ f.send_required = FALSE
  BY DEF ResetRecord, EmptyRecord
<1> HIDE DEF f
<1>2a. f.attempt = 0
  BY <1>2
<1>3. f.attempt < MaxAttempts /\ f.attempt <= MaxAttempts
  BY <1>2a, Delays
<1>4. Good(f) /\ f.wake = 0 /\ ~On(f)
  BY <1>1, <1>2, <1>3 DEF Good, RecordInv, On, InTurn
<1>5. QED
  BY <1>4 DEF f

LEMMA AgedGood ==
  ASSUME NEW c, Good(c), NEW f,
         f = [c EXCEPT !.wait = Sooner(c.wait), !.response = Sooner(c.response),
                       !.candidate = Sooner(c.candidate)]
  PROVE  Good(f) /\ Kept(c, f)
<1>1. \A t \in Times : Sooner(t) \in Times
  BY DEF Sooner, Times, Unset
<1>2. f \in Records
  BY <1>1 DEF Good, Records
<1>3. /\ f.enabled = c.enabled /\ f.state = c.state /\ f.error = c.error
      /\ f.send_required = c.send_required /\ f.locked = c.locked
      /\ f.wake = c.wake /\ f.acked = c.acked /\ f.attempt = c.attempt
  BY DEF Good, Records
<1>4. QED
  BY <1>2, <1>3 DEF Good, RecordInv, On, Kept, InTurn

-----------------------------------------------------------------------------
(* The inductive invariant *)

\* What a step may do to the wake: start one, when the last is done with.
WakeStep ==
  ctl'.wake > ctl.wake /\ ctl.state # "ARMED" => ctl.acked = ctl.wake /\ ~ctl.locked

LEMMA InitOK == Init => IInv
<1> SUFFICES ASSUME Init PROVE IInv
  OBVIOUS
<1>1. ctl \in Records /\ ctl.wake = 0
  BY EmptyGood DEF Init, Good
<1>2. wakes \in WakeIds /\ ctl.wake <= wakes
  BY <1>1, SumAssumption DEF Init, WakeIds
<1>3. turn \in [at : Turns, for : Nat] /\ chat \in Seq(Nat)
  BY DEF Init, NoTurn, Turns
<1>4. SumTypeOK
  BY <1>1, <1>2, <1>3 DEF Init, SumTypeOK, Phases
<1>5. QED
  BY <1>4, EmptyGood DEF Init, IInv, Good

\* A step that changes the record by a method other than a switch, a reset or
\* the start of a wake, and leaves the rest well typed.
Rest ==
  /\ phase' \in [Listeners -> Phases]
  /\ seen' \in [Listeners -> Nat]
  /\ chat' \in Seq(Nat)
  /\ turn' \in [at : Turns, for : Nat]
  /\ checked' \in Nat

LEMMA MethodStep ==
  ASSUME IInv, Good(ctl'), Kept(ctl, ctl'), Rest, wakes' = wakes,
         wanted' \in BOOLEAN, wanted /\ On(ctl') => wanted'
  PROVE  IInv' /\ WakeStep
<1>1. SumTypeOK'
  BY DEF IInv, SumTypeOK, Rest, Good, Kept, WakeIds
<1>2. RecordInv(ctl)' /\ (On(ctl) => wanted)'
  BY DEF IInv, Good, Kept
<1>3. WakeStep
  BY Numbers DEF IInv, Kept, WakeStep
<1>4. QED
  BY <1>1, <1>2, <1>3 DEF IInv

LEMMA GuardStep ==
  ASSUME IInv, NEW g \in Generations \cup {NoGen}, Guard(g), Rest, wakes' = wakes
  PROVE  IInv' /\ WakeStep
<1>1. Good(ctl)
  BY DEF IInv, SumTypeOK, Good
<1>2. Good(ctl') /\ Kept(ctl, ctl') /\ (ctl'.state = "PAUSED" => ~On(ctl'))
  BY <1>1, GuardedGood DEF Guard
<1>3. wanted' \in BOOLEAN /\ (wanted /\ On(ctl') => wanted')
  BY <1>2 DEF Guard, IInv, SumTypeOK
<1>4. QED
  BY <1>2, <1>3, MethodStep

LEMMA ListenStep ==
  ASSUME IInv, NEW l \in Listeners, Listen(l)
  PROVE  IInv' /\ WakeStep
<1> USE DEF Phases
<1>1. Good(ctl) /\ SumTypeOK /\ Generation[l] \in Generations \cup {NoGen}
  BY KnownGenerations DEF IInv, SumTypeOK, Good
<1>2. ASSUME NEW next \in Phases, Asks(l, next) PROVE IInv' /\ WakeStep
  <2>1. Rest /\ wakes' = wakes
    BY <1>1, <1>2 DEF Asks, Rest, SumTypeOK
  <2>2. QED
    BY <1>1, <1>2, <2>1, GuardStep DEF Asks
<1>3. CASE Poll(l)
  BY <1>2, <1>3 DEF Poll
<1>4. CASE Confirm(l)
  BY <1>2, <1>4 DEF Confirm
<1>5. ASSUME NEW c, Good(c), Answered(l, c) PROVE Rest /\ ctl' = c /\ wanted' = wanted
  BY <1>1, <1>5 DEF Answered, Rest, SumTypeOK, Good, Records
<1>6. CASE phase[l] = "tick" /\ Answered(l, Ticked(ctl)) /\ wakes' = wakes
  BY <1>1, <1>5, <1>6, TickedGood, MethodStep DEF SumTypeOK
<1>7. CASE TickUnwell(l)
  <2>1. Kept(ctl, ctl) /\ wakes' = wakes
    BY <1>7 DEF Kept, TickUnwell
  <2>2. QED
    BY <1>1, <1>5, <1>7, <2>1, MethodStep DEF TickUnwell, SumTypeOK
<1>8. CASE /\ phase[l] = "tick" /\ WakeDue(ctl) /\ wakes < MaxWakes /\ wakes' = wakes + 1
           /\ Answered(l, WakeStarted(ctl, wakes + 1))
  <2>1. ctl.enabled /\ ctl.state \in {"ARMED", "STATIC_DEBOUNCE"} /\ ~ctl.locked
    BY <1>8 DEF WakeDue
  <2>2. wakes + 1 \in Nat \ {0} /\ wakes + 1 \in WakeIds
    BY <1>1, <1>8, SumAssumption DEF SumTypeOK, WakeIds
  <2>3. /\ Good(WakeStarted(ctl, wakes + 1)) /\ WakeStarted(ctl, wakes + 1).wake = wakes + 1
        /\ On(WakeStarted(ctl, wakes + 1)) => On(ctl)
    BY <1>1, <2>1, <2>2, WakeStartedGood
  <2>4. Rest /\ ctl' = WakeStarted(ctl, wakes + 1) /\ wanted' = wanted
    BY <1>5, <1>8, <2>3
  <2>5. IInv'
    BY <1>8, <2>2, <2>3, <2>4 DEF IInv, SumTypeOK, Rest, Good
  <2>6. WakeStep
    BY <1>1, <2>1 DEF WakeStep, Good, RecordInv, InTurn
  <2>7. QED
    BY <2>5, <2>6
<1>9. CASE Tick(l)
  BY <1>6, <1>8, <1>9 DEF Tick
<1>10. CASE Post(l)
  <2>1. Good(ctl') /\ Kept(ctl, ctl') /\ wanted' = wanted /\ wakes' = wakes
    BY <1>1, <1>10 DEF Post, Kept
  <2>2. Rest
    BY <1>1, <1>10 DEF Post, Rest, SumTypeOK
  <2>3. QED
    BY <1>1, <2>1, <2>2, MethodStep DEF SumTypeOK
<1>11. CASE Mark(l)
  <2>1. Good(ctl') /\ Kept(ctl, ctl') /\ wanted' = wanted /\ wakes' = wakes
    BY <1>1, <1>11, SentGood DEF Mark
  <2>2. Rest
    BY <1>1, <1>11 DEF Mark, Rest, SumTypeOK
  <2>3. QED
    BY <1>1, <2>1, <2>2, MethodStep DEF SumTypeOK
<1>12. CASE GiveUp(l)
  <2>1. Good(ctl') /\ Kept(ctl, ctl') /\ wanted' = wanted /\ wakes' = wakes
    BY <1>1, <1>12 DEF GiveUp, Kept
  <2>2. Rest
    BY <1>1, <1>12 DEF GiveUp, Rest, SumTypeOK
  <2>3. QED
    BY <1>1, <2>1, <2>2, MethodStep DEF SumTypeOK
<1>13. QED
  BY <1>3, <1>4, <1>7, <1>9, <1>10, <1>11, <1>12 DEF Listen

LEMMA ChatStep ==
  ASSUME IInv, Chat
  PROVE  IInv' /\ WakeStep
<1> USE DEF Turns, NoTurn, Working
<1>1. Good(ctl) /\ SumTypeOK
  BY DEF IInv, SumTypeOK, Good
<1>2. ASSUME NEW from \in Turns, NEW next \in Turns, ChatAsks(from, next)
      PROVE  IInv' /\ WakeStep
  <2>1. Rest /\ wakes' = wakes
    BY <1>1, <1>2 DEF ChatAsks, Rest, SumTypeOK
  <2>2. QED
    BY <1>2, <2>1, GuardStep, KnownGenerations DEF ChatAsks
<1>3. ASSUME Good(ctl'), Kept(ctl, ctl'), Rest, wakes' = wakes, wanted' = wanted
      PROVE  IInv' /\ WakeStep
  BY <1>1, <1>3, MethodStep DEF SumTypeOK
<1>4. Kept(ctl, ctl)
  BY DEF Kept
<1>5. CASE Reads
  <2>1. Head(chat) \in Nat /\ Tail(chat) \in Seq(Nat)
    BY <1>1, <1>5 DEF Reads, SumTypeOK
  <2>2. QED
    BY <1>1, <1>3, <1>4, <1>5, <2>1 DEF Reads, Rest, SumTypeOK
<1>6. CASE \E from, next \in Turns : ChatDirect(from, next)
  BY <1>1, <1>3, <1>4, <1>6 DEF ChatDirect, Rest, SumTypeOK
<1>7. CASE AckCurrent
  BY <1>1, <1>3, <1>7, AckedCurrentGood DEF AckCurrent, Rest, SumTypeOK
<1>8. CASE CompleteTurn
  BY <1>1, <1>3, <1>8, CompletedGood DEF CompleteTurn, Rest, SumTypeOK
<1>9. CASE TurnBreaksOff
  BY <1>1, <1>3, <1>4, <1>9 DEF TurnBreaksOff, Rest, SumTypeOK
<1>10. CASE ChatAsks("ask", "ack") \/ ChatAsks("work", "complete")
  BY <1>2, <1>10
<1>11. CASE ChatDirect("ask", "ack") \/ ChatDirect("work", "complete")
  BY <1>6, <1>11
<1>12. QED
  BY <1>5, <1>7, <1>8, <1>9, <1>10, <1>11 DEF Chat

LEMMA SwitchStep ==
  ASSUME IInv, NEW on \in BOOLEAN, NEW g \in Generations \cup {NoGen}, Switch(on, g)
  PROVE  IInv' /\ WakeStep
<1>1. Good(ctl) /\ SumTypeOK
  BY DEF IInv, SumTypeOK, Good
<1>2. Good(ctl') /\ ctl'.wake = ctl.wake /\ (On(ctl') => wanted') /\ wanted' \in BOOLEAN
  BY <1>1, SwitchedGood DEF Switch
<1>3. WakeStep
  BY <1>1, <1>2, Numbers DEF WakeStep
<1>4. SumTypeOK'
  BY <1>1, <1>2 DEF Switch, SumTypeOK, Good, WakeIds
<1>5. QED
  BY <1>2, <1>3, <1>4 DEF IInv, Good

LEMMA ResetStep ==
  ASSUME IInv, Reset
  PROVE  IInv' /\ WakeStep
<1>1. Good(ctl) /\ SumTypeOK
  BY DEF IInv, SumTypeOK, Good
<1>2. Good(ctl') /\ ctl'.wake = 0 /\ ~On(ctl')
  BY <1>1, ResetGood DEF Reset
<1>3. 0 <= wakes /\ WakeStep
  BY <1>1, <1>2, Numbers DEF WakeStep
<1>4. SumTypeOK'
  BY <1>1, <1>2, <1>3 DEF Reset, SumTypeOK, Good, WakeIds
<1>5. QED
  BY <1>2, <1>3, <1>4 DEF Reset, IInv, Good

LEMMA NextOK == IInv /\ [Next]_vars => IInv' /\ WakeStep
<1> SUFFICES ASSUME IInv, [Next]_vars PROVE IInv' /\ WakeStep
  OBVIOUS
<1>1. Good(ctl) /\ SumTypeOK
  BY DEF IInv, SumTypeOK, Good
<1>2. ASSUME Good(ctl'), Kept(ctl, ctl'), wakes' = wakes, phase' = phase, seen' = seen,
             chat' = chat, turn' = turn, checked' \in Nat, wanted' = wanted
      PROVE  IInv' /\ WakeStep
  <2>1. Rest
    BY <1>1, <1>2 DEF Rest, SumTypeOK
  <2>2. QED
    BY <1>1, <1>2, <2>1, MethodStep DEF SumTypeOK
<1>3. Kept(ctl, ctl)
  BY DEF Kept
<1>4. CASE \E l \in Listeners : Listen(l)
  BY <1>4, ListenStep
<1>5. CASE \E active \in BOOLEAN : HostSignal(active)
  BY <1>1, <1>2, <1>5, SignalledGood DEF HostSignal, SumTypeOK
<1>6. CASE Chat
  BY <1>6, ChatStep
<1>7. CASE ExactChecks
  BY <1>1, <1>2, <1>3, <1>7 DEF ExactChecks, Good, Records
<1>8. CASE ExactActs
  BY <1>1, <1>2, <1>8, AckedCurrentGood DEF ExactActs
<1>9. CASE \E on \in BOOLEAN, g \in PageGenerations \cup {NoGen} : Switch(on, g)
  <2>1. PageGenerations \subseteq Generations \cup {NoGen}
    BY KnownGenerations DEF PageGenerations
  <2>2. QED
    BY <1>9, <2>1, SwitchStep
<1>10. CASE Reset
  BY <1>10, ResetStep
<1>11. CASE TimePasses
  <2>1. Good(ctl') /\ Kept(ctl, ctl')
    BY <1>1, <1>11, AgedGood DEF TimePasses, Good, Records
  <2>2. QED
    BY <1>1, <1>2, <1>11, <2>1 DEF TimePasses, SumTypeOK
<1>12. CASE UNCHANGED vars
  BY <1>1, <1>2, <1>3, <1>12 DEF vars, SumTypeOK
<1>13. QED
  BY <1>4, <1>5, <1>6, <1>7, <1>8, <1>9, <1>10, <1>11, <1>12 DEF Next

-----------------------------------------------------------------------------
(* The theorems *)

\* Every reachable state satisfies the inductive invariant.
THEOREM SumInvariance == Spec => []IInv
<1>1. IInv /\ [Next]_vars => IInv'
  BY NextOK
<1>2. QED
  BY <1>1, InitOK, PTL DEF Spec

\* Every state is well typed, for any number of listeners.
THEOREM SumTypeCorrect == Spec => []SumTypeOK
<1>1. IInv => SumTypeOK
  BY DEF IInv
<1>2. QED
  BY <1>1, SumInvariance, PTL

\* After a stop, a reset or a pause nothing but the operator's switch turns the
\* controller on.
THEOREM EnabledByOperatorThm == Spec => []EnabledByOperator
<1>1. IInv => EnabledByOperator
  BY DEF IInv, On, EnabledByOperator
<1>2. QED
  BY <1>1, SumInvariance, PTL

\* A lock is only held in a turn that complete_current_turn accepts.
THEOREM LockCanBeReleasedThm == Spec => []LockCanBeReleased
<1>1. ASSUME IInv, ctl.locked PROVE Completed(ctl) # ctl
  <2>1. ctl.wake # 0 /\ ctl.acked = ctl.wake /\ ctl.state \in InTurn /\ ctl \in Records
    BY <1>1 DEF IInv, RecordInv, SumTypeOK
  <2>2. Completed(ctl).locked = FALSE
    BY <1>1, <2>1 DEF Completed, Records
  <2>3. QED
    BY <1>1, <2>2
<1>2. IInv => LockCanBeReleased
  BY <1>1 DEF LockCanBeReleased
<1>3. QED
  BY <1>2, SumInvariance, PTL

\* However many listeners report the same message, attempts stay in their limit.
THEOREM AttemptsWithinLimitThm == Spec => []AttemptsWithinLimit
<1>1. IInv => AttemptsWithinLimit
  BY DEF IInv, RecordInv, AttemptsWithinLimit
<1>2. QED
  BY <1>1, SumInvariance, PTL

\* A wake follows another only when that was acknowledged and its turn ended, or
\* when the operator armed the controller.
THEOREM OneWakeAtATimeThm == Spec => OneWakeAtATime
<1>1. IInv /\ [Next]_vars => [ctl'.wake > ctl.wake /\ ctl.state # "ARMED"
                              => ctl.acked = ctl.wake /\ ~ctl.locked]_vars
  BY NextOK DEF WakeStep
<1>2. QED
  BY <1>1, SumInvariance, PTL DEF Spec, OneWakeAtATime
=============================================================================
