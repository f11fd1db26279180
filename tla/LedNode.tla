------------------------------ MODULE LedNode ------------------------------
(***************************************************************************)
(* led_node (src/led/src/led_node.cpp).  For every LED the node keeps a    *)
(* mirror of the effect its driver runs, advances it by a tick timer and   *)
(* publishes it, on a command and from a second timer, on a transient      *)
(* local topic whose depth is the number of LEDs.  One thread runs the     *)
(* callbacks.                                                              *)
(*                                                                         *)
(* The constructor allocates a device per LED and gives all of them back   *)
(* when it fails, as the destructor does.                                  *)
(*                                                                         *)
(* A colour is "black" or "lit": the code only asks whether r, g and b are *)
(* all 0.  Times are milliseconds; uint8_t and uint16_t wrap.              *)
(***************************************************************************)
EXTENDS Integers, Sequences

CONSTANTS
    N,               \* number of LEDs; an LED is its index in leds_
    TickPeriod,      \* parameter tick_period_ms, an int64
    Commands,        \* the commands that may arrive on led/command
    PublishOnCommand, PublishOnStartup

uint8(x)  == x % 256
uint16(x) == x % 65536

Leds   == 1..N
Modes  == {"STATIC", "BLINK", "BREATH"}
Byte   == 0..255
Word   == 0..65535

LedCommand == [led_id : Nat, color : {"black", "lit"}, brightness : Byte,
               mode : Modes \cup {"invalid"}, period_ms : Word, on_ms : Word, count : Byte]

LedRecord == [color : {"black", "lit"}, brightness : Byte, mode : Modes, period_ms : Word,
              on_ms : Word, count : Byte, is_on : BOOLEAN, blink_elapsed_ms : Word,
              blink_done : Byte, blink_on : BOOLEAN, breath_elapsed_ms : Word]

Sample == [led : Leds, brightness : Byte, mode : Modes, is_on : BOOLEAN]

ASSUME LedAssumption == /\ N \in Nat \ {0}
                        /\ TickPeriod \in Nat \ {0}
                        /\ Commands \subseteq LedCommand
                        /\ PublishOnCommand \in BOOLEAN /\ PublishOnStartup \in BOOLEAN

VARIABLES
    phase,      \* "construct", "running", "failed" or "destroyed"
    devs,       \* number of LEDs in leds_, each with its device
    freed,      \* devices given back with led_free
    leds,       \* the entries of leds_
    retained,   \* what the state publisher keeps for a late subscriber
    since       \* history: the time that led_tick has told the driver of, tick by
                \* tick, since each LED's last blink, if counted, was commanded

construction == <<phase, devs, freed>>
vars == <<phase, devs, freed, leds, retained, since>>

-----------------------------------------------------------------------------

NewLed == [color |-> "black", brightness |-> 0, mode |-> "STATIC", period_ms |-> 0,
           on_ms |-> 0, count |-> 0, is_on |-> FALSE, blink_elapsed_ms |-> 0,
           blink_done |-> 0, blink_on |-> FALSE, breath_elapsed_ms |-> 0]

build_state_message(id, led) ==
    [led |-> id, brightness |-> led.brightness, mode |-> led.mode, is_on |-> led.is_on]

\* Mutant: the depth of the topic is one too small.
kept_one_less(samples) ==
    IF Len(samples) < N THEN samples
    ELSE SubSeq(samples, Len(samples) - N + 2, Len(samples))

\* KeepLast(N): the history holds the last N samples.
kept(samples) ==
    IF Len(samples) <= N THEN samples
    ELSE SubSeq(samples, Len(samples) - N + 1, Len(samples))

with_all_states(samples, all) ==
    kept(samples \o [id \in Leds |-> build_state_message(id, all[id])])

rejected(cmd) ==
    \/ cmd.mode = "invalid"
    \/ cmd.mode \in {"BLINK", "BREATH"} /\ cmd.period_ms = 0

\* The effect starts afresh; brightness and is_on are set by the mode.
restarted(led, cmd) ==
    [led EXCEPT !.color = cmd.color, !.mode = cmd.mode, !.period_ms = cmd.period_ms,
                !.on_ms = cmd.on_ms, !.count = cmd.count, !.blink_elapsed_ms = 0,
                !.blink_done = 0, !.blink_on = FALSE, !.breath_elapsed_ms = 0]

shown(led, brightness) == [led EXCEPT !.brightness = brightness, !.is_on = brightness > 0]

apply_command(led, cmd) ==
    LET fresh == restarted(led, cmd)
        on_ms == IF cmd.on_ms < cmd.period_ms THEN cmd.on_ms ELSE cmd.period_ms
    IN  CASE cmd.mode = "STATIC" -> shown(fresh, IF cmd.color = "black" THEN 0
                                                 ELSE cmd.brightness)
          [] cmd.mode = "BLINK"  -> shown([fresh EXCEPT !.on_ms = on_ms,
                                                        !.blink_on = on_ms > 0],
                                          IF on_ms > 0 THEN 255 ELSE 0)
          [] cmd.mode = "BREATH" -> shown(fresh, 0)

-----------------------------------------------------------------------------
(* mirror_tick_state for each mode; on_command lets no effect start with a *)
(* period of 0, so the branches for that period are never reached.         *)

\* Mutant: a finished blink leaves blink_on as it was.
blink_tick_dirty(led, dt) ==
    LET total  == led.blink_elapsed_ms + dt
        cycles == total \div led.period_ms
    IN  IF led.count # 0 /\ led.blink_done + cycles >= led.count
        THEN shown([led EXCEPT !.mode = "STATIC"], 0)
        ELSE [led EXCEPT !.blink_elapsed_ms = total % led.period_ms, !.blink_done = @ + cycles]

\* Mutant: the rest of a cycle is dropped when it ends.
blink_tick_lossy(led, dt) ==
    LET total  == led.blink_elapsed_ms + dt
        cycles == total \div led.period_ms
    IN  IF led.count # 0 /\ led.blink_done + cycles >= led.count
        THEN shown([led EXCEPT !.mode = "STATIC", !.blink_on = FALSE], 0)
        ELSE [led EXCEPT !.blink_elapsed_ms = IF cycles > 0 THEN 0 ELSE total,
                         !.blink_done = @ + cycles]

blink_tick(led, dt) ==
    LET total   == led.blink_elapsed_ms + dt
        cycles  == total \div led.period_ms
        elapsed == uint16(total % led.period_ms)
        on      == elapsed < led.on_ms
        counted == led.count # 0 /\ cycles > 0
    IN  IF counted /\ led.blink_done + cycles >= led.count
        THEN shown([led EXCEPT !.mode = "STATIC", !.blink_elapsed_ms = elapsed,
                               !.blink_done = led.count, !.blink_on = FALSE], 0)
        ELSE shown([led EXCEPT !.blink_elapsed_ms = elapsed, !.blink_on = on,
                               !.blink_done = IF counted THEN uint8(@ + cycles) ELSE @],
                   IF on THEN 255 ELSE 0)

breath_tick(led, dt) ==
    LET t    == (led.breath_elapsed_ms + dt) % led.period_ms
        half == led.period_ms \div 2
        rise == (255 * t) \div half
        fall == (255 * (led.period_ms - t)) \div half
    IN  shown([led EXCEPT !.breath_elapsed_ms = uint16(t)],
              IF half = 0 THEN 255 ELSE IF t < half THEN uint8(rise) ELSE uint8(fall))

\* A blink that ends by itself.
counted_blink(led) == led.mode = "BLINK" /\ led.count # 0

mirror_tick_state(led, dt) ==
    CASE led.mode = "BLINK"  -> blink_tick(led, dt)
      [] led.mode = "BREATH" -> breath_tick(led, dt)
      [] led.mode = "STATIC" ->
            [led EXCEPT !.is_on = led.brightness > 0 /\ led.color = "lit"]

-----------------------------------------------------------------------------

Init ==
    /\ phase = "construct"
    /\ devs = 0
    /\ freed = 0
    /\ leds = [id \in Leds |-> NewLed]
    /\ retained = <<>>
    /\ since = [id \in Leds |-> 0]

\* One turn of the constructor's loop: the LED's device is allocated.
register_led ==
    /\ phase = "construct" /\ devs < N
    /\ devs' = devs + 1
    /\ UNCHANGED <<phase, freed, leds, retained, since>>

cleanup_resources ==
    /\ freed' = freed + devs
    /\ devs' = 0

\* validate_config refuses a parameter or led_alloc_* finds no device; the
\* handler around the constructor cleans up before it throws again.
Throw ==
    /\ phase = "construct"
    /\ phase' = "failed"
    /\ cleanup_resources
    /\ UNCHANGED <<leds, retained, since>>

\* Every device is allocated: the states are perhaps published, and the timers
\* start.
Constructed ==
    /\ phase = "construct" /\ devs = N
    /\ phase' = "running"
    /\ retained' = IF PublishOnStartup THEN with_all_states(retained, leds) ELSE retained
    /\ UNCHANGED <<devs, freed, leds, since>>

Destroy ==
    /\ phase = "running"
    /\ phase' = "destroyed"
    /\ cleanup_resources
    /\ UNCHANGED <<leds, retained, since>>

on_command(cmd) ==
    LET id == cmd.led_id
    IN  /\ phase = "running" /\ id \in Leds
        /\ UNCHANGED construction
        /\ IF rejected(cmd)
           THEN UNCHANGED <<leds, since>>
           ELSE /\ leds' = [leds EXCEPT ![id] = apply_command(@, cmd)]
                /\ since' = [since EXCEPT ![id] = 0]
        /\ retained' = IF PublishOnCommand
                       THEN kept(Append(retained, build_state_message(id, leds'[id])))
                       ELSE retained

\* led_tick and the mirror are told the same time, the period cast to 16 bits.
on_tick_timer ==
    LET dt == uint16(TickPeriod)
    IN  /\ phase = "running"
        /\ leds' = [id \in Leds |-> mirror_tick_state(leds[id], dt)]
        /\ since' = [id \in Leds |-> IF counted_blink(leds[id]) THEN since[id] + dt
                                     ELSE since[id]]
        /\ UNCHANGED <<phase, devs, freed, retained>>

publish_all_states ==
    /\ phase = "running"
    /\ retained' = with_all_states(retained, leds)
    /\ UNCHANGED <<phase, devs, freed, leds, since>>

Finished == phase \in {"failed", "destroyed"} /\ UNCHANGED vars

Construct == register_led \/ Throw \/ Constructed

Serve == (\E cmd \in Commands : on_command(cmd)) \/ on_tick_timer \/ publish_all_states

Next == Construct \/ Serve \/ Destroy \/ Finished

Spec == Init /\ [][Next]_vars

\* Both timers keep firing; nobody has to send a command.
FairSpec == Spec /\ WF_vars(on_tick_timer) /\ WF_vars(publish_all_states)

-----------------------------------------------------------------------------
(* Properties.                                                             *)

TypeOK ==
    /\ phase \in {"construct", "running", "failed", "destroyed"}
    /\ devs \in 0..N /\ freed \in 0..N
    /\ leds \in [Leds -> LedRecord]
    /\ retained \in Seq(Sample) /\ Len(retained) <= N
    /\ since \in [Leds -> Nat]

\* What a subscriber sees of one LED is consistent through every sequence of
\* effects: it is on exactly when its brightness is not 0, and the blink flag
\* agrees while it blinks and is off in every other mode.
MirrorConsistent ==
    \A id \in Leds :
        /\ leds[id].is_on = (leds[id].brightness > 0)
        /\ leds[id].mode = "BLINK" => leds[id].blink_on = leds[id].is_on
        /\ leds[id].mode # "BLINK" => ~leds[id].blink_on

\* The cycles done and the rest make up the time that the driver was told of
\* since the command, and the blink is over once that time is count periods,
\* neither later nor before.
KeepsTime(led, time) ==
    /\ counted_blink(led) => /\ time = led.blink_done * led.period_ms + led.blink_elapsed_ms
                             /\ time < led.count * led.period_ms
    /\ led.mode = "STATIC" /\ time # 0 => time >= led.count * led.period_ms

\* A counted blink loses none of the time that the driver runs it for, however
\* ticks and periods divide.  (That time is the real one while tick_period_ms
\* fits 16 bits; the code casts it without a look.)
BlinkKeepsTime == \A id \in Leds : KeepsTime(leds[id], since[id])

\* While the callbacks run every LED has its device; wherever the constructor
\* gave up, and after the destructor, none is left.
DevicesLive ==
    /\ phase = "construct" => freed = 0
    /\ phase = "running" => devs = N /\ freed = 0
    /\ phase \in {"failed", "destroyed"} => devs = 0

\* However often one LED is commanded, the state of every LED comes back into
\* what a late subscriber is given, as long as the node runs.
EveryLedIsRetained ==
    \A id \in Leds : phase = "running" ~> \/ phase = "destroyed"
                                          \/ \E k \in 1..Len(retained) : retained[k].led = id

\* What the README says of the state topic: once all states were published, a
\* new subscriber gets the latest state of every LED.
SubscriberSeesEveryLed ==
    phase = "running" =>
        \A id \in Leds : \E k \in 1..Len(retained) : retained[k].led = id

\* LedState.msg calls brightness the current brightness and is_on whether the
\* LED is on: in the middle of a breath, at its brightest, the LED is on.
BreathPeakIsOn ==
    \A id \in Leds :
        (/\ leds[id].mode = "BREATH" /\ leds[id].period_ms > 1
         /\ leds[id].breath_elapsed_ms = leds[id].period_ms \div 2)
        => leds[id].is_on

=============================================================================
