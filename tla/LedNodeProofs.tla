--------------------------- MODULE LedNodeProofs ---------------------------
(***************************************************************************)
(* Proofs about LedNode: typing and widths, the consistency of the mirror, *)
(* the life of the devices, and the time that a counted blink takes.       *)
(***************************************************************************)
EXTENDS LedNode, SequenceTheorems, TLAPS

\* A record of leds_ that the callbacks can leave behind.  A dark static LED has
\* brightness 0, which the tick relies on when it looks at the colour; an effect
\* has a period, by which the ticks divide.
Sound(led) ==
    /\ led \in LedRecord
    /\ led.is_on = (led.brightness > 0)
    /\ led.mode = "BLINK" => led.blink_on = led.is_on
    /\ led.mode # "BLINK" => led.blink_on = FALSE
    /\ led.mode = "STATIC" /\ led.color = "black" => led.brightness = 0
    /\ led.mode # "STATIC" => led.period_ms > 0

LedsInv == leds \in [Leds -> LedRecord] /\ \A id \in Leds : Sound(leds[id])

IInv == TypeOK /\ LedsInv /\ DevicesLive

-----------------------------------------------------------------------------
(* The effects.                                                            *)

\* A number is its quotient times the divisor and a rest.
LEMMA Division ==
  ASSUME NEW a \in Nat, NEW p \in Nat \ {0}
  PROVE  /\ a = p * (a \div p) + (a % p)
         /\ a % p \in 0..(p - 1) /\ a \div p \in Nat
  OBVIOUS

\* uint8_t and uint16_t hold what is stored in them.
LEMMA Widths ==
  /\ \A x \in Nat : uint8(x) \in Byte /\ uint16(x) \in Word
  /\ \A x \in Word : (x # 0 <=> x > 0) /\ (x > 0 <=> x \in Nat \ {0})
  /\ Byte \subseteq Nat /\ Word \subseteq Nat
<1>1. ASSUME NEW x \in Nat PROVE uint8(x) \in Byte
  BY SMTT(30) DEF uint8, Byte
<1>2. ASSUME NEW x \in Nat PROVE uint16(x) \in Word
  <2> DEFINE m == 65536
             n == 65535
  <2>1. uint16(x) = x % m /\ Word = 0..n
    BY DEF uint16, Word
  <2>2. m \in Nat \ {0} /\ m - 1 = n
    OBVIOUS
  <2> HIDE DEF m, n
  <2>3. x % m \in 0..(m - 1)
    BY <2>2, Division
  <2>4. QED
    BY <2>1, <2>2, <2>3, Zenon
<1>3. /\ \A x \in Word : (x # 0 <=> x > 0) /\ (x > 0 <=> x \in Nat \ {0})
      /\ Byte \subseteq Nat /\ Word \subseteq Nat
  <2>1. Byte \subseteq Nat /\ Word \subseteq Nat
    BY DEF Byte, Word
  <2>2. \A x \in Nat : (x # 0 <=> x > 0) /\ (x > 0 <=> x \in Nat \ {0})
    OBVIOUS
  <2>3. QED
    BY <2>1, <2>2
<1>4. QED
  BY <1>1, <1>2, <1>3

\* Showing a brightness sets the two fields a subscriber sees and no other.
LEMMA ShownFields ==
  ASSUME NEW led \in LedRecord, NEW b \in Byte
  PROVE  /\ shown(led, b) \in LedRecord
         /\ shown(led, b).brightness = b
         /\ shown(led, b).is_on = (b > 0)
         /\ \A f \in {"color", "mode", "period_ms", "on_ms", "count", "blink_elapsed_ms",
                      "blink_done", "blink_on", "breath_elapsed_ms"} :
               shown(led, b)[f] = led[f]
<1> DEFINE on == b > 0
<1>1. on \in BOOLEAN
  BY DEF Byte
<1>2. shown(led, b) = [led EXCEPT !.brightness = b, !.is_on = on]
  BY DEF shown
<1>3. on = (b > 0)
  OBVIOUS
<1> HIDE DEF on
<1>4. QED
  BY <1>1, <1>2, <1>3 DEF LedRecord

\* A command that is not rejected starts the effect it names from its beginning.
LEMMA RestartedFields ==
  ASSUME NEW led \in LedRecord, NEW cmd \in LedCommand, ~rejected(cmd)
  PROVE  /\ restarted(led, cmd) \in LedRecord
         /\ restarted(led, cmd).mode = cmd.mode
         /\ restarted(led, cmd).period_ms = cmd.period_ms
         /\ restarted(led, cmd).color = cmd.color
         /\ restarted(led, cmd).count = cmd.count
         /\ restarted(led, cmd).blink_on = FALSE
         /\ restarted(led, cmd).blink_done = 0
         /\ restarted(led, cmd).blink_elapsed_ms = 0
<1>1. /\ cmd.mode \in Modes /\ cmd.period_ms \in Word /\ cmd.on_ms \in Word
      /\ cmd.brightness \in Byte /\ cmd.color \in {"black", "lit"} /\ cmd.count \in Byte
  BY DEF LedCommand, rejected
<1>2. 0 \in Word /\ 0 \in Byte
  BY DEF Word, Byte
<1>3. restarted(led, cmd) \in LedRecord
  BY <1>1, <1>2 DEF restarted, LedRecord
<1>4. QED
  BY <1>3 DEF restarted, LedRecord

\* A new effect is sound, for every command that is not rejected.
LEMMA ApplySound ==
  ASSUME NEW led \in LedRecord, NEW cmd \in LedCommand, ~rejected(cmd)
  PROVE  Sound(apply_command(led, cmd))
<1> DEFINE fresh == restarted(led, cmd)
           on_ms == IF cmd.on_ms < cmd.period_ms THEN cmd.on_ms ELSE cmd.period_ms
           lit   == on_ms > 0
           blink == [fresh EXCEPT !.on_ms = on_ms, !.blink_on = lit]
<1>1. /\ cmd.mode \in Modes /\ cmd.period_ms \in Word /\ cmd.on_ms \in Word
      /\ cmd.brightness \in Byte /\ cmd.color \in {"black", "lit"} /\ cmd.count \in Byte
  BY DEF LedCommand, rejected
<1>9. cmd.mode # "STATIC" => cmd.period_ms > 0
  BY <1>1, Widths, Zenon DEF rejected, Modes
<1>2. /\ fresh \in LedRecord /\ fresh.mode = cmd.mode /\ fresh.period_ms = cmd.period_ms
      /\ fresh.color = cmd.color /\ fresh.blink_on = FALSE
  BY RestartedFields
<1>3. on_ms \in Word /\ lit \in BOOLEAN
  <2> HIDE DEF fresh
  <2>1. on_ms \in Word
    BY <1>1
  <2> HIDE DEF on_ms
  <2>2. QED
    BY <2>1, Widths
<1>4. 0 \in Byte /\ 255 \in Byte
  BY DEF Byte
<1>5. CASE cmd.mode = "STATIC"
  <2> DEFINE b == IF cmd.color = "black" THEN 0 ELSE cmd.brightness
  <2>1. b \in Byte /\ (cmd.color = "black" => b = 0)
    BY <1>1, <1>4
  <2>2. apply_command(led, cmd) = shown(fresh, b)
    BY <1>5 DEF apply_command
  <2> HIDE DEF b, fresh
  <2>3. QED
    BY <1>2, <1>5, <2>1, <2>2, ShownFields DEF Sound
<1>6. CASE cmd.mode = "BREATH"
  <2>1. apply_command(led, cmd) = shown(fresh, 0)
    BY <1>6 DEF apply_command
  <2> HIDE DEF fresh
  <2>2. QED
    BY <1>2, <1>4, <1>6, <1>9, <2>1, ShownFields DEF Sound
<1>7. CASE cmd.mode = "BLINK"
  <2> DEFINE b == IF lit THEN 255 ELSE 0
  <2>1. b \in Byte /\ (b > 0) = lit
    BY <1>3, <1>4
  <2>2. apply_command(led, cmd) = shown(blink, b)
    BY <1>7 DEF apply_command
  <2> HIDE DEF fresh, on_ms, lit, b
  <2>3. /\ blink \in LedRecord /\ blink.mode = "BLINK" /\ blink.blink_on = lit
        /\ blink.period_ms = cmd.period_ms
    BY <1>2, <1>3, <1>7 DEF LedRecord
  <2> HIDE DEF blink
  <2>4. QED
    BY <1>7, <1>9, <2>1, <2>2, <2>3, ShownFields DEF Sound
<1>8. QED
  BY <1>1, <1>5, <1>6, <1>7 DEF Modes

\* A tick of a blink, finished or not, leaves the flags in step; one that is
\* not counted goes on.
LEMMA BlinkSound ==
  ASSUME NEW led, Sound(led), led.mode = "BLINK", NEW dt \in Nat
  PROVE  /\ Sound(blink_tick(led, dt))
         /\ led.count = 0 => blink_tick(led, dt).mode = "BLINK" /\ blink_tick(led, dt).count = 0
<1> DEFINE total   == led.blink_elapsed_ms + dt
           cycles  == total \div led.period_ms
           elapsed == uint16(total % led.period_ms)
           on      == elapsed < led.on_ms
           counted == led.count # 0 /\ cycles > 0
           done    == uint8(led.blink_done + cycles)
           kept_done == IF counted THEN done ELSE led.blink_done
           over    == [led EXCEPT !.mode = "STATIC", !.blink_elapsed_ms = elapsed,
                                  !.blink_done = led.count, !.blink_on = FALSE]
           goes    == [led EXCEPT !.blink_elapsed_ms = elapsed, !.blink_on = on,
                                  !.blink_done = kept_done]
           b       == IF on THEN 255 ELSE 0
<1>1. /\ led \in LedRecord /\ led.period_ms \in Word /\ led.period_ms > 0
      /\ led.blink_elapsed_ms \in Word /\ led.blink_done \in Byte /\ led.on_ms \in Word
      /\ led.count \in Byte
  BY DEF Sound, LedRecord
<1>2. /\ led.period_ms \in Nat \ {0} /\ led.blink_elapsed_ms \in Nat
      /\ led.blink_done \in Nat /\ led.on_ms \in Nat
  BY <1>1, Widths, Zenon
<1>3. total \in Nat
  BY <1>2
<1>4. cycles \in Nat /\ total % led.period_ms \in Nat
  <2> HIDE DEF total
  <2>1. \A p \in Nat \ {0} : total \div p \in Nat /\ total % p \in Nat
    BY <1>3
  <2>2. QED
    BY <1>2, <2>1, Zenon
<1>5. elapsed \in Word /\ kept_done \in Byte
  <2> HIDE DEF total, cycles
  <2>1. led.blink_done + cycles \in Nat
    BY <1>2, <1>4
  <2>2. elapsed \in Word /\ done \in Byte
    BY <1>4, <2>1, Widths, Zenon
  <2> HIDE DEF elapsed, done, counted
  <2>3. QED
    BY <1>1, <2>2
<1>6. on \in BOOLEAN /\ b \in Byte /\ (b > 0) = on /\ 0 \in Byte
  <2> HIDE DEF elapsed
  <2>1. on \in BOOLEAN
    BY <1>1, <1>5, Widths
  <2> HIDE DEF on
  <2>2. QED
    BY <2>1 DEF Byte
<1>7. /\ over \in LedRecord /\ over.mode = "STATIC" /\ over.blink_on = FALSE
  <2> HIDE DEF elapsed
  <2>1. QED
    BY <1>1, <1>5 DEF LedRecord, Modes
<1>8. /\ goes \in LedRecord /\ goes.mode = "BLINK" /\ goes.blink_on = on
      /\ goes.period_ms = led.period_ms /\ goes.count = led.count
  <2>1. on \in BOOLEAN
    BY <1>6
  <2> HIDE DEF elapsed, on, kept_done, b
  <2>2. QED
    BY <1>1, <1>5, <2>1 DEF LedRecord, Modes
<1>9. /\ blink_tick(led, dt) \in {shown(over, 0), shown(goes, b)}
      /\ led.count = 0 => blink_tick(led, dt) = shown(goes, b)
  BY Zenon DEF blink_tick
<1> HIDE DEF over, goes, b, on
<1>10. Sound(shown(over, 0))
  BY <1>6, <1>7, ShownFields DEF Sound
<1>11. Sound(shown(goes, b)) /\ shown(goes, b).mode = "BLINK" /\ shown(goes, b).count = led.count
  <2>1. /\ shown(goes, b) \in LedRecord /\ shown(goes, b).brightness = b
        /\ shown(goes, b).is_on = (b > 0) /\ shown(goes, b).mode = "BLINK"
        /\ shown(goes, b).blink_on = on /\ shown(goes, b).period_ms = led.period_ms
        /\ shown(goes, b).count = led.count
    BY <1>6, <1>8, ShownFields
  <2>2. QED
    BY <1>1, <1>6, <2>1 DEF Sound
<1>12. QED
  BY <1>9, <1>10, <1>11

\* A tick of a breath shows some brightness of a byte.
LEMMA BreathSound ==
  ASSUME NEW led, Sound(led), led.mode = "BREATH", NEW dt \in Nat
  PROVE  Sound(breath_tick(led, dt)) /\ breath_tick(led, dt).mode = "BREATH"
<1> DEFINE t    == (led.breath_elapsed_ms + dt) % led.period_ms
           half == led.period_ms \div 2
           rise == (255 * t) \div half
           fall == (255 * (led.period_ms - t)) \div half
           b    == IF half = 0 THEN 255 ELSE IF t < half THEN uint8(rise) ELSE uint8(fall)
           next == [led EXCEPT !.breath_elapsed_ms = uint16(t)]
<1>1. /\ led \in LedRecord /\ led.period_ms \in Word /\ led.period_ms > 0
      /\ led.breath_elapsed_ms \in Word
  BY DEF Sound, LedRecord
<1>2. led.period_ms \in Nat \ {0} /\ led.breath_elapsed_ms \in Nat
  BY <1>1, Widths, Zenon
<1>3. t \in 0..led.period_ms
  <2>1. \A x \in Nat, p \in Nat \ {0} : x % p \in 0..p
    OBVIOUS
  <2>2. led.breath_elapsed_ms + dt \in Nat
    BY <1>2
  <2>3. QED
    BY <1>2, <2>1, <2>2, Zenon
<1>4. t \in Nat /\ 255 * t \in Nat /\ 255 * (led.period_ms - t) \in Nat /\ half \in Nat
  <2> HIDE DEF t
  <2>1. \A p \in Nat \ {0} : \A x \in 0..p : /\ x \in Nat /\ 255 * x \in Nat
                                           /\ 255 * (p - x) \in Nat /\ p \div 2 \in Nat
    OBVIOUS
  <2>2. QED
    BY <1>2, <1>3, <2>1, Zenon
<1>5. b \in Byte
  <2>1. \A x \in Nat, p \in Nat \ {0} : x \div p \in Nat
    OBVIOUS
  <2> HIDE DEF t, half
  <2>2. 255 \in Byte
    BY DEF Byte
  <2>3. CASE half = 0
    BY <2>2, <2>3
  <2>4. CASE half # 0
    <3>1. rise \in Nat /\ fall \in Nat
      BY <1>4, <2>1, <2>4
    <3>2. uint8(rise) \in Byte /\ uint8(fall) \in Byte
      BY <3>1, Widths, Zenon
    <3> HIDE DEF rise, fall
    <3>3. QED
      BY <2>4, <3>2
  <2>5. QED
    BY <2>3, <2>4
<1>6. /\ next \in LedRecord /\ next.mode = "BREATH" /\ next.blink_on = led.blink_on
      /\ next.period_ms = led.period_ms
  <2>1. uint16(t) \in Word
    BY <1>4, Widths, Zenon
  <2> HIDE DEF t
  <2>2. QED
    BY <1>1, <2>1 DEF LedRecord
<1>7. breath_tick(led, dt) = shown(next, b)
  BY Zenon DEF breath_tick
<1> HIDE DEF b, next
<1>8. led.blink_on = FALSE
  BY DEF Sound
<1>9. QED
  BY <1>1, <1>5, <1>6, <1>7, <1>8, ShownFields DEF Sound

\* A tick of a static colour leaves is_on as it was: a dark one has brightness 0.
LEMMA StaticSound ==
  ASSUME NEW led, Sound(led), led.mode = "STATIC", NEW dt \in Nat
  PROVE  Sound(mirror_tick_state(led, dt)) /\ mirror_tick_state(led, dt) = led
<1> DEFINE on == led.brightness > 0 /\ led.color = "lit"
<1>1. /\ led \in LedRecord /\ led.brightness \in Nat
      /\ led.color \in {"black", "lit"}
      /\ led.color = "black" => led.brightness = 0
      /\ led.is_on = (led.brightness > 0)
  BY Widths DEF Sound, LedRecord
<1>2. led.is_on = on /\ on \in BOOLEAN
  BY <1>1
<1>3. mirror_tick_state(led, dt) = [led EXCEPT !.is_on = on]
  BY Zenon DEF mirror_tick_state
<1> HIDE DEF on
<1>4. [led EXCEPT !.is_on = on] = led
  BY <1>1, <1>2 DEF LedRecord
<1>5. QED
  BY <1>3, <1>4

\* Every effect's tick keeps the mirror sound.
LEMMA TickSound ==
  ASSUME NEW led, Sound(led), NEW dt \in Nat
  PROVE  Sound(mirror_tick_state(led, dt))
<1>1. led.mode \in Modes
  BY DEF Sound, LedRecord
<1>2. CASE led.mode = "BLINK"
  BY <1>2, BlinkSound DEF mirror_tick_state
<1>3. CASE led.mode = "BREATH"
  BY <1>3, BreathSound DEF mirror_tick_state
<1>4. QED
  BY <1>1, <1>2, <1>3, StaticSound DEF Modes

-----------------------------------------------------------------------------
(* What the state topic keeps.                                             *)

\* The history holds samples, at most one for each LED.
LEMMA KeptType ==
  ASSUME NEW samples \in Seq(Sample)
  PROVE  kept(samples) \in Seq(Sample) /\ Len(kept(samples)) <= N
<1>1. N \in Nat /\ Len(samples) \in Nat
  BY LedAssumption
<1>2. CASE Len(samples) <= N
  BY <1>2 DEF kept
<1>3. CASE Len(samples) > N
  <2> DEFINE m == Len(samples) - N + 1
  <2>1. m \in 1..Len(samples) + 1 /\ Len(samples) - m + 1 = N
    BY <1>1, <1>3
  <2>2. \A i \in m..Len(samples) : samples[i] \in Sample
    BY <1>1, <2>1, ElementOfSeq
  <2>3. kept(samples) = SubSeq(samples, m, Len(samples))
    BY <1>1, <1>3 DEF kept
  <2> HIDE DEF m
  <2>4. SubSeq(samples, m, Len(samples)) \in Seq(Sample)
    BY <1>1, <2>1, <2>2, SubSeqProperties
  <2>5. Len(SubSeq(samples, m, Len(samples))) <= N
    BY <1>1, <2>1, <2>2, SubSeqProperties
  <2>6. QED
    BY <2>3, <2>4, <2>5
<1>4. QED
  BY <1>1, <1>2, <1>3

\* A sample of every LED is added to them.
LEMMA AllStatesType ==
  ASSUME NEW samples \in Seq(Sample), NEW all \in [Leds -> LedRecord]
  PROVE  /\ with_all_states(samples, all) \in Seq(Sample)
         /\ Len(with_all_states(samples, all)) <= N
<1> DEFINE states == [id \in Leds |-> build_state_message(id, all[id])]
<1>1. N \in Nat
  BY LedAssumption
<1>2. \A id \in Leds : build_state_message(id, all[id]) \in Sample
  BY DEF build_state_message, Sample, LedRecord
<1>3. states \in [1..N -> Sample]
  BY <1>2 DEF Leds
<1> HIDE DEF states
<1>4. states \in Seq(Sample)
  BY <1>1, <1>3
<1>5. samples \o states \in Seq(Sample)
  BY <1>4, ConcatProperties
<1>6. QED
  BY <1>5, KeptType DEF with_all_states, states

-----------------------------------------------------------------------------
(* The steps.                                                              *)

\* The constructor's loop counts devices that exist, up to N.
LEMMA ConstructInv ==
  ASSUME IInv, Construct
  PROVE  IInv'
<1> USE LedAssumption
<1>1. CASE register_led
  BY <1>1 DEF register_led, IInv, TypeOK, LedsInv, DevicesLive
<1>2. CASE Throw
  BY <1>2 DEF Throw, cleanup_resources, IInv, TypeOK, LedsInv, DevicesLive
<1>3. CASE Constructed
  <2>1. retained' \in Seq(Sample) /\ Len(retained') <= N
    BY <1>3, AllStatesType DEF Constructed, IInv, TypeOK
  <2>2. /\ phase' = "running" /\ devs = N /\ freed = 0
        /\ UNCHANGED <<devs, freed, leds, since>>
    BY <1>3 DEF Constructed, IInv, DevicesLive
  <2>3. TypeOK'
    BY <2>1, <2>2 DEF IInv, TypeOK
  <2>4. LedsInv'
    BY <2>2 DEF IInv, LedsInv
  <2>5. DevicesLive'
    BY <2>2 DEF DevicesLive
  <2>6. QED
    BY <2>3, <2>4, <2>5 DEF IInv
<1>4. QED
  BY <1>1, <1>2, <1>3 DEF Construct

\* The callbacks leave every LED sound, whatever the command and the tick.
LEMMA ServeInv ==
  ASSUME IInv, Serve
  PROVE  IInv'
<1> USE LedAssumption
<1>1. leds \in [Leds -> LedRecord] /\ retained \in Seq(Sample) /\ since \in [Leds -> Nat]
      /\ \A id \in Leds : Sound(leds[id])
  BY DEF IInv, TypeOK, LedsInv
<1>2. UNCHANGED construction
  BY DEF Serve, on_command, on_tick_timer, publish_all_states, construction
<1>3. SUFFICES /\ retained' \in Seq(Sample) /\ Len(retained') <= N
               /\ since' \in [Leds -> Nat] /\ leds' \in [Leds -> LedRecord]
               /\ \A id \in Leds : Sound(leds'[id])
  BY <1>2 DEF IInv, TypeOK, LedsInv, DevicesLive, construction
<1>4. Len(retained) <= N
  BY DEF IInv, TypeOK
<1>5. ASSUME NEW cmd \in Commands, on_command(cmd)
      PROVE  /\ retained' \in Seq(Sample) /\ Len(retained') <= N
             /\ since' \in [Leds -> Nat] /\ leds' \in [Leds -> LedRecord]
             /\ \A id \in Leds : Sound(leds'[id])
  <2> DEFINE id == cmd.led_id
             new == apply_command(leds[id], cmd)
  <2>1. id \in Leds /\ cmd \in LedCommand
    BY <1>5 DEF on_command
  <2>2. ~rejected(cmd) => Sound(new)
    BY <1>1, <2>1, ApplySound
  <2>3. \/ UNCHANGED <<leds, since>>
        \/ /\ ~rejected(cmd) /\ leds' = [leds EXCEPT ![id] = new]
           /\ since' = [since EXCEPT ![id] = 0]
    BY <1>5 DEF on_command
  <2> HIDE DEF new, id
  <2>4. ~rejected(cmd) => new \in LedRecord
    BY <2>2 DEF Sound
  <2>5. leds' \in [Leds -> LedRecord] /\ since' \in [Leds -> Nat]
    BY <1>1, <2>1, <2>3, <2>4
  <2>6. \A k \in Leds : Sound(leds'[k])
    BY <1>1, <2>1, <2>2, <2>3
  <2>7. build_state_message(id, leds'[id]) \in Sample
    <3>1. leds'[id] \in LedRecord
      BY <2>1, <2>5
    <3>2. QED
      BY <2>1, <3>1 DEF build_state_message, Sample, LedRecord
  <2>8. retained' \in {retained, kept(Append(retained, build_state_message(id, leds'[id])))}
    BY <1>5 DEF on_command, id
  <2>9. retained' \in Seq(Sample) /\ Len(retained') <= N
    <3> DEFINE sample == build_state_message(id, leds'[id])
    <3>1. sample \in Sample /\ retained' \in {retained, kept(Append(retained, sample))}
      BY <2>7, <2>8
    <3> HIDE DEF sample
    <3>2. Append(retained, sample) \in Seq(Sample)
      BY <1>1, <3>1
    <3>3. QED
      BY <1>1, <1>4, <3>1, <3>2, KeptType
  <2>10. QED
    BY <2>5, <2>6, <2>9
<1>6. CASE on_tick_timer
  <2> DEFINE dt == uint16(TickPeriod)
  <2>1. dt \in Nat
    BY Widths
  <2>2. /\ leds' = [id \in Leds |-> mirror_tick_state(leds[id], dt)]
        /\ since' = [id \in Leds |-> IF counted_blink(leds[id]) THEN since[id] + dt
                                     ELSE since[id]]
    BY <1>6 DEF on_tick_timer
  <2> HIDE DEF dt
  <2>3. \A id \in Leds : Sound(mirror_tick_state(leds[id], dt))
    BY <1>1, <2>1, TickSound
  <2>4. \A id \in Leds : mirror_tick_state(leds[id], dt) \in LedRecord
    BY <2>3 DEF Sound
  <2>5. since' \in [Leds -> Nat]
    BY <1>1, <2>1, <2>2
  <2>6. leds' \in [Leds -> LedRecord]
    BY <2>2, <2>4
  <2>7. \A id \in Leds : Sound(leds'[id])
    BY <2>2, <2>3
  <2>8. QED
    BY <1>1, <1>4, <1>6, <2>5, <2>6, <2>7 DEF on_tick_timer
<1>7. CASE publish_all_states
  <2>1. retained' = with_all_states(retained, leds) /\ UNCHANGED <<leds, since>>
    BY <1>7 DEF publish_all_states
  <2>2. QED
    BY <1>1, <2>1, AllStatesType
<1>8. QED
  BY <1>5, <1>6, <1>7 DEF Serve

\* The invariant holds throughout.
THEOREM Invariance == Spec => []IInv
<1>1. Init => IInv
  <2> SUFFICES ASSUME Init PROVE IInv
    OBVIOUS
  <2>1. 0 \in Byte /\ 0 \in Word /\ 0 \in 0..N
    BY LedAssumption DEF Byte, Word
  <2>2. NewLed \in LedRecord
    BY <2>1 DEF NewLed, LedRecord, Modes
  <2>3. Sound(NewLed)
    <3>1. /\ NewLed.is_on = FALSE /\ NewLed.brightness = 0 /\ NewLed.mode = "STATIC"
          /\ NewLed.blink_on = FALSE
      BY DEF NewLed
    <3>2. (0 > 0) = FALSE
      OBVIOUS
    <3>3. QED
      BY <2>2, <3>1, <3>2 DEF Sound
  <2>4. \A id \in Leds : leds[id] = NewLed
    BY DEF Init
  <2>5. LedsInv
    BY <2>2, <2>3, <2>4 DEF Init, LedsInv
  <2>6. TypeOK
    BY LedAssumption, <2>1, <2>2 DEF Init, TypeOK
  <2>7. DevicesLive
    BY DEF Init, DevicesLive
  <2>8. QED
    BY <2>5, <2>6, <2>7 DEF IInv
<1>2. IInv /\ [Next]_vars => IInv'
  <2> SUFFICES ASSUME IInv, [Next]_vars PROVE IInv'
    OBVIOUS
  <2>1. CASE Destroy
    BY <2>1, LedAssumption DEF Destroy, cleanup_resources, IInv, TypeOK, LedsInv, DevicesLive
  <2>2. CASE UNCHANGED vars
    BY <2>2 DEF vars, IInv, TypeOK, LedsInv, DevicesLive
  <2>3. QED
    BY <2>1, <2>2, ConstructInv, ServeInv DEF Next, Finished
<1>3. QED
  BY <1>1, <1>2, PTL DEF Spec

-----------------------------------------------------------------------------

\* Types and widths are kept: no field of the mirror outgrows its C++ type, and
\* the retained history never holds more than a sample per LED.
THEOREM TypeCorrect == Spec => []TypeOK
BY Invariance, PTL DEF IInv

\* Through every sequence of commands and ticks, what a subscriber sees of an
\* LED is consistent.
THEOREM MirrorIsConsistent == Spec => []MirrorConsistent
<1>1. IInv => MirrorConsistent
  BY DEF IInv, LedsInv, Sound, MirrorConsistent
<1>2. QED
  BY <1>1, Invariance, PTL

\* The callbacks find the device of every LED; none outlives the node, however
\* far its constructor came.
THEOREM DevicesAreLive == Spec => []DevicesLive
BY Invariance, PTL DEF IInv

-----------------------------------------------------------------------------
(* The time of a counted blink.                                            *)

\* What fits a width stays as it is.
LEMMA Fits == (\A x \in Byte : uint8(x) = x) /\ (\A x \in Word : uint16(x) = x)
  BY DEF Byte, Word, uint8, uint16

\* What is below a word is a word.
LEMMA Below ==
  ASSUME NEW m \in Int, NEW p \in 0..m, NEW r \in 0..(p - 1)
  PROVE  r \in Nat /\ r < p /\ r \in 0..m
  OBVIOUS

LEMMA WordRange == \E n \in Int : Word = 0..n
<1> DEFINE n == 65535
<1>1. Word = 0..n
  BY DEF Word
<1>2. n \in Int
  OBVIOUS
<1> HIDE DEF n
<1>3. QED
  BY <1>1, <1>2

LEMMA RestFits ==
  ASSUME NEW p \in Word, NEW r \in 0..(p - 1)
  PROVE  r \in Nat /\ r < p /\ r \in Word
<1>1. PICK n \in Int : Word = 0..n
  BY WordRange
<1>2. QED
  BY <1>1, Below, Zenon

\* q periods and a rest after d periods and e.
LEMMA CyclesAdd ==
  ASSUME NEW d \in Nat, NEW e \in Nat, NEW p \in Nat, NEW dt \in Nat,
         NEW q \in Nat, NEW r \in Nat, e + dt = p * q + r,
         NEW time \in Nat, time = d * p + e
  PROVE  time + dt = (d + q) * p + r
  OBVIOUS

\* n periods and a rest are less than c periods exactly if n is less than c.
LEMMA CyclesOrder ==
  ASSUME NEW n \in Nat, NEW c \in Nat, NEW p \in Nat \ {0}, NEW r \in Nat
  PROVE  /\ n < c /\ r < p => n * p + r < c * p
         /\ n >= c => n * p + r >= c * p
<1>1. ASSUME NEW k \in Nat, c = n + 1 + k PROVE c * p >= n * p + p
  <2>1. c * p = n * p + p + k * p
    BY <1>1
  <2>2. QED
    BY <2>1
<1>2. ASSUME NEW k \in Nat, n = c + k PROVE n * p >= c * p
  <2>1. n * p = c * p + k * p
    BY <1>2
  <2>2. QED
    BY <2>1
<1>3. n < c => c - n - 1 \in Nat /\ c = n + 1 + (c - n - 1)
  OBVIOUS
<1>4. n >= c => n - c \in Nat /\ n = c + (n - c)
  OBVIOUS
<1>5. QED
  BY <1>1, <1>2, <1>3, <1>4

\* A counted blink begins with no time gone and some to come.
LEMMA ApplyTime ==
  ASSUME NEW led \in LedRecord, NEW cmd \in LedCommand, ~rejected(cmd)
  PROVE  KeepsTime(apply_command(led, cmd), 0)
<1> DEFINE new   == apply_command(led, cmd)
           on_ms == IF cmd.on_ms < cmd.period_ms THEN cmd.on_ms ELSE cmd.period_ms
           lit   == on_ms > 0
           blink == [restarted(led, cmd) EXCEPT !.on_ms = on_ms, !.blink_on = lit]
           b     == IF lit THEN 255 ELSE 0
<1>1. ASSUME counted_blink(new)
      PROVE  /\ new.blink_done = 0 /\ new.blink_elapsed_ms = 0
             /\ new.period_ms \in Nat \ {0} /\ new.count \in Nat \ {0}
  <2>1. /\ cmd.mode \in Modes /\ cmd.period_ms \in Word /\ cmd.on_ms \in Word
        /\ cmd.brightness \in Byte /\ cmd.color \in {"black", "lit"} /\ cmd.count \in Byte
    BY DEF LedCommand, rejected
  <2>2. 0 \in Word /\ 0 \in Byte /\ 255 \in Byte
    BY DEF Word, Byte
  <2>3. on_ms \in Word
    BY <2>1
  <2>4. lit \in BOOLEAN
    BY <2>3, Widths
  <2> HIDE DEF on_ms, lit
  <2> DEFINE re == restarted(led, cmd)
  <2>5. /\ re \in LedRecord /\ re.mode = cmd.mode /\ re.period_ms = cmd.period_ms
        /\ re.count = cmd.count /\ re.blink_done = 0 /\ re.blink_elapsed_ms = 0
    BY RestartedFields
  <2>6. CASE cmd.mode = "BLINK"
    <3>1. /\ blink \in LedRecord /\ blink.blink_done = 0 /\ blink.blink_elapsed_ms = 0
          /\ blink.period_ms = cmd.period_ms /\ blink.count = cmd.count
          /\ blink.mode = cmd.mode
      <4> HIDE DEF re
      <4>1. blink = [re EXCEPT !.on_ms = on_ms, !.blink_on = lit]
        BY DEF re
      <4> HIDE DEF blink
      <4>2. QED
        BY <2>3, <2>4, <2>5, <4>1 DEF LedRecord
    <3>2. new = shown(blink, b)
      BY <2>6 DEF apply_command, on_ms, lit
    <3>3. b \in Byte
      BY <2>2
    <3> HIDE DEF blink, b, new
    <3>4. /\ new.blink_done = 0 /\ new.blink_elapsed_ms = 0
          /\ new.period_ms = cmd.period_ms /\ new.count = cmd.count
      BY <3>1, <3>2, <3>3, ShownFields
    <3>5. new.count # 0 /\ cmd.period_ms # 0
      BY <1>1, <2>6 DEF counted_blink, rejected
    <3>6. QED
      BY <2>1, <3>4, <3>5, Widths
  <2>7. CASE cmd.mode # "BLINK"
    <3> DEFINE dark == IF cmd.color = "black" THEN 0 ELSE cmd.brightness
    <3>1. dark \in Byte
      BY <2>1, <2>2
    <3>2. new \in {shown(restarted(led, cmd), dark), shown(restarted(led, cmd), 0)}
      BY <2>1, <2>7, Zenon DEF apply_command, Modes
    <3> HIDE DEF dark, new
    <3>3. new.mode = cmd.mode
      <4>1. \A x \in {dark, 0} : shown(restarted(led, cmd), x).mode
                                  = restarted(led, cmd).mode
        BY <2>2, <2>5, <3>1, ShownFields
      <4>2. QED
        BY <2>5, <3>2, <4>1
    <3>4. QED
      BY <1>1, <2>7, <3>3 DEF counted_blink
  <2>8. QED
    BY <2>6, <2>7
<1> HIDE DEF new
<1>2. ASSUME counted_blink(new)
      PROVE  /\ 0 = new.blink_done * new.period_ms + new.blink_elapsed_ms
             /\ 0 < new.count * new.period_ms
  BY <1>1, <1>2
<1>3. KeepsTime(new, 0)
  BY <1>2 DEF KeepsTime
<1>4. QED
  BY <1>3 DEF new

\* A tick of a counted blink adds its time, or ends the blink in time.
LEMMA BlinkTime ==
  ASSUME NEW led, Sound(led), counted_blink(led), NEW dt \in Nat,
         NEW time \in Nat, KeepsTime(led, time)
  PROVE  KeepsTime(blink_tick(led, dt), time + dt)
<1> DEFINE total   == led.blink_elapsed_ms + dt
           cycles  == total \div led.period_ms
           rest    == total % led.period_ms
           elapsed == uint16(rest)
           on      == elapsed < led.on_ms
           counted == led.count # 0 /\ cycles > 0
           done    == uint8(led.blink_done + cycles)
           kept_done == IF counted THEN done ELSE led.blink_done
           over    == [led EXCEPT !.mode = "STATIC", !.blink_elapsed_ms = elapsed,
                                  !.blink_done = led.count, !.blink_on = FALSE]
           goes    == [led EXCEPT !.blink_elapsed_ms = elapsed, !.blink_on = on,
                                  !.blink_done = kept_done]
           b       == IF on THEN 255 ELSE 0
<1>1. /\ led \in LedRecord /\ led.period_ms \in Word /\ led.period_ms \in Nat \ {0}
      /\ led.blink_elapsed_ms \in Nat /\ led.blink_done \in Nat /\ led.on_ms \in Nat
      /\ led.count \in Byte /\ led.count \in Nat /\ led.count # 0 /\ led.mode = "BLINK"
      /\ led.on_ms \in Word /\ led.blink_done \in Byte
  <2>1. /\ led \in LedRecord /\ led.period_ms \in Word /\ led.period_ms > 0
        /\ led.blink_elapsed_ms \in Word /\ led.blink_done \in Byte /\ led.on_ms \in Word
        /\ led.count \in Byte /\ led.count # 0 /\ led.mode = "BLINK"
    BY DEF Sound, LedRecord, counted_blink
  <2>2. QED
    BY <2>1, Widths, Zenon
<1>2. /\ time = led.blink_done * led.period_ms + led.blink_elapsed_ms
      /\ time < led.count * led.period_ms
  BY DEF KeepsTime
<1>3. total \in Nat
  BY <1>1
<1>4. /\ cycles \in Nat /\ rest \in 0..(led.period_ms - 1)
      /\ led.blink_elapsed_ms + dt = led.period_ms * cycles + rest
  <2> HIDE DEF total
  <2>1. /\ total = led.period_ms * cycles + rest
        /\ rest \in 0..(led.period_ms - 1) /\ cycles \in Nat
    BY <1>1, <1>3, Division
  <2>2. QED
    BY <2>1 DEF total
<1> HIDE DEF total, cycles, rest
<1>5. rest \in Nat /\ rest < led.period_ms /\ rest \in Word
  BY <1>1, <1>4, RestFits, Zenon
<1>6. elapsed = rest
  BY <1>5, Fits
<1>7. time + dt = (led.blink_done + cycles) * led.period_ms + rest
  <2> DEFINE d == led.blink_done
             e == led.blink_elapsed_ms
             p == led.period_ms
  <2>1. d \in Nat /\ e \in Nat /\ p \in Nat /\ cycles \in Nat /\ rest \in Nat
    BY <1>1, <1>4, <1>5
  <2>2. time = d * p + e /\ e + dt = p * cycles + rest
    BY <1>2, <1>4
  <2> HIDE DEF d, e, p
  <2>3. time + dt = (d + cycles) * p + rest
    BY <2>1, <2>2, CyclesAdd
  <2>4. QED
    BY <2>3 DEF d, p
<1>8. led.blink_done < led.count
  BY <1>1, <1>2, CyclesOrder
<1>9. on \in BOOLEAN /\ b \in Byte /\ 0 \in Byte /\ elapsed \in Word
  BY <1>1, <1>5, <1>6 DEF Byte
<1> HIDE DEF elapsed, on, b
<1>10. CASE counted /\ led.blink_done + cycles >= led.count
  <2>1. blink_tick(led, dt) = shown(over, 0)
    BY <1>10, Zenon DEF blink_tick, total, cycles, rest, elapsed
  <2>2. /\ over \in LedRecord /\ over.mode = "STATIC" /\ over.count = led.count
        /\ over.period_ms = led.period_ms
    BY <1>1, <1>9 DEF LedRecord, Modes
  <2> HIDE DEF over
  <2>3. /\ shown(over, 0).mode = "STATIC" /\ shown(over, 0).count = led.count
        /\ shown(over, 0).period_ms = led.period_ms
    BY <1>9, <2>2, ShownFields
  <2>4. time + dt >= led.count * led.period_ms
    BY <1>1, <1>4, <1>5, <1>7, <1>10, CyclesOrder
  <2>5. QED
    BY <2>1, <2>3, <2>4 DEF KeepsTime, counted_blink
<1>11. CASE ~(counted /\ led.blink_done + cycles >= led.count)
  <2>1. blink_tick(led, dt) = shown(goes, b)
    BY <1>11, Zenon DEF blink_tick, total, cycles, rest, elapsed, on, b
  <2>2. led.blink_done + cycles < led.count /\ kept_done = led.blink_done + cycles
    <3>1. CASE cycles = 0
      BY <1>1, <1>8, <3>1
    <3>2. CASE cycles # 0
      <4>1. led.blink_done + cycles < led.count
        BY <1>1, <1>4, <1>11, <3>2
      <4>2. led.blink_done + cycles \in Byte
        <5>1. \A c \in Byte : \A d, q \in Nat : d + q < c => d + q \in Byte
          BY DEF Byte
        <5>2. QED
          BY <1>1, <1>4, <4>1, <5>1, Zenon
      <4>3. QED
        BY <1>1, <1>4, <3>2, <4>1, <4>2, Fits
    <3>3. QED
      BY <3>1, <3>2
  <2>3. kept_done \in Byte
    <3>1. \A c \in Byte : \A d, q \in Nat : d + q < c => d + q \in Byte
      BY DEF Byte
    <3>2. QED
      BY <1>1, <1>4, <2>2, <3>1, Zenon
  <2> HIDE DEF kept_done
  <2>4. /\ goes \in LedRecord /\ goes.mode = "BLINK" /\ goes.count = led.count
        /\ goes.period_ms = led.period_ms /\ goes.blink_done = kept_done
        /\ goes.blink_elapsed_ms = elapsed
    BY <1>1, <1>9, <2>3 DEF LedRecord, Modes
  <2> HIDE DEF goes
  <2>5. /\ shown(goes, b).mode = "BLINK" /\ shown(goes, b).count = led.count
        /\ shown(goes, b).period_ms = led.period_ms /\ shown(goes, b).blink_done = kept_done
        /\ shown(goes, b).blink_elapsed_ms = elapsed
    BY <1>9, <2>4, ShownFields
  <2>6. /\ time + dt = kept_done * led.period_ms + elapsed
        /\ time + dt < led.count * led.period_ms
    BY <1>1, <1>4, <1>5, <1>6, <1>7, <2>2, CyclesOrder
  <2>7. QED
    BY <2>1, <2>5, <2>6 DEF KeepsTime
<1>12. QED
  BY <1>10, <1>11

\* Every other tick leaves the time alone, and starts no blink.
LEMMA OtherTime ==
  ASSUME NEW led, Sound(led), ~counted_blink(led), NEW dt \in Nat,
         NEW time \in Nat, KeepsTime(led, time)
  PROVE  KeepsTime(mirror_tick_state(led, dt), time)
<1>1. led \in LedRecord /\ led.mode \in Modes
  BY DEF Sound, LedRecord
<1>2. CASE led.mode = "STATIC"
  BY <1>2, StaticSound
<1>3. CASE led.mode = "BREATH"
  <2>1. mirror_tick_state(led, dt).mode = "BREATH"
    BY <1>1, <1>3, BreathSound DEF mirror_tick_state
  <2>2. QED
    BY <2>1 DEF KeepsTime, counted_blink
<1>4. CASE led.mode = "BLINK"
  <2>1. mirror_tick_state(led, dt).mode = "BLINK" /\ mirror_tick_state(led, dt).count = 0
    BY <1>1, <1>4, BlinkSound DEF mirror_tick_state, counted_blink
  <2>2. QED
    BY <2>1 DEF KeepsTime, counted_blink
<1>5. QED
  BY <1>1, <1>2, <1>3, <1>4 DEF Modes

\* For every tick period and every sequence of commands and ticks, a counted
\* blink takes count periods of the time that the ticks tell the driver of.
THEOREM BlinkTakesItsTime == Spec => []BlinkKeepsTime
<1>1. Init => BlinkKeepsTime
  BY DEF Init, NewLed, BlinkKeepsTime, KeepsTime, counted_blink
<1>2. IInv /\ BlinkKeepsTime /\ [Next]_vars => BlinkKeepsTime'
  <2> SUFFICES ASSUME IInv, BlinkKeepsTime, [Next]_vars PROVE BlinkKeepsTime'
    OBVIOUS
  <2>1. /\ leds \in [Leds -> LedRecord] /\ since \in [Leds -> Nat]
        /\ \A id \in Leds : Sound(leds[id]) /\ KeepsTime(leds[id], since[id])
    BY DEF IInv, TypeOK, LedsInv, BlinkKeepsTime
  <2>2. CASE UNCHANGED <<leds, since>>
    BY <2>2 DEF BlinkKeepsTime
  <2>3. ASSUME NEW cmd \in Commands, on_command(cmd)
        PROVE  BlinkKeepsTime'
    <3> DEFINE new == apply_command(leds[cmd.led_id], cmd)
    <3>1. cmd.led_id \in Leds /\ cmd \in LedCommand
      BY <2>3, LedAssumption DEF on_command
    <3>2. \/ UNCHANGED <<leds, since>>
          \/ /\ ~rejected(cmd) /\ leds' = [leds EXCEPT ![cmd.led_id] = new]
             /\ since' = [since EXCEPT ![cmd.led_id] = 0]
      BY <2>3 DEF on_command
    <3>3. ~rejected(cmd) => KeepsTime(new, 0)
      BY <2>1, <3>1, ApplyTime
    <3> HIDE DEF new
    <3>4. QED
      BY <2>1, <2>2, <3>1, <3>2, <3>3 DEF BlinkKeepsTime
  <2>4. CASE on_tick_timer
    <3> DEFINE dt == uint16(TickPeriod)
    <3>1. dt \in Nat
      BY LedAssumption, Widths
    <3>2. /\ leds' = [id \in Leds |-> mirror_tick_state(leds[id], dt)]
          /\ since' = [id \in Leds |-> IF counted_blink(leds[id]) THEN since[id] + dt
                                       ELSE since[id]]
      BY <2>4 DEF on_tick_timer
    <3> HIDE DEF dt
    <3>3. ASSUME NEW id \in Leds, counted_blink(leds[id])
          PROVE  KeepsTime(leds'[id], since'[id])
      <4>1. mirror_tick_state(leds[id], dt) = blink_tick(leds[id], dt)
        BY <3>3 DEF mirror_tick_state, counted_blink
      <4>2. KeepsTime(blink_tick(leds[id], dt), since[id] + dt)
        BY <2>1, <3>1, <3>3, BlinkTime
      <4>3. QED
        BY <3>2, <3>3, <4>1, <4>2
    <3>4. ASSUME NEW id \in Leds, ~counted_blink(leds[id])
          PROVE  KeepsTime(leds'[id], since'[id])
      BY <2>1, <3>1, <3>2, <3>4, OtherTime
    <3>5. QED
      BY <3>3, <3>4 DEF BlinkKeepsTime
  <2>5. CASE Construct \/ Destroy \/ Finished \/ publish_all_states \/ UNCHANGED vars
    BY <2>2, <2>5 DEF Construct, register_led, Throw, Constructed, Destroy, Finished,
                      publish_all_states, vars
  <2>6. QED
    BY <2>3, <2>4, <2>5 DEF Next, Serve
<1>3. QED
  BY <1>1, <1>2, Invariance, PTL DEF Spec

=============================================================================
