------------------------------- MODULE Decoding -------------------------------
(***************************************************************************)
(* The words of the files of EventLoaderTimepix3 and EventLoaderATLASpix   *)
(* carry the last bits of times and numbers; the loaders find the rest     *)
(* from heartbeats, overflows and earlier words.  Times are in units of a  *)
(* chip counter and the widths of the counters are made smaller: each      *)
(* definition of a width names the true one.                               *)
(***************************************************************************)
EXTENDS RecoChain

VARIABLES words,     \* words of the file so far
          clock,     \* the device: its time, triggers, and what it sent of them last
          decoder,   \* members of the loader
          decoded    \* what the last word gave, with what it was for the device

decodingVars == <<words, clock, decoder, decoded>>

Nothing == [kind |-> "nothing"]

DecodingInit == words = 0 /\ clock = <<>> /\ decoder = <<>> /\ decoded = Nothing

\* The device sends one more word, some time later.
Send(loader) ==
    /\ chain.module = "Words" /\ chain.loader = loader
    /\ Proceed("words", "words") /\ UNCHANGED filled
    /\ words < chain.words /\ words' = words + 1
    /\ decoded.kind # "eof"

\* n without the bits below a power, and these bits.
High(n, power) == n - (n % power)

\* The widths of EventLoaderTimepix3
PixelWrap == 16               \* 2^42, 26 s
HeartbeatWrap == 4 * PixelWrap  \* 2^44
EarlyRun == 3                 \* 6 s
TriggerWrap == 4              \* 2^12
TDCWrap == 16                 \* 2^35, 107 s
OneSecond == 2                \* 0x1312d000

\* and of EventLoaderATLASpix
HitWrap == 16        \* 0x800, of the chip
ReadoutWrap == 64    \* 0x20000, of the chip
FPGALow == 128       \* 2^24
FPGAMiddle == 256    \* 2^48

\* What is left of a former run is as late as the loader expects, and pixels are sent within
\* half a period of their counter.  The FPGA sends its time in every half period of its
\* last bits, readouts begin near that time and hits near their readout.
WordsConfigurations ==
    [module : {"Words"}, loader : {"Timepix3"}, events : Nat, words : Nat,
     leftover : {n \in Nat : n = 0 \/ n >= HeartbeatWrap}, dut : BOOLEAN, steps : SUBSET Nat,
     delays : SUBSET (0..(PixelWrap \div 2)), inputs : {{}}]
    \cup [module : {"Words"}, loader : {"ATLASpix"}, events : Nat, words : Nat, leftover : Nat,
          steps : SUBSET (0..(FPGALow - 1)), readouts : SUBSET ((-1)..(ReadoutWrap \div 2)),
          hits : SUBSET ((4 - HitWrap)..2), inputs : {{}}]

ASSUME WordsAssumption ==
    \A n \in DOMAIN Chains : Chains[n].module = "Words" => Chains[n] \in WordsConfigurations

-----------------------------------------------------------------------------
(* EventLoaderTimepix3 *)

\* Words of a former run may still be in the device.
Timepix3Begin ==
    /\ chain.module = "Words" /\ chain.loader = "Timepix3"
    /\ Proceed("begin", "words")
    /\ clock' = [time |-> chain.leftover, trigger |-> 0, old |-> chain.leftover > 0,
              beat |-> chain.leftover,
                 halves |-> [low |-> 0, high |-> 0], read |-> [number |-> 0, time |-> 0], kept |-> TRUE]
    /\ decoder' = [syncTime |-> 0, clearedHeader |-> FALSE, syncTimeTDC |-> 0, TDCoverflow |-> 0,
                   prevTriggerNumber |-> 0, triggerOverflow |-> 0, shutterOpen |-> FALSE]
    /\ UNCHANGED <<filled, words, decoded>>

\* The run begins: the device counts from zero.
DeviceReset ==
    /\ Send("Timepix3") /\ clock.old
    /\ clock' = [clock EXCEPT !.time = 0, !.trigger = 0, !.old = FALSE, !.beat = 0]
    /\ decoded' = Nothing
    /\ UNCHANGED decoder

\* A heartbeat has two words, of the last and of the first bits of its time; words with
\* garbage between bits and header are left out.
HeartbeatLow ==
    /\ Send("Timepix3")
    /\ \E step \in chain.steps :
        LET t == clock.time + step
        IN  \/ /\ clock' = [clock EXCEPT !.time = t, !.beat = t, !.halves.low = t]
               /\ decoder' = [decoder EXCEPT !.syncTime = High(@, HeartbeatWrap) + (t % HeartbeatWrap)]
            \/ clock' = [clock EXCEPT !.time = t, !.beat = t] /\ UNCHANGED decoder
    /\ decoded' = Nothing

HeartbeatHigh ==
    /\ Send("Timepix3")
    /\ clock' = [clock EXCEPT !.halves.high = clock.beat]
    /\ LET sync == High(clock.beat, HeartbeatWrap) + (decoder.syncTime % HeartbeatWrap)
       IN  decoder' = [decoder EXCEPT !.syncTime = sync, !.clearedHeader = @ \/ sync < EarlyRun]
    /\ decoded' = Nothing

\* A masked pixel, a trigger with bits where there should be none, a header that is not
\* known: nothing changes.
SkippedWord ==
    /\ Send("Timepix3")
    /\ \E step \in chain.steps, triggers \in 0..1 :
        clock' = [clock EXCEPT !.time = @ + step, !.trigger = @ + triggers]
    /\ decoded' = Nothing
    /\ UNCHANGED decoder

\* Mutation: the overflow of the pixel's counter is not looked for.
PixelTimeOfPeriod(low) == High(decoder.syncTime, PixelWrap) + low

\* The period of the heartbeat, or the next one if the pixel's counter has overflowed since.
PixelTime(low) ==
    LET time == High(decoder.syncTime, PixelWrap) + low
    IN  IF decoder.syncTime - time > PixelWrap \div 2 THEN time + PixelWrap ELSE time

\* A pixel is sent some time after it was hit.
PixelWord ==
    /\ Send("Timepix3")
    /\ \E delay \in chain.delays :
        /\ delay <= clock.time
        /\ LET t == clock.time - delay
           IN  decoded' = IF decoder.clearedHeader
                          THEN [kind |-> "pixel", is |-> PixelTime(t % PixelWrap), truth |-> t]
                          ELSE Nothing
    /\ UNCHANGED <<clock, decoder>>

\* The overflows of the number and of the time of triggers are seen as steps back.
TriggerWord ==
    /\ Send("Timepix3")
    /\ \E step \in chain.steps :
        LET t == clock.time + step
            number == clock.trigger + 1
            sent == [clock EXCEPT !.time = t, !.trigger = number]
            numbers == decoder.triggerOverflow
                       + IF number % TriggerWrap < decoder.prevTriggerNumber THEN 1 ELSE 0
            times == decoder.TDCoverflow
                     + IF decoder.syncTimeTDC - (t % TDCWrap) > OneSecond THEN 1 ELSE 0
        IN  IF ~decoder.clearedHeader
            THEN clock' = sent /\ decoded' = Nothing /\ UNCHANGED decoder
            ELSE /\ clock' = [sent EXCEPT !.read = [number |-> number, time |-> t],
                                !.kept = /\ @ /\ number - clock.read.number < TriggerWrap
                                         /\ t - clock.read.time < TDCWrap - OneSecond]
                 /\ decoder' = [decoder EXCEPT !.triggerOverflow = numbers, !.TDCoverflow = times,
                                               !.prevTriggerNumber = number % TriggerWrap,
                                               !.syncTimeTDC = t % TDCWrap]
                 /\ decoded' = [kind |-> "trigger",
                                is |-> [number |-> (number % TriggerWrap) + numbers * TriggerWrap,
                                        time |-> (t % TDCWrap) + times * TDCWrap],
                                truth |-> [number |-> number, time |-> t]]

\* Power pulsing, of a DUT: a closed shutter is a signal if it was open.
PowerWord ==
    /\ Send("Timepix3") /\ chain.dut
    /\ \E shutterClosed \in BOOLEAN :
        IF decoder.clearedHeader
        THEN /\ decoded' = [kind |-> IF ~shutterClosed THEN "shutterOpen"
                                     ELSE IF decoder.shutterOpen THEN "shutterClosed" ELSE "power"]
             /\ decoder' = [decoder EXCEPT !.shutterOpen = ~shutterClosed]
        ELSE decoded' = Nothing /\ UNCHANGED decoder
    /\ UNCHANGED clock

-----------------------------------------------------------------------------
(* EventLoaderATLASpix *)

ATLASpixBegin ==
    /\ chain.module = "Words" /\ chain.loader = "ATLASpix"
    /\ Proceed("begin", "words")
    /\ clock' = [time |-> chain.leftover, group |-> 0, readout |-> chain.leftover, fresh |-> FALSE,
              gap |-> FALSE]
    /\ decoder' = [t0 |-> 0, fpga |-> 0, ts1 |-> 0, ts2 |-> 0, ts3 |-> 0, readout |-> 0,
                   new1 |-> FALSE, new2 |-> FALSE]
    /\ UNCHANGED <<filled, words, decoded>>

\* The FPGA counts from zero; the time of the last readout stays.
T0Word ==
    /\ Send("ATLASpix")
    /\ clock' = [clock EXCEPT !.time = 0, !.group = 0, !.fresh = FALSE, !.gap = FALSE]
    /\ decoder' = [decoder EXCEPT !.t0 = @ + 1, !.fpga = 0, !.ts1 = 0, !.ts2 = 0, !.ts3 = 0,
                                  !.new1 = FALSE, !.new2 = FALSE]
    /\ decoded' = Nothing

\* The three words of a time of the FPGA; the first two may be missing.
FPGAFirst ==
    /\ Send("ATLASpix") /\ clock.group = 0
    /\ \E step \in chain.steps :
        /\ clock' = [clock EXCEPT !.time = @ + step, !.group = 1]
        /\ \/ decoder' = [decoder EXCEPT !.ts1 = High(clock'.time, FPGAMiddle), !.new1 = TRUE]
           \/ UNCHANGED decoder
    /\ decoded' = Nothing

FPGASecond ==
    /\ Send("ATLASpix") /\ clock.group = 1
    /\ LET ts2 == High(clock.time % FPGAMiddle, FPGALow)
           carry == IF ~decoder.new1 /\ ts2 < decoder.ts2 THEN FPGAMiddle ELSE 0
       IN  \/ /\ clock' = [clock EXCEPT !.group = 2]
              /\ decoder' = [decoder EXCEPT !.ts1 = @ + carry, !.ts2 = ts2, !.new1 = FALSE, !.new2 = TRUE]
           \/ clock' = [clock EXCEPT !.group = 2, !.gap = TRUE] /\ UNCHANGED decoder
    /\ decoded' = Nothing

\* Mutation: a missing second word is not noticed.
AddThirdWithout(ts3) == [decoder EXCEPT !.ts3 = ts3, !.new2 = FALSE]

AddThird(ts3) ==
    LET carry == IF ~decoder.new2 /\ ts3 < decoder.ts3 THEN FPGALow ELSE 0
    IN  [decoder EXCEPT !.ts2 = @ + carry, !.ts3 = ts3, !.new2 = FALSE]

\* ts1 | ts2 | ts3, where ts2 may have one bit more.
Joined3(d) ==
    LET carry == IF d.ts2 >= FPGAMiddle /\ (d.ts1 \div FPGAMiddle) % 2 = 1 THEN FPGAMiddle ELSE 0
    IN  d.ts1 + d.ts2 - carry + d.ts3

FPGAThird ==
    /\ Send("ATLASpix") /\ clock.group = 2
    /\ clock' = [clock EXCEPT !.group = 0]
    /\ LET added == AddThird(clock.time % FPGALow)
       IN  decoder' = [added EXCEPT !.fpga = Joined3(added)]
    /\ decoded' = Nothing

\* Time n of a counter that overflows, near the time of another: the difference of the
\* two is taken to be at most above, and no less than below.
Near(n, time, wrap, above, below) ==
    LET diff == n - (time % wrap)
    IN  time + IF diff > 0 THEN (IF diff > above THEN diff - wrap ELSE diff)
               ELSE (IF diff < below THEN diff + wrap ELSE diff)

\* Readouts begin about the time of the FPGA that was sent last.
ReadoutWord ==
    /\ Send("ATLASpix") /\ clock.group = 0
    /\ \E later \in chain.readouts :
        LET t == High(clock.time + later, 2)
        IN  /\ t >= 0
            /\ clock' = [clock EXCEPT !.readout = t, !.fresh = TRUE]
            /\ decoder' = [decoder EXCEPT !.readout =
                Near(t % ReadoutWrap, decoder.fpga, ReadoutWrap, ReadoutWrap \div 2, -(ReadoutWrap \div 32))]
    /\ decoded' = Nothing

\* Hits are ignored before the run begins; a second beginning ends the file.
HitWord ==
    /\ Send("ATLASpix")
    /\ \E later \in chain.hits :
        LET t == clock.readout + later
            above == HitWrap \div 4 - 1
        IN  /\ t >= 0
            /\ decoded' =
                IF decoder.t0 = 0 THEN Nothing
                ELSE IF decoder.t0 > 1 THEN [kind |-> "eof"]
                ELSE [kind |-> "hit", truth |-> t,
                      is |-> Near(t % HitWrap, decoder.readout, HitWrap, above, above - HitWrap)]
    /\ UNCHANGED <<clock, decoder>>

-----------------------------------------------------------------------------

DecodingStep ==
    \/ Timepix3Begin \/ DeviceReset \/ HeartbeatLow \/ HeartbeatHigh \/ SkippedWord
    \/ PixelWord \/ TriggerWord \/ PowerWord
    \/ ATLASpixBegin \/ T0Word \/ FPGAFirst \/ FPGASecond \/ FPGAThird \/ ReadoutWord \/ HitWord
=============================================================================
