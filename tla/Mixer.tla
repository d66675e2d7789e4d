------------------------------- MODULE Mixer -------------------------------
(***************************************************************************)
(* The audio mixer (mixer.rs) between the programs' streams and the AC97   *)
(* card.  Every timer tick the pump reads where the card is, mixes fresh   *)
(* periods into the ring of descriptors and moves the last valid index;    *)
(* the card plays on meanwhile, so the pump takes one step for each access *)
(* to it.  System calls wait for the lock that the pump holds.  A tick     *)
(* takes microseconds, a period 10 ms: at most one period ends during it.  *)
(*                                                                         *)
(* A frame is a token, the stream it was written to and its number; a      *)
(* mixed frame is the set of tokens it sums, and volumes, clipping, the    *)
(* tap and the statistics are left out.  The phase of the resampler counts *)
(* in parts of 1 / Unit.  `hist' is history, one record for every stream   *)
(* ever opened: frames accepted, the last frame heard and how often, and   *)
(* whether some were discarded on request.                                 *)
(***************************************************************************)
EXTENDS Naturals, Sequences, FiniteSets, SequencesExt

CONSTANTS
    Pids, MAX_STREAMS, PerProc, Capacity, Unit, Steps, BeepFrames,
    RING_PERIODS, PERIOD_FRAMES, TARGET_AHEAD, START_PREFILL,
    MaxGen, MaxOpens, MaxFrames, MaxBeeps

VARIABLES streams, voices, dma, hw, pump, held, hist, stale, beeps

mxVars == <<streams, voices, dma, hw, pump, held, hist, stale, beeps>>

Slots == 1 .. MAX_STREAMS
Ring == 0 .. RING_PERIODS - 1
NoToken == <<0, 0>>
Silence == [i \in 1 .. PERIOD_FRAMES |-> {}]

EMPTY_STREAM ==
    [in_use |-> FALSE, closing |-> FALSE, paused |-> FALSE, have_cur |-> FALSE, gen |-> 0, owner |-> 0,
     step |-> 0, read |-> 0, count |-> 0, phase |-> 0, cur |-> NoToken, tag |-> 0,
     ring |-> [i \in 0 .. Capacity - 1 |-> NoToken]]

----------------------------------------------------------------------------
(* A stream: pop, push and the resampler.                                  *)
next_gen(g) == IF g + 1 > MaxGen THEN 1 ELSE g + 1

pop(s) == [s EXCEPT !.cur = s.ring[s.read], !.read = (@ + 1) % Capacity, !.count = @ - 1,
                    !.ring = [@ EXCEPT ![s.read] = NoToken]]

push(s, frames) ==
    [s EXCEPT !.ring = [i \in DOMAIN @ |->
                 IF \E k \in DOMAIN frames: (s.read + s.count + k - 1) % Capacity = i
                   THEN frames[CHOOSE k \in DOMAIN frames: (s.read + s.count + k - 1) % Capacity = i]
                   ELSE @[i]],
              !.count = @ + Len(frames)]

(* Moves the input position on by the step, which is at most Unit.         *)
Advance(s) ==
    LET t == [s EXCEPT !.phase = @ + s.step]
    IN  IF t.phase < Unit THEN t
        ELSE IF t.count > 0 THEN [pop(t) EXCEPT !.phase = @ - Unit]
        ELSE [t EXCEPT !.have_cur = FALSE, !.phase = 0, !.cur = NoToken]

(* next_frame: the token heard, if any, and the stream after it.           *)
Started(s) == IF s.have_cur \/ s.count = 0 THEN s ELSE [pop(s) EXCEPT !.have_cur = TRUE, !.phase = 0]

next_frame(s) ==
    LET t == Started(s)
    IN  IF t.have_cur THEN [out |-> {t.cur}, s |-> Advance(t)] ELSE [out |-> {}, s |-> t]

wants_to_play(s) == s.in_use /\ ~s.paused /\ (s.count > 0 \/ s.have_cur)

free_stream(s) == [EMPTY_STREAM EXCEPT !.gen = next_gen(s.gen)]

----------------------------------------------------------------------------
(* mix_block: PERIOD_FRAMES frames, then the streams that have drained are *)
(* freed.                                                                  *)
MixFrame(m) ==
    LET plays == {i \in Slots: m.streams[i].in_use /\ ~m.streams[i].paused}
    IN  [streams |-> [i \in Slots |-> IF i \in plays THEN next_frame(m.streams[i]).s ELSE m.streams[i]],
         voices |-> [v \in DOMAIN m.voices |-> IF m.voices[v] > 0 THEN m.voices[v] - 1 ELSE 0],
         out |-> Append(m.out, UNION {next_frame(m.streams[i]).out: i \in plays})]

mix_block ==
    LET m == FoldLeft(LAMBDA acc, i: MixFrame(acc), [streams |-> streams, voices |-> voices, out |-> <<>>],
                      [i \in 1 .. PERIOD_FRAMES |-> i])
        drained(s) == s.in_use /\ s.closing /\ s.count = 0 /\ ~s.have_cur
    IN  [m EXCEPT !.streams = [i \in Slots |-> IF drained(@[i]) THEN free_stream(@[i]) ELSE @[i]]]

has_activity == (\E i \in Slots: wants_to_play(streams[i])) \/ (\E v \in DOMAIN voices: voices[v] > 0)

(* Mutant: one past the last period written. *)
last_written_next == dma.write_idx

last_written == (dma.write_idx + RING_PERIODS - 1) % RING_PERIODS

----------------------------------------------------------------------------
(* The card: it plays the periods up to the last valid index and halts;    *)
(* a new index sets a halted engine going again.                           *)
PumpRests == pump.at = "idle"

Heard(h, tokens) ==
    [i \in DOMAIN h |->
        LET mine == {t[2]: t \in {u \in tokens: u[1] = i}}
        IN  IF mine = {} THEN h[i]
            ELSE LET k == CHOOSE k \in mine: TRUE
                 IN  [h[i] EXCEPT !.reps = IF k = h[i].last THEN @ + 1 ELSE 1, !.last = k,
                                  !.ok = @ /\ (k \in {h[i].last, h[i].last + 1} \/ h[i].cut)]]

CardPlays ==
    /\ hw.on /\ ~hw.halted /\ ~pump.passed
    /\ pump' = [pump EXCEPT !.passed = ~PumpRests]
    /\ hist' = FoldLeft(Heard, hist, hw.buf[hw.civ])
    /\ stale' = (stale \/ ~hw.fresh[hw.civ])
    /\ hw' = [hw EXCEPT !.fresh[hw.civ] = FALSE, !.buf[hw.civ] = Silence,
                        !.halted = (hw.civ = hw.lvi),
                        !.civ = IF hw.civ = hw.lvi THEN @ ELSE (@ + 1) % RING_PERIODS]
    /\ UNCHANGED <<streams, voices, dma, held, beeps>>

ring_start(lvi) == hw' = [hw EXCEPT !.on = TRUE, !.halted = FALSE, !.civ = 0, !.lvi = lvi]

ring_set_lvi(idx) ==
    hw' = [hw EXCEPT !.lvi = idx, !.halted = FALSE,
                     !.civ = IF hw.halted THEN (@ + 1) % RING_PERIODS ELSE @]

----------------------------------------------------------------------------
(* pump                                                                    *)
Goto(at) == pump' = [pump EXCEPT !.at = at, !.passed = @ /\ at # "idle"]

(* The engine's position, and what it has consumed since the last tick.    *)
PumpCiv ==
    /\ PumpRests
    /\ LET consumed == (hw.civ + RING_PERIODS - dma.last_civ) % RING_PERIODS
       IN  IF dma.running
             THEN /\ dma' = [dma EXCEPT !.last_civ = hw.civ,
                                        !.queued = IF consumed > @ THEN 0 ELSE @ - consumed]
                  /\ pump' = [at |-> "running", active |-> has_activity, passed |-> FALSE]
             ELSE /\ has_activity
                  /\ dma' = [dma EXCEPT !.write_idx = 0, !.queued = 0, !.last_civ = 0]
                  /\ pump' = [at |-> "prefill", active |-> TRUE, passed |-> FALSE]
    /\ UNCHANGED <<streams, voices, hw, held, hist, stale, beeps>>

PumpRunning ==
    /\ pump.at = "running"
    /\ IF hw.halted
         THEN /\ dma' = [dma EXCEPT !.running = FALSE, !.queued = 0,
                                    !.write_idx = IF pump.active THEN 0 ELSE @,
                                    !.last_civ = IF pump.active THEN 0 ELSE @]
              /\ Goto(IF pump.active THEN "prefill" ELSE "idle")
         ELSE Goto(IF pump.active THEN "fill" ELSE "idle") /\ UNCHANGED dma
    /\ UNCHANGED <<streams, voices, hw, held, hist, stale, beeps>>

fill_one ==
    LET m == mix_block
    IN  /\ streams' = m.streams /\ voices' = m.voices
        /\ hw' = [hw EXCEPT !.buf[dma.write_idx] = m.out, !.fresh[dma.write_idx] = TRUE]
        /\ dma' = [dma EXCEPT !.write_idx = (@ + 1) % RING_PERIODS, !.queued = @ + 1]
        /\ UNCHANGED <<pump, held, hist, stale, beeps>>

PumpFill ==
    \/ pump.at = "fill" /\ dma.queued < TARGET_AHEAD /\ fill_one
    \/ pump.at = "prefill" /\ dma.queued < START_PREFILL /\ fill_one

PumpSetLvi ==
    /\ pump.at = "fill" /\ dma.queued >= TARGET_AHEAD
    /\ ring_set_lvi(last_written) /\ Goto("idle")
    /\ UNCHANGED <<streams, voices, dma, held, hist, stale, beeps>>

PumpStart ==
    /\ pump.at = "prefill" /\ dma.queued >= START_PREFILL
    /\ ring_start(last_written) /\ Goto("idle")
    /\ dma' = [dma EXCEPT !.running = TRUE]
    /\ UNCHANGED <<streams, voices, held, hist, stale, beeps>>

----------------------------------------------------------------------------
(* The system calls.  A process passes any handle it was ever given.       *)
lookup(p, h) ==
    LET s == streams[h.slot]
    IN  s.in_use /\ s.gen = h.gen /\ s.owner = p /\ ~s.closing

Cut(i) == hist' = [hist EXCEPT ![streams[i].tag].cut = @ \/ streams[i].count > 0 \/ streams[i].have_cur]
SetStream(i, s) == streams' = [streams EXCEPT ![i] = s]
Calls == PumpRests /\ UNCHANGED <<voices, dma, hw, pump, stale, beeps>>

open(p, step) ==
    LET i == CHOOSE i \in Slots: ~streams[i].in_use /\ \A j \in Slots: j < i => streams[j].in_use
        gen == IF streams[i].gen = 0 THEN 1 ELSE streams[i].gen
    IN  /\ Calls /\ Len(hist) < MaxOpens
        /\ Cardinality({j \in Slots: streams[j].in_use /\ streams[j].owner = p}) < PerProc
        /\ \E j \in Slots: ~streams[j].in_use
        /\ SetStream(i, [EMPTY_STREAM EXCEPT !.in_use = TRUE, !.gen = gen, !.owner = p, !.step = step,
                                             !.tag = Len(hist) + 1])
        /\ hist' = Append(hist, [sent |-> 0, last |-> 0, reps |-> 0, rate |-> step, cut |-> FALSE, ok |-> TRUE])
        /\ held' = [held EXCEPT ![p] = @ \cup {[slot |-> i, gen |-> gen]}]

Smaller(a, b) == IF a < b THEN a ELSE b

write(p, h, n) ==
    LET s == streams[h.slot]
        sent == hist[s.tag].sent
        take == Smaller(n, Capacity - s.count)
    IN  /\ Calls /\ lookup(p, h) /\ take > 0
        /\ FoldLeft(LAMBDA sum, r: sum + r.sent, n, hist) <= MaxFrames
        /\ SetStream(h.slot, push(s, [k \in 1 .. take |-> <<s.tag, sent + k>>]))
        /\ hist' = [hist EXCEPT ![s.tag].sent = @ + take]
        /\ UNCHANGED held

close(p, h, abort) ==
    LET s == streams[h.slot]
    IN  /\ Calls /\ lookup(p, h)
        /\ IF abort \/ (s.count = 0 /\ ~s.have_cur) \/ s.paused
             THEN SetStream(h.slot, free_stream(s)) /\ Cut(h.slot)
             ELSE SetStream(h.slot, [s EXCEPT !.closing = TRUE]) /\ UNCHANGED hist
        /\ UNCHANGED held

set_paused(p, h, paused) ==
    /\ Calls /\ lookup(p, h)
    /\ SetStream(h.slot, [streams[h.slot] EXCEPT !.paused = paused])
    /\ UNCHANGED <<held, hist>>

flush(p, h) ==
    /\ Calls /\ lookup(p, h)
    /\ SetStream(h.slot, [streams[h.slot] EXCEPT !.read = 0, !.count = 0, !.have_cur = FALSE, !.phase = 0,
                                                 !.cur = NoToken, !.ring = EMPTY_STREAM.ring])
    /\ Cut(h.slot)
    /\ UNCHANGED held

process_exit(p) ==
    /\ Calls /\ held[p] # {}
    /\ streams' = [i \in Slots |-> IF streams[i].in_use /\ streams[i].owner = p THEN free_stream(streams[i])
                                   ELSE streams[i]]
    /\ hist' = [t \in DOMAIN hist |->
                  [hist[t] EXCEPT !.cut = @ \/ \E i \in Slots: streams[i].in_use /\ streams[i].owner = p
                                                              /\ streams[i].tag = t]]
    /\ held' = [held EXCEPT ![p] = {}]

beep ==
    LET free == {v \in DOMAIN voices: voices[v] = 0}
        v == IF free = {} THEN 1 ELSE CHOOSE v \in free: \A w \in free: v <= w
    IN  /\ PumpRests /\ beeps < MaxBeeps
        /\ voices' = [voices EXCEPT ![v] = BeepFrames]
        /\ beeps' = beeps + 1
        /\ UNCHANGED <<streams, dma, hw, pump, held, hist, stale>>

MxInit ==
    /\ streams = [i \in Slots |-> EMPTY_STREAM] /\ voices = <<0, 0>>
    /\ dma = [running |-> FALSE, write_idx |-> 0, queued |-> 0, last_civ |-> 0]
    /\ hw = [on |-> FALSE, halted |-> TRUE, civ |-> 0, lvi |-> 0, buf |-> [i \in Ring |-> Silence],
             fresh |-> [i \in Ring |-> FALSE]]
    /\ pump = [at |-> "idle", active |-> FALSE, passed |-> FALSE]
    /\ held = [p \in Pids |-> {}] /\ hist = <<>> /\ stale = FALSE /\ beeps = 0

MxNext ==
    \/ CardPlays
    \/ PumpCiv \/ PumpRunning \/ PumpFill \/ PumpSetLvi \/ PumpStart
    \/ beep
    \/ \E p \in Pids:
         \/ \E step \in Steps: open(p, step)
         \/ process_exit(p)
         \/ \E h \in held[p]:
              \/ \E n \in 1 .. Capacity: write(p, h, n)
              \/ \E b \in BOOLEAN: close(p, h, b) \/ set_paused(p, h, b)
              \/ flush(p, h)

MxSpec == MxInit /\ [][MxNext]_mxVars

----------------------------------------------------------------------------
(* The tokens of stream t on their way to the card.                        *)
OnTheWay(t) ==
    LET queued == UNION {UNION Range(hw.buf[i]): i \in {j \in Ring: hw.fresh[j]}}
        waiting == UNION {{streams[i].cur} \cup Range(streams[i].ring): i \in Slots}
    IN  {k \in 1 .. MaxFrames: <<t, k>> \in queued \cup waiting}

\* The card hears what was written, with no gaps and no stale periods: however ticks are
\* late and the engine runs dry, resumes or restarts, it never plays a descriptor that
\* holds nothing new, the frames of a stream are heard in the order they were written,
\* each as often as its rate asks for and no more, and a frame that was accepted is heard
\* or still on its way unless the program discarded it (mixer.rs, pump and mix_block).
HeardAsWritten ==
    /\ ~stale
    /\ \A t \in DOMAIN hist:
         /\ hist[t].ok /\ hist[t].reps * hist[t].rate <= Unit
         /\ hist[t].cut \/ 1 .. hist[t].sent = (1 .. hist[t].last) \cup OnTheWay(t)
=============================================================================
