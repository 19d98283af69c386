------------------------------- MODULE Audio --------------------------------
(***************************************************************************)
(* Sound output (dev/ac97.c, fs/dev/dev_audio.c): programs write frames    *)
(* into the ring of a client, the mixer thread resamples and mixes the     *)
(* rings into the buffers of the controller, and the interrupt that ends   *)
(* a buffer wakes the mixer.  What a spinlock covers is one step.  A frame *)
(* is the number at which its client took it; the sum of the clients is    *)
(* kept apart by client, and volumes are left out.                         *)
(***************************************************************************)
EXTENDS Integers, FiniteSets, Sequences

CONSTANTS
    Threads,
    Clients,     \* the slots of audio_clients, 1 .. MAX_AUDIO_CLIENTS
    CAP,         \* CLIENT_BUFFER_SIZE, in frames
    CHUNK,       \* frames of one buffer of the controller, 4096 in the code
    TEMP,        \* frames of client_temp_buf, 8192 in the code
    SLOTS,       \* buffers of the controller, 32 in the code
    DEPTH,       \* buffers that the mixer keeps queued, 3 in the code
    UNIT,        \* what 48000 Hz is as a step of the phase, 2^32 in the code
    Speeds,      \* the speeds programs ask for, as steps of the phase
    Lens,        \* the lengths of writes
    MAXFRAMES,   \* bound: frames written by the programs
    MAXOPENS,    \* bound: clients opened
    Careful,     \* TRUE: no reset of a client on which another thread sleeps, and no speed above twice 48000
    NONE

VARIABLES
    client,      \* audio_clients
    handle,      \* fs_handle of the file a thread uses; a file may be shared
    call,        \* what a thread is doing: nothing, or a call on its handle
    sem,         \* count of mixer_sem
    mixer,       \* the mixer thread
    filled,      \* the buffers that the mixer has filled and that have not been played, in order
    hw,          \* the PCM out channel of the controller
    due,         \* for each client, the next position of its stream to be played, in units
    wrong,       \* what was mixed or played is not what came next
    opens,
    given        \* frames that programs have asked to write

vars == <<client, handle, call, sem, mixer, filled, hw, due, wrong, opens, given>>

Closed == [active |-> FALSE, speed |-> UNIT, ring |-> [i \in 0 .. CAP - 1 |-> 0],
           write_pos |-> 0, read_pos |-> 0, count |-> 0, phase |-> 0, wrote |-> 0]
Idle == [op |-> "none", left |-> 0, at |-> "none"]
Stopped == [run |-> FALSE, halted |-> TRUE, civ |-> 0, lvi |-> 0, irq |-> FALSE]

ac97_init ==
    /\ client = [c \in Clients |-> Closed]
    /\ sem = 0
    /\ mixer = [at |-> "wait", active |-> FALSE, c |-> 0, drained |-> FALSE,
                write_idx |-> 0]
    /\ filled = <<>>
    /\ hw = Stopped

Init ==
    /\ ac97_init
    /\ handle = [t \in Threads |-> NONE]
    /\ call = [t \in Threads |-> Idle]
    /\ due = [c \in Clients |-> 0]
    /\ wrong = FALSE
    /\ opens = 0
    /\ given = 0

-----------------------------------------------------------------------------
\* Programs.

Users(c) == {t \in Threads : handle[t] = c}

\* wait_queue_wake_all on the queue of a client: those who sleep go round their loop.
Woken(cl, c, queue) ==
    [t \in Threads |-> IF handle[t] = c /\ cl[t].at = queue
                         THEN [cl[t] EXCEPT !.at = "loop"] ELSE cl[t]]

\* mixer_lock is held while the mixer goes through the clients.
mixer_lock == mixer.at = "wake" \/ (mixer.at = "mix" /\ mixer.c \in Clients \ {1})

ac97_open_client(t) ==
    /\ call[t].op = "none" /\ handle[t] = NONE
    /\ ~mixer_lock
    /\ opens < MAXOPENS
    /\ \E c \in Clients :
        /\ ~client[c].active
        /\ \A b \in 1 .. c - 1 : client[b].active
        /\ client' = [client EXCEPT ![c] = [Closed EXCEPT !.active = TRUE]]
        /\ handle' = [handle EXCEPT ![t] = c]
        /\ due' = [due EXCEPT ![c] = 0]
    /\ opens' = opens + 1
    /\ UNCHANGED <<call, sem, mixer, filled, hw, wrong, given>>

\* The file is inherited by another thread of control.
Inherit(t, u) ==
    /\ call[t].op = "none" /\ handle[t] # NONE /\ handle[u] = NONE
    /\ handle' = [handle EXCEPT ![u] = handle[t]]
    /\ UNCHANGED <<client, call, sem, mixer, filled, hw, due, wrong, opens, given>>

\* The last close of the file closes the client.
ac97_close_client(t) ==
    /\ call[t].op = "none" /\ handle[t] # NONE
    /\ handle' = [handle EXCEPT ![t] = NONE]
    /\ IF Users(handle[t]) = {t}
         THEN /\ ~mixer_lock
              /\ client' = [client EXCEPT ![handle[t]].active = FALSE, ![handle[t]].count = 0]
         ELSE UNCHANGED client
    /\ UNCHANGED <<call, sem, mixer, filled, hw, due, wrong, opens, given>>

Start(t, op, n) ==
    /\ call[t].op = "none" /\ handle[t] # NONE
    /\ given + n <= MAXFRAMES
    /\ given' = given + n
    /\ call' = [call EXCEPT ![t] = [op |-> op, left |-> n, at |-> "loop"]]
    /\ UNCHANGED <<client, handle, sem, mixer, filled, hw, due, wrong, opens>>

\* The positions of n frames from pos on, round the ring.
Run(pos, n) == {(pos + i) % CAP : i \in 0 .. n - 1}

Free(k) == CAP - k.count

\* Copy n frames into the ring.
Taken(k, n) ==
    [k EXCEPT !.ring = [i \in 0 .. CAP - 1 |->
                            IF i \in Run(k.write_pos, n)
                              THEN k.wrote + 1 + ((i - k.write_pos + CAP) % CAP) ELSE k.ring[i]],
              !.write_pos = (k.write_pos + n) % CAP,
              !.count = @ + n,
              !.wrote = @ + n]

ac97_write(t) ==
    LET c == handle[t]
        n == IF call[t].left < Free(client[c]) THEN call[t].left ELSE Free(client[c])
    IN
    /\ call[t].op = "write" /\ call[t].at = "loop"
    /\ IF call[t].left = 0
         THEN call' = [call EXCEPT ![t] = Idle] /\ UNCHANGED client
         ELSE IF n = 0
         THEN call' = [call EXCEPT ![t].at = "write_waitq"] /\ UNCHANGED client
         ELSE /\ client' = [client EXCEPT ![c] = Taken(@, n)]
              /\ call' = [call EXCEPT ![t].left = @ - n, ![t].at = "signal"]
    /\ UNCHANGED <<handle, sem, mixer, filled, hw, due, wrong, opens, given>>

\* sem_signal: the mixer, if it sleeps, goes round its loop.
sem_signal ==
    /\ sem' = sem + 1
    /\ mixer' = [mixer EXCEPT !.at = IF @ = "asleep" THEN "wait" ELSE @]

Written(t) ==
    /\ call[t].at = "signal"
    /\ sem_signal
    /\ call' = [call EXCEPT ![t].at = "loop"]
    /\ UNCHANGED <<client, handle, filled, hw, due, wrong, opens, given>>

ac97_sync(t) ==
    /\ call[t].op = "sync" /\ call[t].at = "loop"
    /\ call' = [call EXCEPT ![t] = IF client[handle[t]].count = 0 THEN Idle
                                   ELSE [@ EXCEPT !.at = "sync_waitq"]]
    /\ UNCHANGED <<client, handle, sem, mixer, filled, hw, due, wrong, opens, given>>

ac97_reset(t) ==
    LET c == handle[t] IN
    /\ call[t].op = "none" /\ c # NONE
    /\ Careful => \A u \in Users(c) \ {t} : call[u].op = "none"
    /\ client' = [client EXCEPT ![c].write_pos = 0, ![c].read_pos = 0, ![c].count = 0,
                                ![c].phase = 0]
    /\ due' = [due EXCEPT ![c] = client[c].wrote * UNIT]
    /\ UNCHANGED <<handle, call, sem, mixer, filled, hw, wrong, opens, given>>

ac97_speed(t, speed) ==
    LET c == handle[t] IN
    /\ call[t].op = "none" /\ c # NONE
    /\ Careful => speed <= 2 * UNIT
    /\ client' = [client EXCEPT ![c].speed = speed]
    /\ UNCHANGED <<handle, call, sem, mixer, filled, hw, due, wrong, opens, given>>

-----------------------------------------------------------------------------
\* The controller.

Distance == (hw.lvi - hw.civ + SLOTS) % SLOTS
is_dma_active == hw.run /\ ~hw.halted

\* The buffers that the controller has still to play.
Queued == IF is_dma_active THEN {(hw.civ + i) % SLOTS : i \in 0 .. Distance} ELSE {}

\* A buffer has been played: an interrupt, and the next buffer unless this was the last.
Played ==
    /\ is_dma_active
    /\ hw' = [hw EXCEPT !.irq = TRUE,
                        !.halted = hw.civ = hw.lvi,
                        !.civ = IF hw.civ = hw.lvi THEN @ ELSE (@ + 1) % SLOTS]
    /\ filled' = IF filled = <<>> THEN filled ELSE Tail(filled)
    /\ wrong' = (wrong \/ filled = <<>> \/ hw.civ # Head(filled))
    /\ UNCHANGED <<client, handle, call, sem, mixer, due, opens, given>>

ac97_handler ==
    /\ hw.irq
    /\ hw' = [hw EXCEPT !.irq = FALSE]
    /\ sem_signal
    /\ UNCHANGED <<client, handle, call, filled, due, wrong, opens, given>>

\* The last valid entry is moved on: a channel that had come to a halt at the
\* old one goes on with the next.
Advanced(h, idx) ==
    [h EXCEPT !.lvi = idx,
              !.halted = FALSE,
              !.civ = IF h.halted THEN (@ + 1) % SLOTS ELSE @]

-----------------------------------------------------------------------------
\* The mixer thread.

sem_wait ==
    /\ mixer.at = "wait"
    /\ IF sem > 0
         THEN sem' = sem - 1 /\ mixer' = [mixer EXCEPT !.at = "queue"]
         ELSE mixer' = [mixer EXCEPT !.at = "asleep"] /\ UNCHANGED sem
    /\ UNCHANGED <<client, handle, call, filled, hw, due, wrong, opens, given>>

QueueFull == is_dma_active /\ Distance + 1 >= DEPTH

\* Mutant: the buffer to fill next is the same after a reset.
KeepsIndex(idx) == idx

NextIndex(idx) == IF is_dma_active THEN idx ELSE 0

\* Look at the channel; one that has stopped is reset.
CheckQueue ==
    /\ mixer.at = "queue"
    /\ mixer' = IF QueueFull THEN [mixer EXCEPT !.at = "wait"]
                ELSE [mixer EXCEPT !.at = "any", !.active = is_dma_active,
                                   !.write_idx = NextIndex(@)]
    /\ hw' = IF is_dma_active THEN hw ELSE [Stopped EXCEPT !.irq = hw.irq]
    /\ wrong' = (wrong \/ (~is_dma_active /\ filled # <<>>))
    /\ UNCHANGED <<client, handle, call, sem, filled, due, opens, given>>

CheckData ==
    /\ mixer.at = "any"
    /\ mixer' = IF \E c \in Clients : client[c].active /\ client[c].count > 0
                  THEN [mixer EXCEPT !.at = "mix", !.c = 1]
                  ELSE [mixer EXCEPT !.at = "wait"]
    /\ UNCHANGED <<client, handle, call, sem, filled, hw, due, wrong, opens, given>>

Least(a, b) == IF a < b THEN a ELSE b

Step(k) == IF k.speed <= 0 THEN UNIT ELSE k.speed

EndPhase(k) == k.phase + CHUNK * Step(k)

FramesToCopy(k) == Least(Least(EndPhase(k) \div UNIT + 2, TEMP), k.count)

\* The frames that the mixer reads from the ring, at whose end it wraps.
Temp(k, i) == k.ring[(k.read_pos + i) % CAP]

\* Output i: the source frame, the one it is interpolated with, and how far.
Output(k, i) ==
    LET src == k.phase + i * Step(k)
        idx == src \div UNIT
        n == FramesToCopy(k) IN
    IF idx + 1 < n THEN <<Temp(k, idx), Temp(k, idx + 1), src % UNIT>>
    ELSE IF idx < n THEN <<Temp(k, idx), Temp(k, idx), src % UNIT>>
    ELSE <<0, 0, 0>>

\* Mutant: the fraction of the last step is forgotten at the end of each buffer.
WholeFrames(k) ==
    LET used == Least(EndPhase(k) \div UNIT, k.count) IN
    [k EXCEPT !.read_pos = (@ + used) % CAP, !.count = @ - used, !.phase = 0]

\* The frames that are used up leave the ring; the fraction stays as the phase.
Consumed(k) ==
    LET used == Least(EndPhase(k) \div UNIT, k.count) IN
    [k EXCEPT !.read_pos = (@ + used) % CAP,
              !.count = @ - used,
              !.phase = IF used = k.count \/ used < EndPhase(k) \div UNIT THEN 0
                        ELSE EndPhase(k) - used * UNIT]

\* What output i of client c has to be: position due + i * speed of all that
\* the client wrote, nothing after the last frame.
Expected(c, i) ==
    LET pos == due[c] + i * Step(client[c])
        f == pos \div UNIT + 1
        last == client[c].wrote IN
    IF f < last THEN <<f, f + 1, pos % UNIT>>
    ELSE IF f = last THEN <<f, f, pos % UNIT>>
    ELSE <<0, 0, 0>>

\* One client of the loop over the clients.
MixClient ==
    LET c == mixer.c
        k == client[c]
        out == [i \in 0 .. CHUNK - 1 |-> Output(k, i)]
        next == Least(due[c] + CHUNK * Step(k), k.wrote * UNIT) IN
    /\ mixer.at = "mix" /\ c \in Clients
    /\ IF k.active /\ k.count > 0
         THEN /\ mixer' = [mixer EXCEPT !.at = "wake",
                                        !.drained = Consumed(k).count = 0]
              /\ client' = [client EXCEPT ![c] = Consumed(k)]
              /\ due' = [due EXCEPT ![c] = next]
              /\ wrong' = (wrong \/ \E i \in 0 .. CHUNK - 1 : out[i] # Expected(c, i))
         ELSE mixer' = [mixer EXCEPT !.c = c + 1] /\ UNCHANGED <<client, due, wrong>>
    /\ UNCHANGED <<handle, call, sem, filled, hw, opens, given>>

\* Mutant: only those who wait for the end are woken.
WakesSync(cl, c, drained) == IF drained THEN Woken(cl, c, "sync_waitq") ELSE cl

\* After the lock of the client is released: those who wait for it to be
\* empty, when it is, and those who wait for space.
Wakes(cl, c, drained) ==
    Woken(IF drained THEN Woken(cl, c, "sync_waitq") ELSE cl, c, "write_waitq")

WakeClient ==
    /\ mixer.at = "wake"
    /\ call' = Wakes(call, mixer.c, mixer.drained)
    /\ mixer' = [mixer EXCEPT !.at = "mix", !.c = @ + 1]
    /\ UNCHANGED <<client, handle, sem, filled, hw, due, wrong, opens, given>>

FillBuffer ==
    /\ mixer.at = "mix" /\ mixer.c \notin Clients
    /\ filled' = Append(filled, mixer.write_idx)
    /\ mixer' = [mixer EXCEPT !.at = "submit", !.c = 0, !.drained = FALSE]
    /\ UNCHANGED <<client, handle, call, sem, hw, due, wrong, opens, given>>

SubmitBuffer ==
    /\ mixer.at = "submit"
    /\ hw' = IF mixer.active THEN Advanced(hw, mixer.write_idx)
             ELSE [hw EXCEPT !.lvi = 0, !.run = TRUE, !.halted = FALSE]
    /\ mixer' = [mixer EXCEPT !.at = "queue", !.write_idx = (@ + 1) % SLOTS]
    /\ UNCHANGED <<client, handle, call, sem, filled, due, wrong, opens, given>>

Mixer == sem_wait \/ CheckQueue \/ CheckData \/ MixClient \/ WakeClient \/ FillBuffer \/ SubmitBuffer

Next ==
    \/ \E t \in Threads :
        \/ ac97_open_client(t) \/ ac97_close_client(t)
        \/ \E u \in Threads : Inherit(t, u)
        \/ \E n \in Lens : Start(t, "write", n)
        \/ Start(t, "sync", 0)
        \/ ac97_write(t) \/ Written(t) \/ ac97_sync(t) \/ ac97_reset(t)
        \/ \E speed \in Speeds : ac97_speed(t, speed)
    \/ Played \/ ac97_handler
    \/ Mixer

Spec == Init /\ [][Next]_vars

-----------------------------------------------------------------------------
\* What is mixed of each client is the next part of what the client was given,
\* at its speed, nothing skipped or repeated where rings wrap and buffers meet
\* (the ring arithmetic and the phase of ac97_mixer_thread); and the mixer
\* never fills a buffer that the controller has still to play.
StreamsExact ==
    /\ ~wrong
    /\ (mixer.at = "submit" \/ (mixer.at = "mix" /\ mixer.c \notin Clients)) =>
            mixer.write_idx \notin Queued

\* The mixer does not sleep on data that nothing will wake it for: with frames
\* waiting, the channel plays, an interrupt is pending or a writer has yet to
\* signal.
MixerAwake ==
    (mixer.at = "asleep" /\ \E c \in Clients : client[c].active /\ client[c].count > 0) =>
        \/ is_dma_active \/ hw.irq
        \/ \E t \in Threads : call[t].at = "signal"

\* A thread that sleeps has something to wait for: frames in the ring that
\* the mixer will take, or a mixer that is about to wake it.
SleepersServed ==
    \A t \in Threads :
        \/ call[t].at \notin {"write_waitq", "sync_waitq"}
        \/ client[handle[t]].count > 0
        \/ mixer.at = "wake" /\ mixer.c = handle[t]

SoundServed == StreamsExact /\ MixerAwake /\ SleepersServed
=============================================================================
