# dsss-transfer in TLA+

A verification project for dsss-transfer, a C library and program that send
data over software defined radios with direct sequence spread spectrum. Paths
below are those of the repository (`src/src/dsss-transfer.c` is the library,
`src/src/main.c` the program); line numbers without a path are lines of
`src/src/dsss-transfer.c`.

## The system

| Part | State it keeps | Operations | What makes it correct |
|---|---|---|---|
| Sending: `send_frames`, `send_dummy_samples`, `send_to_radio`, `read_data` (lines 101-532) | position in the source, frame counter, samples of the current frame, resampler, samples not yet written, what the radio has accepted, the dump | read a payload, send a block of a frame, send zeros, write to the radio, complete the burst, wait for the end of the burst | what was read is on the air, in order and whole; data does not wait for more data; a stop ends it in any phase, without a hole in the signal; it ends after the data |
| Receiving: `receive_frames`, `receive_from_radio`, `frame_received` (lines 301-357, 534-667) | resampler, frame open in the synchronizer, time of the last frame, the dump | test the flags, read a block, test the timeout, process a block, deliver a frame, flush | only undamaged frames with the right id are delivered, once, in order; every such frame that was read is; the timeout comes, and never early; stops and the end of the input end it |
| Life of a transfer: `dsss_transfer_create*`, `_start`, `_stop`, `_stop_all`, `_free` (lines 669-1100) | what the handle holds, its flag, the flag common to all | each of the calls | a handle is complete, its release is exact, transfers of a process do not disturb each other |
| liquid-dsp objects: frame generator, frame synchronizer, resampler; `dsssframegen.c`, `dsssframesync.c` add constructors that take a spreading factor | frames and filters in progress | assemble/write, execute, reset | external: modelled from their use |
| Radios: SoapySDR, a file, standard input/output | samples accepted or pending | `writeStream`, `readStream`, `readStreamStatus`, `fwrite`, `fread` | external: partial writes, short reads, overflows, timeouts |
| Header codec: `set_counter`, `get_counter` (lines 359-370) | none | encode, decode | round trip on 32 bits; different ids and counters give different headers |
| Derived parameters (lines 403-423, 583-596, 722-771) | none | sample rate, payload size, block and buffer sizes from the options | within their bounds; no block is empty |
| Program: `main.c` | how far it has come | parse, install signal handlers, create, start, wait, free, exit | a signal stops it wherever it comes; every failure ends it |
| `examples/echo-server.c` | one buffer with its size, `stop_loop`, the message in progress | receive a message, reverse it, send it; send, receive the answer | the answer is the reverse of what was heard; no mix of messages; a signal ends the server |
| `examples/full-duplex.c` | two transfers, two threads | create, start the threads, join, free | nothing is freed while it is used; a stop ends both |
| Listings, translations, build files, example scripts | none | | not modelled |

How they interact. `dsss_transfer_start()` runs `send_frames()` or
`receive_frames()` in the thread of the caller until it is over. The sender
*calls* the data callback for payloads and hands blocks of samples to the
resampler, then to the radio. The receiver hands blocks to the resampler and
to the synchronizer, which *calls back* `frame_received()` in the middle of a
block, which calls the data callback. Signal handlers, other threads and
callbacks set `stop` (all transfers) or `transfer->stop` at any moment; the
loops poll both. There is no lock, no queue and no thread of the library's
own: the concurrency is that of the flags, of the radio, of the processes at
the ends of pipes, and of the transfers of one process on the common flag. The radio of the echo server is
half-duplex: its processes meet through frames that reach whoever listens.

What is hard: a stop between any two steps (before the start, within a write,
within the final burst, during the flush); writes that are accepted in part;
filters that hold the end of a frame back; sources that are empty for a moment
and sources that are at their end; reads that return less than a block, or
block; a clock of whole seconds against frames that arrive in the middle of a
block; resampling ratios that make blocks of no samples; creations that fail
half-way; several transfers on one flag; signals in a process that is not
in a transfer yet, or between two of them. `PROJECT.json` lists each with its
line under `hazards`.

## Modules

| Module | Models | Composes |
|---|---|---|
| `Samples` | samples, frames, headers and the resampler, as the rest uses them | |
| `SamplesProofs` | lemmas about sequences, division, flattening, resampling ratios and the resampler of `Samples` | `Samples` |
| `SendFrames` | the sending thread, its radio, its source, stops | `Samples` |
| `SendFramesProofs` | theorems about `SendFrames` | `SendFrames`, `SamplesProofs` |
| `ReceiveFrames` | the receiving thread, its radio, the clock, stops | `Samples` |
| `Reception` | a receiver, and a medium with frames for several receivers, noise and losses; the properties of reception | `ReceiveFrames` |
| `ReceptionMC` | contents of the medium for TLC | `Reception` |
| `ReceptionProofs` | theorems about `Reception` | `Reception`, `SamplesProofs` |
| `FrameDelivery` | abstract specification: a reliable FIFO of payloads that completes or is cut | |
| `Program` | `main()` around the transfer of a process | |
| `DataLink` | two processes joined by a pipe | two instances of `Program`, one of `SendFrames`, one of `ReceiveFrames`, on the same `Samples`; refines `FrameDelivery` |
| `LinkProofs` | theorems about `DataLink`, among them the refinement | `DataLink`, `SamplesProofs` |
| `Transfers` | handles of a process: creation, start, stops, release | |
| `TransfersMC` | parameters of creations for TLC | `Transfers` |
| `TransfersProofs` | theorems about `Transfers` | `Transfers` |
| `FullDuplex` | `full-duplex.c`: `main()`, two threads, signals | `Transfers` |
| `FullDuplexProofs` | theorems about `FullDuplex`, among them that it uses the library as `Transfers` allows | `FullDuplex`, `TransfersProofs` |
| `EchoServer` | `echo-server.c`: a server and clients on a frequency | |
| `EchoServerMC` | messages for TLC | `EchoServer` |
| `EchoServerProofs` | theorems about `EchoServer` | `EchoServer` |
| `HeaderCodec` | the bytes of a header | |
| `Parameters` | sizes derived from the options | |
| `OperatorProofs` | theorems about the two | `HeaderCodec`, `Parameters` |

### Samples

A sample is compared and never computed with, so it is a value: `Zero`,
`Noise`, or `<<header, payload, k>>`, the k-th sample of the frame that carries
`payload`. A frame has `HeaderLen` samples, then one for each unit of its
payload. The resampler is a delay line of `Delay` samples followed by a change
of rate `Interpolation / Decimation` with its phase: output sample *j* is a
copy of input sample `Position(phase, j)`. That keeps what the control flow
depends on: a block of *n* samples gives a number of samples that varies from
call to call, possibly none, and the end of a frame comes out only after
`Delay` more. Amplitudes, the oscillator and the audio converter change values
and not their number (audio doubles it, for the radio alone) and are left out.
The header is the pair of the id and the number of the frame, which
`HeaderInjective` of `OperatorProofs` justifies.

### SendFrames

`pc` follows the C control flow: `created` (before `dsss_transfer_start`),
`read` (the `while` of line 452 and the data callback), `frame` (the loop on
`frame_complete`), `dummy` (`send_dummy_samples`), and, for SoapySDR, `write`
(246-262), `burst` (271-285), `status` (286-298), then `done`. An action is
what happens between two places where another actor can be seen: the flags are
read in `LeaveLoop`, `WriteStream`, `WriteDone`, `WriteBurst`, `BurstDone` and
`ReadStreamStatus` only, which is where the code reads them. `Transmit` is what
`SendBlock` and `SendDummy` share: resample, then `SendToRadio`, which dumps
the samples and either gives them to a file at once or starts the write loop.
After a stop the write loop drops what it has not written (`WriteDone`), while
the frame goes on being generated, as in the code. The data is 1, 2, ...,
`DataSize`; `Produce` and `CloseSource` are the process at the other end of
standard input, which is non-blocking (line 995), and `ReadPayload` sets `eof`
as `fread()` does, when it asks for more than is left. A write that the radio
does not accept changes nothing and is a stutter. The counter wraps at
`CounterValues`. `SamplesSize` is the room in the
buffer of samples (line 423).
`air`, `sent` are histories.

### ReceiveFrames and Reception

`loop` is the test of the flags, `read` the call of `receive_from_radio()` with
the tests of lines 625-638, `feed` the samples of a block going through the
synchronizer one by one, `flush` and `last` what follows the loop. A SoapySDR
radio returns any number of samples up to a block, none included; `fread()`
waits for a whole block or the end. `SamplesSize`, the block that is asked
for, is derived from that of the frame samples and rounded down (line 596), at
any ratio. `FlushFits` says that the output of the flush (line 655), `Delay`
samples times the ratio, fits in the buffer of a block and a delay (line 598);
it is not an assumption, and `TypeOK` has it as the premise of the bound of
`pending` in the flush alone. The synchronizer opens a frame on its first
sample, or on noise that looks like one; a sample that is not the expected one
damages the frame; a damaged header closes it at once, a damaged payload when
it has been counted to its end. `FrameReceived` is lines 534-579: it resets the
timeout for any frame, and delivers on a valid header, a valid payload and the
right id. The callback may stop the transfer: `StopTransfer` is enabled in
every state. `Tick` advances a clock that `time()` rounds down to
`TicksPerSecond` ticks; `quiet` is the exact time since the last frame.

`Reception` puts a medium in front: the frames of a script and noise, added
between samples or in place of them; `Overflow` loses samples.

### Program, DataLink and FrameDelivery

`Program` is `main()`: the options, which may be refused, before the signal
handlers are installed (a signal then kills the process); the creation, which
may fail; the transfer; the final delay, which a signal interrupts; the exit.
The transfer itself is `pc`, of another module.

`DataLink` is `dsss-transfer -t -r io | dsss-transfer -r io`, as
`tests/test-program.sh` does through a file: two programs, each around its
transfer. What the sender makes (`air`) first goes into the buffer of its
standard output; `Written` is what is in the pipe: whole buffers, and the rest
when the process *exits*, neither when the transfer is over nor when it is
freed. The pipe is closed for the receiver when the sender has ended in any
way. A sender whose buffer is written to a pipe without reader is killed by
SIGPIPE, in the transfer or at its exit. Signals come to either at any moment.
The sender makes `Interpolation` samples of the radio of `Decimation` samples of
the frames, and the receiver, whose ratio is the inverse, takes them back; each
has its own delay (`Delay`, `ReceiverDelay`). The radio is at least as fast as
the frames. The ratio need not be whole: an output of the model's resampler is a
copy of one of the two input samples around it, where liquid-dsp computes a
value in between, so that at a ratio like 3/2 the samples that the receiver gets back
depend on where its delay falls between two of them. `LinkAssumption` asks that
it falls so that each sample of a frame comes out once
(`(ReceiverDelay * Decimation) % Interpolation >= Decimation - 1`), which for a
whole ratio says nothing. That is a limit of the abstraction of the values,
not a condition of the code.
The refinement mapping takes the payloads put into frames as `sent`, the ones
given to the callback as `got`, and the return of the receiver as `complete`,
or `cut` if its loop saw a stop. `ImplementsDelivery` says that every step of
the two processes is a step of the FIFO or leaves it alone; a receiver can be
`complete` only with everything that was sent, or that a stopped, killed or
failed sender let through.

### Transfers

A handle goes through the tests of `dsss_transfer_create_callback()` in their
order, each with the error return it has in the code, which gives up the
structure and, in one place, the radio. Opening the dump, the radio, the
stream or the file may fail; a radio that refuses a setting ends the process
(`SOAPYSDR_CHECK`). `held` is what belongs to the handle, `std` the standard
streams of the process, which `dsss_transfer_free()` closes when they are the
data file. A running transfer only tests the flags or ends by itself; several
may run, each in its thread. `GeneratorAccepts` and `SynchronizerAccepts` are
the tests of the constructors in `dsssframegen.c` and `dsssframesync.c`.

### FullDuplex

`main` is the place in `main()` of `full-duplex.c`; the transfers are those of
`Transfers` with the parameters of the example. A thread calls
`dsss_transfer_start()` when it is scheduled, at any time after
`pthread_create()`; only the uplink ends by itself, with its data. `GiveUp` and
what follows is the error path of lines 129-133. A signal kills the process
until its handler is installed (`Handled`), the three being installed one after
the other.

### EchoServer

Each process is at a place of `server()` or `client()`, of `receive_1()` or of
`transmit()`. `data` has the bytes of the buffer, `size` and `done` are those of
`message_s`: `Copied` writes over the beginning of a buffer that keeps the rest
of the previous message, and `done` counts what is sent or received. A frame is
heard by some of the stations that listen (a station whose callback has been
called does not hear another frame: at 100 b/s a frame header lasts more than
half a second and the flags are tested every 50 ms), and the callback sets
`stop`; `StartTransfer` clears it, while `stop_loop` stays. A creation may fail:
`receive_1()` and `transmit()` return at once. What a client does after a
signal is in the model although the example does not promise anything about it.

### HeaderCodec and Parameters

Operators without state. `ToInt` is the conversion that shifting a byte by 24
in an `int` amounts to, `ToUnsigned` the one of the result. `Parameters` has the
expressions of `dsss_transfer_create_callback()`, `send_frames()` and
`receive_frames()` as integer arithmetic, floating-point roundings excepted.

## What is checked

`tlc -workers 2 -config <run>.cfg <module>`; the constants are in the `.cfg`.

| Run | Instance | Shows |
|---|---|---|
| `SendRadio` | SoapySDR, 3 units of data in payloads of at most 2 from standard input, 3 samples out for 2, blocks of 2, buffer of 3, counter modulo 2: 34 thousand states | `TypeOK`, in which what the resampler gives fits in its buffer; `StreamIntact`: the radio has accepted a prefix of what was made for it, all but the rest of the current buffer before a stop; `CompleteOnReturn`: every frame, with its number, is on the air in one piece from its first sample to its last on return, unless stopped; `StopInterrupts`; `ReadGoesOut`: what was read goes out while the source is silent; `EndsWithSource` |
| `RecvRadio` | SoapySDR, three frames (own, foreign, own), headers of 2 samples, a sample of noise and a lost sample anywhere, any short read: 604 thousand states | `TypeOK`; `DeliveredInOrder`: nothing damaged, foreign, repeated or overtaken; `HeardIsDelivered`: every own frame that was read whole is delivered, the filters being flushed (with headers of 2 samples this says something only where there was neither noise nor loss; with noise it is the question of `RecvTimeout`, whose headers have 1); `StopInterrupts` |
| `RecvTimeout` | SoapySDR, 2 samples in for 1, timeout of 1 s, half-second ticks, a frame, noise that shifts the phase: 683 thousand states | `DeliveredInOrder`; `TimeoutNotEarly`: a full timeout passes since the last frame although `time()` is rounded; `TimeoutEndsReception`; `HeardIsDelivered` when the timeout is what ends the reception |
| `Link` | pipe, 3 units of data, payloads of 2, 3 samples out for 2 and back, blocks of 2, a standard output buffer of 2 samples, underruns, failures, signals to both: 207 thousand states | `ImplementsDelivery`; `RoundTrip`: the data received is the data sent once both have exited; `LinkEnds`: both end after the data whatever fails; `StopPropagates` |
| `Transfers` | two handles, each kind of radio and source and each reason for a refusal: 6 thousand states | `TypeOK`, in which no SoapySDR transfer gets an audio converter; `HandleComplete`, `FreedExactly`: what a handle holds is what its parameters need and what its release gives up; `StopInterrupts`: the start of a transfer does not undo the stop of another; `StopAllHolds` |
| `Echo` | a server, two clients, messages of one and of two frames, one failed creation, signals: 527 thousand states | `TypeOK`; `SendsReverse`: what is sent is the reverse of the *frame* that was last heard, whatever the buffer held (of a message of two frames only one is answered, so it is no statement about messages); `PrintsAnswer`: a client prints one whole frame, its answer or another's, never a mix; `AtMostOneMore` and `SignalEndsServer`: a signal ends the server after at most one more transfer, but for one whose start cleared the flag and that waits |
| `Duplex` | the two directions, every failure, signals: 146 states | `DuplexTypeOK`, in which no thread is given a transfer whose creation failed; `FreedAfterUse`; `StopEndsProcess`; `SuccessReleases` |

The reception from a pipe at its end, behind a decimating resampler, is part of
`Link`.

Why the bounds are enough. A frame longer than a block, a block cut by the end
of a frame, a frame shorter than a block and frames across blocks of the
receiver all occur (frames have 2 to 4 samples, blocks 2 to 4). `Delay` = 2 is
larger than the smallest frame's payload, so that a whole payload can be in the
filter. A ratio of 1/2 shows every phase of a decimating
resampler, one of 3/2 (sending, and in the link with 2/3 back) the blocks whose
output is longer or shorter by a sample with the phase. The frame sizes and
delays at which the flush of a reception above ratio 1 reaches its bound are
left to the theorem. A burst of 3
zeros completed in pieces of 2 leaves a remainder. Two frames for one receiver
give order and repetition, a foreign one in between what must be skipped. One
sample of noise, at any place, damages a header, a payload or the gap, and
shifts the phase; several would only repeat it. `MaxIdle` bounds consecutive
underruns, which change nothing after the first (the filters are empty), and
`elapsed`, `quiet` stop counting beyond the timeout, where their value no
longer matters. `CounterValues` = 2 makes the counter wrap within a transfer.
`StdoutSize` = 2 does not divide what a block of 2 makes at 3/2, nor the whole stream. Two clients give
frames that are not meant for the one that listens; `MaxFailures` = 1 is a
failure anywhere. `Transfers` may stop for good when the process exits, the only
run without the deadlock check among the passing ones.

Fairness. `WF(ThreadStep)`: the thread is scheduled; every SoapySDR call has a
timeout of 10 ms, so that it returns whatever the radio does, and `fwrite()`
returns. A blocked `fread()` is an action that is not enabled. The radio is
never assumed to do anything, except where a property says so with the premise
`RadioWorks` (it goes on accepting samples and reports the underflow after the
last). `WF(Tick)`: time passes. Nothing is assumed of the source, the medium,
other processes or signals. In `Link` and `Echo` each
process is scheduled, in `Duplex` `main()` and each thread; the end of the data of
the uplink, a frame that is heard and a signal are never assumed.

### Disagreements with the documentation

Each is a run that TLC ends with a counterexample.

* `SendLost` — `main()` installs its signal handlers at `main.c:282`, creates the
  transfer, which may take the time to open a radio, and starts it at
  `main.c:307`; the start clears the flag (line 1050) and a signal that came
  in between is lost. A start likewise clears a request for transfers
  of other threads that have not seen it, hence the condition in `StopAllHolds`,
  and the premise of `StopEndsProcess`: the stop of the error path of
  `full-duplex.c:130` is lost if the other thread has not started its transfer,
  and `main()` waits for it for ever.
* `SendDecim` — the final burst is completed in pieces of the size of the last
  output of the resampler. With a ratio below 1 that size may be 0, and the
  loop of lines 271-285 writes nothing for ever (a stop ends it). It takes a
  SoapySDR radio whose sample rate is below that of the frames, which nothing
  refuses; a file or standard output never gets to this loop.
* `RecvIOTimeout` — the timeout is tested after `fread()` returns a block; a
  pipe that stays open and silent is never left. The stop flags, tested before,
  have the same fate.
* `Spreading` — the creation accepts spreading factors above 64, for which the
  frame generator and synchronizer return a NULL that is used.
* `StdClosed` — the release of a transfer closes the standard stream that
  another one, later or concurrent, takes as its data file.

## What is proved

`tlapm <module>.tla` for `SamplesProofs`, `SendFramesProofs`, `ReceptionProofs`,
`LinkProofs`, `TransfersProofs`, `FullDuplexProofs`, `EchoServerProofs` and
`OperatorProofs`. Each theorem is for every value of the constants that satisfies
the assumptions below; no bound of a run is in any of them, except that
`MaxIdle`, `MaxLost`, `MaxNoise` and `MaxFailures` are arbitrary numbers.

### The resampler (`SamplesProofs`)

These are lemmas about the model of liquid-dsp that the code's own results rest
on, and say nothing of the code by themselves. `PositionInBlock`: each output
sample is made of a sample of the block that is given. `ResampleContinues`:
resampling a stream in blocks, the phase carried from each to the next, gives
what resampling it at once gives; this is what makes blocks, short reads and
the cut of a frame into pieces irrelevant in `CompleteOnReturn` and
`DeliveredInOrder`. Both follow from statements about any pair of numbers
(`PositionAtInBlock`, `RatioContinues`), which the link uses for the ratio of
its sender and for that of its receiver. `FilterShifts` says the same of the delay line:
the samples that have come out and those that stay are the ones that went in.

### Sending (`SendFramesProofs`)

From `SamplesAssumption` and `SendAssumption` alone:

* `TypeCorrect`: `Spec => []TypeOK`. `burst`, an `unsigned int` in the code,
  never goes below zero because each piece is at most what is left; the output
  of a block fits in its buffer (`OutputFits`) since a phase is less than a
  sample.
* `StreamAlwaysIntact`: `Spec => []StreamIntact`. Whatever the sizes of the
  partial writes and whenever the stops come, the radio has a prefix of the
  stream.
* `AlwaysComplete`: `Spec => []CompleteOnReturn`. Every frame whose payload was
  read is on the air, in one piece and in order, resampled to its last sample.

The first two follow from `IInv`. `TypeOK` and `StreamIntact` are not inductive:
that nothing is *written* after a hole needs the flags to stay set, which they
do because only `Start`, at `created`, clears them, when nothing was sent. `IInv`
adds where each piece of state is idle: `chunk` is empty outside `write`, a
radio that is a file has `air = dump`, zeros are due in `dummy`.

The third needs `CompleteInv`, of four parts: where the thread is against the
frame in progress (`PlaceInv`); the zeros still to send are, together with those
already in it, as many as the filter holds, and the zeros are the last of it, so
that when none are due the filter holds nothing else (`FlushInv`); the counter is
the number of frames modulo its range, the one in progress excepted
(`CounterInv`); and what was *made*, that is, what is dumped followed by what
would come out of the filter and of the frame in progress, is the frames one
after the other, each at some phase and in one piece (`FramesInv`). Transmitting
a block moves samples from the right end of this sum to its left end and leaves
the sum alone, which is `ResampleContinues`; only reading a payload adds a frame
to it, and only a zero, which the filter turns into zeros, is added in between.

### Reception (`ReceptionProofs`)

From `SamplesAssumption`, `ReceiveAssumption` and `ReceptionAssumption`:

* `TypeCorrect`: `ReceptionSpec => []TypeOK`, at every ratio; what a block gives
  fits in the buffer of line 598 unconditionally, what the flush gives if
  `FlushFits`.
* `FlushAlwaysFits`: `FlushFits` holds when the radio is at least as fast as the
  frames, and for at most twice as many frame samples as radio samples when the
  delay is at most a block. `full-duplex.c` (307200/250000), the audio receiver
  of README:193 (38400/24000) and `tests/test-program.sh:107` (128 MHz for 100)
  are of the second kind. Beyond that, a high ratio with a small block, such as
  a sample rate of a few samples per second, breaks it.
* `AlwaysDeliveredInOrder`: `ReceptionSpec => []DeliveredInOrder`, with noise and
  losses anywhere.
* `AlwaysHeardIsDelivered`: `ReceptionSpec => []HeardIsDelivered`: when the call
  returns, every frame that was read whole has been delivered.
* `NeverEarly`: `ReceptionSpec => TimeoutNotEarly`, an action property.

`ClockInv` relates the three clocks: `elapsed`, in seconds, is at most one more
than the whole seconds in `quiet`, and the fraction decides which, until both
stop counting. For the order, the samples of the script are ordered by their
frame and position (`ScriptInOrder`, by induction over the frames); what is on
the medium, what was read (`MediumInv`) and what went through the resampler
(`ResamplerInv`) keep this order, repetitions and omissions allowed; a frame
that is open and intact in the synchronizer is exactly the last samples taken
(`SyncInv`); and each payload that was delivered was taken whole, before the open
frame began (`DeliveredInv`). Order alone then forbids that a frame is
delivered twice or after a later one.

That nothing is missed needs `HeardInv` besides, of four parts. The first
samples of the frames on the medium are at least the length of the earlier frame
apart, arrived or not, wherever noise replaced or delayed some of them
(`SpacedInv`, from `ScriptSpaced`). Without losses the dump is the beginning of
the medium (`ReadInv`). A frame that is open in the synchronizer, damaged or
not, was opened by its first sample, since no noise can (`OpenInv`). A
frame of which the dump holds the samples read so far is open with
exactly those samples, or delivered (`HeededInv`). The step that matters is the
first sample of a frame: a frame still open then began earlier, and is complete
by `SpacedInv` (`FreeForFrame`). At the return the resampler has given
`(Delay + Len(dump)) \div Decimation` samples, the flush included, which reach
to the last one of the frame (`HeardBegan`); a zero less in the flush and they
would not. The premise `Interpolation = 1` is the script's, which repeats each
sample of a frame `Decimation` times; other ratios of a receiver are those of the
link, without noise.

### The link (`LinkProofs`)

From `SamplesAssumption` and `LinkAssumption`, hence for every ratio p/q of at
least 1 (156.25 = 625/4, the program's default, and 13.02 = 625/48, that of
`tests/test-library-file.c`, are two) and any two delays, but for the condition
on the receiver's when the ratio is not whole:

* `LinkDelivers`: `Spec => ImplementsDelivery`, the refinement of
  `FrameDelivery`. The payloads that are put into frames come out once each and
  in order, whatever the two processes, the signals and the buffer of standard
  output do; a receiver that was not stopped returns with all of them.
* `AlwaysRoundTrip`: `Spec => []RoundTrip`. With both processes exited and no
  stop, the data received is the data, to its last byte.

Both follow from `AlwaysLinkInv`. `LinkInv` says of the sender (`SenderInv`)
where its thread is, that the frames carry what was read, and that each sample
of `air` is a copy of one of those made, its `Cell`, none of which is left out
(`Repeated`). Of the receiver
(`ReceiverInv`): what it has read is the beginning of what is on the air
(`ReadInv`); what its resampler has given, what is in its filter and what waits
for the synchronizer are read off `Input`, the zeros of the empty filter
followed by what was read (`ResamplerInv`); and a receiver that was not stopped
leaves its loop when the sender has ended and everything is read (`EndInv`,
where the buffer that is written at the exit only, and a sender killed by
SIGPIPE, have to be excluded: `Processes`). What joins the two is a position for
each frame, which no variable records and which the invariant therefore
quantifies over: `Laid`, the *stream* of all that the sender has made, on the
air, in its filter or in its frame, is the frames at their places one after the
other, and zeros; and `Followed`, the synchronizer, which has taken `Taken`
samples, is in the frame after those delivered, with all of its samples so far
and none damaged, or before its place. A step of the sender moves samples
within the stream, adds zeros or adds a frame at its end (`Silent`, `NewFrame`),
behind all that was taken (`TakenBound`); a sample that the synchronizer takes
is sample `Taken + 1 - Lag` of the stream (`InputIsStream`), `Lag` being what the
two rates make of the delay of the receiver: choosing one of the samples of `air`
(`Pick`) undoes the copying (`PickCell`), which is where the alignment of the
delay is used. At the return
`Taken` is `Lag + Out`: the zeros of the flush reach to the end of what is on the
air, and what the sender's filter still holds then is zeros (`NothingLeft`).
Hence `Complete` of the abstract specification, and nothing is sent after it,
since the sender has ended (`CompleteIsClosed`).

### The handles and the examples (`TransfersProofs`, `FullDuplexProofs`, `EchoServerProofs`)

For any set of handles and of parameters, `HandlesComplete` and `ReleaseExact`
(`TypeCorrect` beside them): `HandleInv` says what a handle holds at each place
of its creation, error returns included.

For `full-duplex.c`, from `DuplexAssumption`: `DuplexTypeCorrect`,
`SuccessAlwaysReleases`, and `NeverUsedAfterFree`, an action property. The
invariant, `Progress`, says for each place of `main()` which transfers exist,
which threads were created and which have been joined; it reuses `HandleInv`.
`UsesLibrary` is a refinement: every step of the example is a step that
`Transfers` allows to the user of the library, or the end of the process.

For `echo-server.c`, any number of clients and messages of any length:
`EchoTypeCorrect`, `AlwaysSendsReverse`, `AlwaysPrintsAnswer`,
`AlwaysAtMostOneMore`. `StartsInv` bounds the starts by the place of the server and
`stop_loop`; `ServerInv` says what the first `size` bytes of the buffer are at each
place, given that the rest still holds earlier messages; `ClientInv` the same of
a client, and that the bytes sent are pieces of its message.
`RequestReversed` shows that `process_request()` reverses, by induction on its
swaps; the assumption is that a payload is smaller than the buffer, as in the
example (a frame of at most 16 bytes at 100 b/s, a buffer of 1024).

### Headers and parameters (`OperatorProofs`)

From no assumption: `CounterRoundTrip`, for all the 2^32 counters;
`IdBytesInjective`; `HeaderInjective`, that two headers are the same only if id
and counter are. `Digits` writes a counter as its four bytes; the case where the
highest makes an `int` negative is split off, and adding 2^32 back undoes it.

From the ranges of the options alone: `PayloadSizeBounds`; `BuffersNotEmpty`,
which discharges what `SendFrames` and `ReceiveFrames` assume of `PayloadSize`,
`BlockSize` and `FrameSize` for sample rates of at least 20; `SampleRateKept`, from
which rates that follows; `AudioRateOfOne`, a rate for which it does not.

### Assumptions and method

`SendFrames` and `ReceiveFrames` assume nothing of the ratio. `ReceptionAssumption`
takes the frames to have more than one sample, as a header and a payload that
is not empty make. `LinkAssumption` has `Decimation <= Interpolation`, a radio at
least as fast as the frames (a slower one, as in the audio example of
README:193, loses samples of frames in a model that copies them), inverse ratios
on the two sides, and the condition on `ReceiverDelay` explained under
`DataLink`.

Nothing recursive is expanded by the provers. Facts about `FlattenSeq`, and about
the swaps of `process_request()`, are proved by induction with `Induction` and
`SeqInduction`, which state induction for a *set* of numbers or of sequences
(they follow from the least element of a set of naturals) and not for a
predicate; the recursion is then used one step at a time.

### Only model-checked

Liveness, in every module (fairness and ENABLED are beyond the prover): of the
properties of the runs, `StopInterrupts`, `ReadGoesOut`, `EndsWithSource`,
`TimeoutEndsReception`, `LinkEnds`, `StopPropagates`, `StopAllHolds`,
`SignalEndsServer` and `StopEndsProcess`. Every invariant, every action property
and both refinements are proved. The five disagreements are TLC's
counterexamples.

## Not modelled

* Sample values: scaling, frequency shift, audio, 8-bit or float formats; the
  spreading sequences and filters that the constructors of `dsssframegen.c` and
  `dsssframesync.c` make, which only values of samples depend on.
* The values of the options of `main.c`, `get_fec_schemes()` and `-h`; gains and
  frequencies; floating-point rounding in the derived parameters.
* File descriptions: `O_NONBLOCK`, set on standard input (line 995), stays set
  after the transfer, and on a terminal it is shared with standard output.
* What the error returns of the creation leak: it is in `held` of `Transfers`,
  but no documentation says anything against it.
* The delivery of the answer by the echo server: frames may be lost and neither
  side has a timeout. Usage messages.
* The scripts of the examples, listings of radios and codes (output only),
  translations, build files.

## Plan

Done: every component with a state of its own is modelled, and every safety
property that a run checks is a theorem. What could follow: noise and losses on
the link, which `FrameDelivery` would have to allow and `Reception` already has.
