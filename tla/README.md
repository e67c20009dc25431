# videoenc in TLA+

`videoenc` reads raw pictures from a V4L2 camera or from its standard input,
has them encoded to H.264 by the Allwinner encoder library, and writes coded
and raw streams to any number of outputs.  This directory models its threads,
queues and buffers, checks them with TLC and proves the safety properties with
TLAPS.  Line numbers refer to the files under `src/`.

Contents: [parts of the system](#1-the-system), [what is hard](#2-what-is-hard),
[modules](#3-modules), [runs](#4-runs), [fairness](#5-fairness),
[proofs](#6-proofs), [what the code does otherwise](#7-where-the-code-disagrees-with-its-words),
[what is left out](#8-what-is-not-modelled), [plan](#9-plan).

## 1. The system

One process, 2 + n threads for n outputs, no state on disk:

```
 camera driver --> CameraThread --\                       /--> StreamWriterThread --> file or FIFO
                                   > g_inFIFO --> encoder_thread --> StreamWriterThread --> ...
 standard input --> file_thread --/      (process_in_buffer, write_bitstream)
          main(): opens, starts, waits for the end, stops, releases
```

| component | state | operations | interacts by |
|---|---|---|---|
| ring buffer, `SimpleFIFO.h` | slots, count, two cursors | `enqueue`, `dequeue`, `peek`, `flush`, `count` | called under the lock of its owner |
| output writer, `out_writer.*` | `m_qFree`, `m_qReady`, `m_end`, `m_fd`, 20 buffers | `openStream`, `begin`, `pushBuffer`, `pushHeader`, `end`, destructor, `threadLoop` | `m_mutex`, `m_cond`; `m_end` and one `count()` without the mutex |
| camera thread, `CameraSource.c` 41-87 | `isStart`, the driver's buffers | `CameraThread`, `returnFrame`, `CameraSourceCallback` | callback into `videoenc.cpp`, `CameraCtx->lock`, `g_mutex`, `g_cond` |
| pipe thread, `videoenc.cpp` 165-216 | one input buffer, position in the input | `file_thread`, `read_file_data` | `g_mutex`, `g_cond`, `mstart` without a lock |
| encoder thread, `videoenc.cpp` 401-450 | one input buffer | `encoder_thread`, `process_in_buffer`, `write_bitstream` | `g_mutex`, `g_cond`, encoder library, writers |
| `main()`, `videoenc.cpp` 453-686 | options, `writers`, `venc_cxt` | open, start, wait, stop, release | `mstart` without a lock, `g_mutex`, `g_cond`, `pthread_join` |
| encoder library (binary) | four input buffers, output buffer | `GetOneAllocInputBuffer`, `VideoEncodeOneFrame`, ... | calls |
| camera device, `CameraSource.c`, `camera.c`, `V4L2.c` | device, format, mapped buffers | `startcamera`, `stopcamera`, `returnFrame` and what they call | `ioctl`, `mmap`, the camera thread |
| command line, `cliOptions.*` | `g_options` | `processCmdLineOptions` | called once; `main()` derives all sizes from it |
| pixel conversion, `videoenc.cpp` 87-150 | none | `yu12_nv12`, `v4lconvert_yuyv_to_yuv420` | never called |
| watermark, `watermark/` | icons, pointers into two planes, brightness of regions | `waterMarkInit`, `waterMarkShowTime`, `watermark_blending`, `waterMarkExit` | compiled, not called as `WATERMARK` is not defined |
| V4L2 image controls, `V4L2.c` 465-690 | none | one `ioctl` each | never called but for the frame rate |
| scripts, `Makefile` | none | restart the program | processes |

What makes each of them correct:

- **Ring buffer.** It is a bounded first-in first-out queue, wherever the
  cursors are: they are reduced modulo the size *before* use and advanced
  after, so each of them rests at 0 and at `size`.
- **Output writer.** A buffer is in one place at a time; what is written is what
  was queued, in order; a frame loses its tail, never its head alone; the thread
  never sleeps on work; the destructor frees everything and only when the
  thread is gone.
- **Sources and encoder thread.** Each of the encoder's buffers is in one place
  and comes back on every early return; camera buffers go back to the driver;
  frames are encoded once and in the order of capture; nothing is encoded that
  came in part; the encoder thread never sleeps on a queued frame.
- **Pipe thread.** A picture is one stretch of the input however `read()` cuts
  it up; pictures are neither skipped nor repeated; the end of the input, and
  nothing else, stops the program.
- **Camera device.** The device is open when the context says so; what it fills
  is mapped, however far the start came; the flag that the callback reads is
  final before there is a thread and fits the pictures; the camera delivers what
  the encoder was told it gets; a stop leaves nothing behind and comes back.
- **Command line.** The last readable argument of each option counts in any
  order of the options; the sizes that are computed in five places agree.
- **Watermark.** The pointers are where line and column say; nothing outside of
  the picture is written and nothing outside of the icon read; what is shown
  reads as the time; no sum wraps in its byte.
- **main().** What other threads use is released only after they are over; the
  program ends when its time is over or the input ends.
- **Encoded output.** A coded stream begins with the header, a repeated header
  stands before a key frame and comes again and again, raw and coded outputs are
  never mixed, and nothing but failed fetches fills the encoder's output.

## 2. What is hard

`PROJECT.json` lists every hazard with its line and the properties that watch
it.  The main ones:

- *Unlocked accesses.* `m_end` and the signal in `end()`, `m_qFree.count()` in
  `pushBuffer()`, `mstart` in all threads, which `main()` clears after it has
  signalled.
- *One `if` around `pthread_cond_wait`* in both loops, where POSIX allows
  spurious wakeups.
- *Buffers that travel.* Four input buffers, eight camera buffers and twenty
  buffers for each output, over early returns, refused queues and partial reads.
- *Order of release.* `main()` leaves by `fail_out` with none, one or both of
  the other threads running, and never stops the source.
- *Failures nobody looks at.* `pthread_create`, `read()`, `write()`,
  `GetOneBitstreamFrame`, and every `ioctl` of `startCamera`: what comes after them runs on whatever state is left.
- *State that outlives a stop.* The addresses and the number of the camera's
  buffers, the flag `isYUYV`.
- *Limits.* No free output buffer, or one only when two regions are to be
  queued; one static counter that serves all outputs.

Nothing is persisted and no messages cross a network, so there is no recovery,
loss or duplication to model besides the buffers that an output drops.

## 3. Modules

Pure definitions and abstract specifications:

| module | content |
|---|---|
| `FIFOQueue` | the operators of `SimpleFIFO` on a sequence: `Enqueue`, `Elements`, `Distinct` |
| `BoundedFIFO` | abstract specification: a bounded queue that refuses when full |
| `OutputChannel` | abstract specification: a bounded, ordered channel that may refuse a segment, never a tail without its head |
| `PictureStream` | abstract specification: the pictures of the input, each once and in order, until it ends |

Models of the code:

| module | of | refines |
|---|---|---|
| `SimpleFIFO` | `SimpleFIFO.h` | `BoundedFIFO` |
| `StreamWriter` | `out_writer.cpp/.h`, one output | `OutputChannel` |
| `PipelineState` | the shared state of `videoenc.cpp` and the common end of the two sources | |
| `CameraThread`, `FileThread`, `EncoderThread`, `MainThread` | one thread each; they EXTEND `PipelineState` | |
| `CapturePipeline` | the composition of the four | |
| `PipeReader` | `read_file_data()` and `file_thread()`, byte by byte | `PictureStream` |
| `CameraDevice` | `startcamera()` and `stopcamera()` down to each `ioctl`, and the frames that `CameraThread()` takes and gives back | |
| `BitstreamOutput` | opening of the outputs, `process_in_buffer`'s raw pushes, `write_bitstream`, `pushHeader` over all outputs | |
| `CommandLine` | `processCmdLineOptions()`, and `main()` up to its threads | |
| `WaterMark` | `water_mark.c` | |

`MCCommandLine` and `MCWaterMark` hold the values of constants that a `.cfg`
cannot write down.  `MCSingleThreaded` puts `SimpleFIFO` and `CommandLine` side by
side for one run: the initial state says which of them runs, and the other one
stands still.  (That is why the ring's own are called `FIFOInit`, `FIFONext` and
`FIFOSpec`.)

How they fit: `SimpleFIFO` is shown to be `BoundedFIFO`, whose operations are
the operators of `FIFOQueue`; `StreamWriter` and `CapturePipeline` use those
operators for `m_qFree`, `m_qReady` and `g_inFIFO`.  `StreamWriter` is shown to
be `OutputChannel`; `BitstreamOutput` has one such channel for every output, of
which it keeps the number of free buffers and the last segment.
`CapturePipeline` takes the start of the camera as one step that leaves the
first `given` buffers with the driver, for any `given`; `BuffersAccounted` of
`CameraDevice` is why these are the first ones and why there may be fewer than
were asked for, or none.  `FileRead` of `FileThread` brings the next picture,
or a part of it, or the end, in one step; that `PipeReader` is a
`PictureStream` is why the next picture is what it brings.  `CommandLine` ends
where `MainThread` begins; its `SizesAgree` is why `PipeReader` may compute
`input_size` and its parts from one width and height, and why a raw picture
fits an output's buffer.

### Steps

A step is what no other thread can see the inside of: a critical section, a
library call, or one access to unlocked shared data.

- **`pthread_cond_wait`** is two steps: it releases the mutex and blocks (with
  the test before it), and it returns with the mutex held.  `Signal` moves a
  waiting thread to `wake`; `SpuriousWakeup` does so at any time.
- **Unlocked data.** `m_end`, `mstart` and `m_qFree.count()` are read and
  written in steps of their own.  All of these variables are plain `int`s, and
  opaque calls in each loop keep the compiler from caching them in a register,
  so each read sees some value that was current at that moment.
- **StreamWriter.** `client` is whoever calls the public functions (`main()`,
  then the encoder thread, then `main()` again after the join); `writer` is
  `threadLoop()`.  `PushCheck` is the test without the mutex, `PushLock`,
  `PushFirst` and `PushSecond` the critical section, where the mutex is a
  variable because the push is more than one step.  `mem` is what each buffer
  holds, `accepted` and `written` are histories.
- **CapturePipeline.** `enc`, `src` and `main` say where each thread is;
  `pool`, `inFIFO`, `srcBuf`, `encBuf` where each input buffer is; `driver` and
  `camBuf` the camera's buffers.  A source that calls the encoder after its
  release, or dereferences the cleared `CameraDevice`, goes to `crashed`, and
  the behaviour ends there: nothing the code says tells what comes after it.
- **PipeReader.** Each call of `read()` is a step, with any number of bytes, -1
  or 0 for its result.  A byte is its place in the input, so a buffer shows from
  where in the input each of its bytes came.  `torn` and `errors` are histories.
- **CameraDevice.** `pc` is the call of `startcamera()` or `stopcamera()` that the
  client is in, `thread` the place of `CameraThread()`; `handle`, `offered`,
  `format`, `allocated`, `queued` and `streaming` are the device's own state, the
  variables with an `m` those of `V4L2_CONTEXT`.  `mapped` and `stale` tell the
  addresses in `mMapMem.mem` that are good from those that were unmapped.  Each
  call has a disjunct for its failure, and the next call is made all the same.
  `i` is the variable of the loops over the buffers, the one of `v4l2QueryBuf`
  ending in the middle when one of its three calls fails.  The client may
  start again after every stop.
- **CommandLine.** One step for each option that `getopt_long()` finds; the
  command line itself is chosen at the start.  An argument is what `atoi()`,
  `sscanf()` and the loop over the commas get out of it, an unreadable size
  therefore a list of fewer than two numbers.
- **WaterMark.** One step for each line that is measured, pixel that is converted
  or blended, and end of a line or icon.  A pointer is a distance from the start of its
  plane; pixels are not kept, but each step computes what it stores from every
  combination of sample bytes.
- **BitstreamOutput.** `at` is the index of the loop over the writers, `pc` the
  place in it, `backlog` the frames in the encoder's output buffer, `missed` (a
  history) how many times fetching one failed.  A failed fetch leaves the frame
  where it is (264-267), and the oldest frame is the next one to be fetched.
  `Drain` is the thread of any output.

Definitions with a suffix such as `enqueue_OffByOne` are faulty variants of the
operation before the underscore.  Each is a plausible slip; replacing the
operation by it makes TLC violate the property that is said to guard it
(`PROJECT.json`, "mutants"), which shows that the property can fail.

## 4. Runs

Each `.cfg` begins with the name of its module where the table does not name one.

| run (`.cfg`) | checks | distinct states |
|---|---|---|
| `SingleThreaded` (module `MCSingleThreaded`) | `CursorsAgree`, `QueueSpec` of `SimpleFIFO`; `OptionsAgree`, `SizesAgree` of `CommandLine` | 972 + 76,012 |
| `CommandLineHelp` (module `MCCommandLine`) | `QualityAsHelpSays` is violated | |
| `StreamWriter` | `BufferOwnership`, `NoLostWakeup`, `CheckedDequeue`, `TeardownSafe`, `NoLeak`, `ChannelSpec`, `Drained`, `EndReturnsUnlessMissed` | 197,653 |
| `StreamWriterEnd` | `EndReturns` is violated | |
| `CapturePipeline` | `InputBufferOwnership`, `CameraBufferOwnership`, `EnqueueFits`, `NoLostFrameWakeup`, `EncodedInOrder`, `RawIsEncoded`, `EncoderQuiesced`, `QueuedIsEncoded`, `EndOfInputStops`, `StopUnlessAsleep` | 391,978 |
| `CapturePipelineStop` | `DurationEnds` is violated | |
| `BitstreamOutput` | `FormatsApart`, `HeaderFirst`, `HeaderBeforeKey`, `HeaderRepeats` | 148,691 |
| `BitstreamOutputHeader` | `EveryOutputGetsHeader` is violated | |
| `CameraDevice` | `FramesAreMapped`, `BuffersAccounted`, `FlagIsSettled`, `ConversionFits`, `NothingStays`, `UnmapsItsOwn`, `StopReturns` | 139,340 |
| `CameraDeviceFormat` | `EncoderGetsPlanar` is violated | |
| `PipeReader` | `PictureIntact`, `StreamSpec`, `InputEnds` | 21,605 |
| `WaterMark` (module `MCWaterMark`) | `PointersAgree`, `StampInside`, `TimeIsShown`, `BytesFit` | 57,402 |

The type invariants are not in the runs: the proofs of section 6 have them for
all values of the constants.

What the passing runs show:

- **SingleThreaded**, the ring.  Every sequence of calls on three slots and three
  elements behaves as a queue, `flush()` at every position of the cursors included.
- **SingleThreaded**, the command line.  Every command line of up to three
  arguments out of twenty-four: options twice and in either order, both sizes,
  numbers missing, zero, several lists, nothing to put out.  `OptionsAgree` looks
  at the quality only if it was given, because of section 7.
- **StreamWriter.** Three buffers and four pushes: the buffers run out, in
  front of a push and between its two regions; each buffer is used twice; the
  end comes while the thread is anywhere.  `pthread_create` and `write()` may
  fail.  Under the fairness of section 5 what is queued gets written without a
  further push, and `end()` returns unless the thread missed its signal.
- **CapturePipeline.** Three input buffers and a queue of three, one camera
  buffer, four frames: the pool is empty at times, buffers are reused, the
  encoder thread waits and is woken with nothing there, both sources and both
  ways to `fail_out` are taken, and the camera starts with its buffer or
  without.  As in the program, the queue has at least as
  many places as there are buffers (10 and 4 there).  The queued frame, the end
  of the input and the stop each lead to what they should, under the conditions
  named in the properties.
- **BitstreamOutput.** Two outputs of either kind, two buffers each; `KeyLimit`
  is the code's 5, so the header is repeated.  The encoder's output holds two
  frames, so that one which could not be fetched is left behind while others
  still pass, and two of them stop everything.  While frames keep coming, a
  header is *queued* again and again for at least one coded output, under two
  conditions, both of which are needed: the coded outputs have a free buffer
  when a frame comes to them, and the encoder's output is not full of frames that
  could not be fetched.
- **CameraDevice.** Two buffers asked for on a device that grants one to three:
  fewer, as many or more; the start fails at each call and inside each buffer;
  the device offers any set of the four formats and may have any of them set;
  stops and further starts without end, so that every state that a start or a
  stop can leave is what the next one begins with.
- **PipeReader.** Widths of one to three, heights of two and three, 20 bytes: one
  to six pictures, `read()` cutting them anywhere, two failed calls at any
  place and the end at any byte.  With a height of three and a width above one
  the parts do not add up and no picture is ever queued.
- **WaterMark.** Three icon sizes: even in both directions, odd in both (the
  pointers still agree), and one that is too wide for the row.  Nineteen icons in
  a row, with and without a look at the background, stamp after stamp, any file
  missing.

Deadlock is not checked in the runs of the programs of threads: the
program ends, or, in the two cases of section 7, hangs, and the liveness
properties say which; the same goes for the pipe's reader, the command line and
the watermark, which end; in `CameraDevice` a `pthread_join` without a thread may
hang.  The ring never stops: every one of its operations but `enqueue` on a full
and `dequeue` on an empty queue is always possible.

### Bounds

| constant | in the code | bound | why it is enough |
|---|---|---|---|
| `rawSize` | 10, 20, 2+ | 3 | both cursors wrap independently of each other |
| `QE_SIZE` | 20 | 3, 2, 1 | one buffer with the thread, one ready, one free; the last one taken by a first region |
| `MaxPush` | unbounded | 4, 2 | more regions than buffers |
| `FIFO_SIZE`, `nBufferNum` | 10, 4 | 3, 2, 1 | source, queue and encoder thread hold one each |
| `BUFFER_NUMBER` | 8 | 2 (`CameraDevice`), 1 | one with the callback, one in the driver or lost; the pipeline never looks at more than one |
| `MAX_BUFFER_NUM` | 16 | 3, 1 | the device may grant more than was asked for |
| `MaxFrames` | unbounded | 4, 1 | one more than there are buffers: each is used again, and a queue that is not emptied would be full |
| `KeyLimit` | 5 | 5 | |
| `MaxBacklog` | the library's | 2, 1 | one frame can be left behind while others pass, and a second one stops everything |
| `Widths`, `Heights` | options | 1-3, 2-3 | odd and even ones, luma longer than chroma |
| `MaxBytes` | unbounded | 20 | two pictures and more for every even height |
| `MaxErrors` | unbounded | 2 | two in one part or in different ones |
| `MaxArgs` | unbounded | 3 | an option given again, after another one that depends on it |
| `Numbers`, `Pairs`, `Lists` | unbounded | 2, 3, 2 | a zero, an incomplete pair, an empty name |
| `BgWidth`, `BgHeight` | options | 70, 36 | the smallest width that the row fits into, and four lines for it |
| `IconSizes` | files | 2x2, 1x3, 4x2 | even, odd, too wide |
| `Samples` | 0..255 | 0, 1, 128, 255 | the ends of the byte and its middle |
| `Times` | `localtime()` | 2 | each digit with and without a leading zero, the largest values |

The proofs of section 6 hold for every value of these constants.

## 5. Fairness

- **Threads are scheduled**: weak fairness of the steps of each thread.  No
  thread is entitled to a spurious wakeup.
- **`write()` returns** (`StreamWriter`): an output is a file or a FIFO that
  somebody reads.  With a FIFO nobody reads, `end()` waits for as long as that
  lasts.
- **`select()` times out** (`CameraThread`, two seconds), so the camera's thread
  never blocks for good.  `read()` may, while the pipe is open and silent; the
  fairness of `FileRuns` excludes that step unless the input has ended.  In
  `PipeReader` each `read()` comes back; its only liveness property starts from
  an input that has ended, when it does.
- **`stopcamera()`**, once called, goes on (`CameraDevice`); nobody has to call it.
- **The client need not call again**: of its steps only those inside a call
  that was begun are fair.  `Drained` therefore says that what was queued is
  written without another push.
- **`main()`** leaves its loop some time after the condition became false; it
  looks once a second.
- **Frames and key frames recur** (`BitstreamOutput`): strong fairness of a
  successful encode, where the encoder's output has room for it, and of a fetch
  that brings a key frame.  `main()` sets `nMaxKeyInterval`, and the encoder
  keeps it.  A fetch may fail any number of times in between.  The threads of the
  outputs are under no fairness: that an output keeps up is a hypothesis of
  `HeaderRepeats` (`KeepsUp`), as fairness of `Drain` would let a buffer come back
  and be used up again before each header.

## 6. Proofs

Component `X` has its proofs in `X_proofs`, for every value of the constants
that satisfies its one assumption (the sizes are positive natural numbers; the
bounds natural numbers; the arguments of a command line are numbers and names;
samples are bytes; times are what `localtime()` gives, in years of four digits).
Each proof is a stack of inductive layers, each of which uses the ones below.

**SimpleFIFO_proofs.** `RingInv` is `TypeOK /\ CursorsAgree`; it is inductive.
`RingImplementsQueue` maps the ring to the sequence `Contents` that starts at
`nextOut` and has `numberOfElements` elements, and needs that two different
offsets below the size hit different slots.

The proofs of `StreamWriter` and of `CapturePipeline` both begin with the same
five lemmas about the operators of `FIFOQueue`: what `Enqueue`, `Tail` and `Append`
do to the elements of a sequence and to `Distinct`.

**StreamWriter_proofs.**

1. `Typed`: the types, and `myBuf` is a buffer where the thread works on one.
   `CheckedDequeue` belongs here: only the client takes from `m_qFree`.
2. `Locking`: the mutex is held exactly in the states of a critical section;
   with it, the thread waits on a filled `m_qReady` only while the client still
   has its signal to give.
3. `Placed`: the queues are disjoint and without repetition, and
   the lengths with `HandSize` add up to `QE_SIZE`.  The sum is what shows that
   no `Enqueue` is ever refused.
4. `Lifecycle`: nothing is freed before the thread is over.
5. `Regions`: the last segment of `accepted` is the first region of the call
   that is about to queue its second one.
6. `Carried`: what `accepted` has and `written` has not is in the
   buffers of `m_qReady` and the thread's hands, in that order.  `OutputInOrder`
   follows.
7. `Numbered`: the calls are numbered upwards in `accepted`; with all the others
   it gives `WriterImplementsChannel`.

**CapturePipeline_proofs.**

1. `Phases`: where a thread can be while the others are where they are;
   `EncoderIsQuiesced` follows.
2. `Typed`: the types and who has a buffer in its hands.
3. the encoder thread's wait: `NoFrameWakeupIsLost`.
4. the camera's buffers: `CameraBuffersOwned`.
5. `Placed`: the input buffers, with their number, so that `QueueTakesEveryFrame`
   follows by counting: the source holds one, so at most `nBufferNum - 1` are in
   the queue.
6. `Ordered`: what was encoded, what the encoder thread has taken, what is in
   `g_inFIFO` and what the source is about to queue are one line of frames that
   increases, and none of them is above the number of frames that the source has
   begun.  `EncodedInOrder` alone says nothing of the frames on their way, so it
   is not inductive.  `Placed` is what keeps the line whole: a source fills
   a buffer that is in no other place.  `FramesInOrder` follows.
7. `Shown`: between the encoding and the raw outputs there is one raw picture less
   than frames encoded, and the buffer in the encoder thread's hands still has the
   frame that was encoded last; everywhere else there are as many of both.
   `RawShowsEncoded` follows.

**BitstreamOutput_proofs.** `Typed` (types, the counter, and by place how many
frames the encoder's output holds besides the missed ones: `OnlyMissedFramesStay`), `Opened` (what each output shows by its kind and whether
it was opened: `FormatsStayApart`, `StreamsBeginWithHeader`), `HeaderPending` (a
header that is the last segment means that the loop is at the key frame behind
it or no other frame has come: `HeadersPrecedeKeyFrames`).

**CameraDevice_proofs.**

1. `TypedInvariant`: `TypeOK` with `Phases`, which says what is settled while the
   client is at which call, above all that no thread is alive outside of
   `running` and `join`.
2. `HandleInv`: `HandleAgrees`.
3. `BuffersAccounted`, by the loop's range, which grows by one.
4. `MapInv`: the buffers below `given` are mapped while there is a thread or a
   start that may create one; the loop of the stop has unmapped those below `i`;
   what is mapped lies below `mBufferCnt`, so that the loop reaches it.
   `FramesAreMapped`, `NothingStays` and `UnmapsItsOwn` follow.
5. `Settled`: YUYV is agreed on only when it is offered, and an accepted format
   is what the device delivers, from which the flag and the conversion follow.

**PipeReader_proofs.**

1. `Typed`.
2. `Counted`: how much of a part was read, how much of the input is gone, and what
   the sum in `size` tells of the end of the input.
3. `Filled`: what was taken for this picture ends at `taken` without a hole, if no
   `read()` failed in it; the parts of the buffer are two stretches of the input,
   one behind the other.  `PicturesIntact` follows.
4. `Placed`: as long as no `read()` failed the picture begins at a multiple of its
   size, which says what its number is; `PicturesInOrder` then maps each step to
   the next picture, the end, or nothing (`PictureStream`).

Both theorems assume `Tall`, that no picture has one row only.  The attempt without
it fails, for a reason in the code: with one row (and more than one column)
`input_size` is the size of the luma, so that a picture without its chroma is
queued.  `PictureIntact` is then violated, as TLC confirms with a height of one.

**CommandLine_proofs.**

1. `Typed`, with `ArgvOK` for the arguments.
2. `Parsed`: while the options are read, `g_options` holds what the arguments before
   `optind` say, where `Says` is that the value is the default and no argument
   fits, or that of the last one that does.
3. `Settled`: after the end of the options it holds what all of them say, with the
   size of the output filled in.  `LastOptionsCount` follows.
4. `Sized`: `config` has the values that `g_options` gives.  `SizesOfPictureAgree`
   follows by arithmetic.

`Named`, the names of all lists, is a recursive function.  That it has a value and
that it does not change behind the last argument is an induction over the command
line.  The induction theorems of the library take an operator and cannot be used
here; instead, `LeastNumber` (a set of natural numbers has a least one, from the
well-foundedness of `<`) gives the first place where the claim fails, and
there is none before it.

**WaterMark_proofs.**

1. `EveryByteFits` needs no layer: each stored value is bounded by what is stored
   (`ConversionFits`, `BlendFits`), with `256 - a` and `a` as weights of a byte and
   of at most 256.
2. `Typed`, and `Walk`: where each pointer is at *every* step of the loops.
   `PointersAgree` says it for chroma on even lines only and is not inductive;
   `ChromaLines` and `ChromaColumn` say what a pointer into chroma holds on odd
   lines and at the ends of lines.  `PointersKeepUp` follows.
3. `Shows`: the row is that of a time in `Times`, and all icons are loaded.  What
   the row reads (`RowReads`) is arithmetic on quotients and remainders by ten, a
   hundred and a thousand, and the places of a sequence put together of eleven.
   `TimeReads` follows.
4. `StampStaysInside` from `Walk` and `Shows`: a column of a line lies in its plane
   (`InsideLuma`), in half the plane for chroma (`InsideChroma`), and the row
   begins at an even place of it (`EvenProduct`).  The two hypotheses are part of
   the property: icons of even size, and a row that fits.

The type invariants and `InOrder`, `NoOrphanRegion`, `FramesAccounted` and
`HandleAgrees` are in no run, as they are proved and other properties rest on
them.

Only model-checked: the liveness properties (TLAPS proves nothing about
fairness).

## 7. Where the code disagrees with its words

Each is a run whose single property TLC violates; `PROJECT.json` has the quoted
lines.

- **`end()` may not return** (`StreamWriterEnd`).  The thread reads `m_end` as
  false, `end()` sets it and signals, the thread waits.  Nobody signals again.
  `EndReturnsUnlessMissed` shows that this order is the only one.
- **The program may not end at its time** (`CapturePipelineStop`).  `main()`
  signals before it clears `mstart`; the encoder thread wakes in between, finds
  no frame and `mstart` set, and waits again.  While the source delivers frames
  the next one wakes it; a silent source does not.  `StopUnlessAsleep` shows
  that the stop goes through in every other case.
- **The repeated header** (`BitstreamOutputHeader`) is promised to the outputs
  "for each 50 frames", but one counter serves all of them, and with two coded
  outputs it always passes its limit at the second: the first never gets the
  header again, though both keep up and no fetch fails.  `HeaderRepeats` shows that
  headers are queued for one of the coded outputs again and again, so for a
  single one, if the coded outputs have a free buffer when a frame comes
  and failed fetches do not fill the encoder's output.  Without a free buffer
  `pushBuffer()` drops the header, and the counter starts again all the same.
- **A YUYV camera's pictures are not planar** (`CameraDeviceFormat`).  They are
  converted to NV12, whose chroma is interleaved, and the encoder is told
  `VENC_PIXEL_YUV420P`, as the `README` of the program requires it.
- **The default quality** (`CommandLineHelp`) is 20 and 30 in the help
  (`cliOptions.cpp:72`), and 15 and 30 in `default_options` (40-41).  `OptionsAgree`
  shows that a quality that is given reaches the encoder.

Weaknesses with no run of their own:

- A frame that could not be fetched stays in the encoder's output (`videoenc.cpp:264`).
  The frames behind it come late from then on, and once as many fetches have failed
  as the output holds frames, every encoding fails, `write_bitstream` is not
  called any more (311-313), and the coded outputs end for good.
  `OnlyMissedFramesStay` shows that nothing else can fill it.
- `end()` joins when `threadid` is not 0.  POSIX leaves `threadid` undefined when
  `pthread_create` fails; the model takes it to stay 0.
- "stop camera" (664) does not: the calls behind the comment are commented out,
  and the source's thread runs on while the encoder is released (`crashed`).
- `strncpy` copies no terminating 0 (`V4L2.c:77`), so a device name shorter than
  `/dev/video0` keeps its tail.
- Width and height are read back only when `VIDIOC_S_FMT` succeeds.  When it fails,
  `main()` compares the size that it asked for with itself.
- A stop after a start that broke off in its loop unmaps addresses of the stop
  before once more, if the device was started before; `UnmapsItsOwn` excludes it.
- If `pthread_create` failed, `stopcamera()` joins a thread that there never was.
- A failed `read()` takes one off the count, so that a byte is overwritten by the
  next one; the picture is accepted if the total comes out right.
  `PictureIntact` excludes such pictures.
- A picture of one row passes for a whole one when its chroma is missing (section
  6); the runs and the proofs of `PipeReader` take more than one row.
- With an odd height (and more than one column) no picture of the pipe has the
  size that is expected, and a raw picture is larger than an output's buffer;
  `SizesAgree` excludes it.
- The example in the help (`cliOptions.cpp:74`) has a comma and a space between the
  names.  As a shell splits it, the argument of `-o` is the first name and a comma,
  which makes an output without a name that cannot be opened.
- `waterMarkShowTime` compares the width of the row with the picture, not where
  the row begins, and no height at all; `StampInside` asks for a row that fits.
  With icons of odd height there is more chroma than their buffer is sized for.

## 8. What is not modelled

- **The encoder library and the driver** beyond their buffers: both are
  binaries.  They are assumed to hand out the buffers they were given.
  `CapturePipeline` lets the driver take each buffer back; in `CameraDevice` it may
  refuse, and the buffer is lost.
- **The device of `CameraDevice`** is assumed to grant at most `MAX_BUFFER_NUM`
  buffers (the code does not look, and `mem` has that many places), to list each
  format among its first twelve, and to put one that it offers in the place of
  one that it does not.  `select()` on a descriptor of 0 or -1 is taken to bring
  no frame.
- **Memory.** `malloc` and `new` succeed; device names fit in their array.
- **Device name, size and frame rate** of the camera (see section 7), and
  `DestroyCamera`, which only frees memory.
- **Numbers of the command line** that are negative or do not fit an `int`, and what
  `getopt_long()` makes of its own syntax.
- **Icons of different sizes**: the code sizes its buffer by the first one.
  What the icon files hold besides their pixels.
- **Contents.** A picture is a number, and `Partial` for one that came in part;
  a region is the number of its call and its place.
- **Time.** Sleeps and timeouts are steps that may come at any time.
- **A pushed buffer that is never written because the process dies**: no handler
  is ever installed (the `sigaction` structure at 642-644 is filled and not used),
  so a signal ends the process at once.
- **`main()` after `file_thread` has ended early.**  `main()` sets `mstart` again
  at 634; if `file_thread` was over by then nobody would clear it.  The thread
  sleeps a second before its next test, in which `main()` gets past 634, so
  `EndOfInputStops` excludes that order.  It is reachable in the model.
- **Pixel conversion** (87-150): never called; what matters is the layout that
  arrives, which `CameraDevice` has.
- **V4L2 image controls, constant encoder parameters, scripts**: assignments and
  single calls without control flow of their own.

## 9. Plan

Done, in this order: `SimpleFIFO` with `BoundedFIFO`, `StreamWriter` with
`OutputChannel`, the pipeline of threads, `BitstreamOutput`, `CameraDevice`, and
their proofs; then `PipeReader` with `PictureStream`, `CommandLine`, `WaterMark`;
then the order and the contents of the frames in `CapturePipeline`, and the proofs
of `PipeReader`, `CommandLine` and `WaterMark`.

Next, in order of weight:

1. That the outputs of `BitstreamOutput` are channels.
2. `PixelConversion`, should the program come to call it: index arithmetic over
   small pictures against a reference definition.
