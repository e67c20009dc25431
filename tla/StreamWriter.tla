---------------------------- MODULE StreamWriter ----------------------------
(***************************************************************************)
(* One StreamWriterThread (out_writer.h, out_writer.cpp): a pool of        *)
(* QE_SIZE buffers that travel from the queue m_qFree to the queue m_qReady*)
(* (filled by pushBuffer) and back (by the thread that writes them to the  *)
(* output).                                                                *)
(*                                                                         *)
(* Two threads touch the object.  The "client" is whoever calls its public *)
(* functions: main() while it opens the outputs, then the encoder thread,  *)
(* then, after it has joined that one, main() again; they never overlap,   *)
(* so they are one process here.  The "writer" runs threadLoop().  A step  *)
(* is a critical section of m_mutex, or what a thread does between two of  *)
(* them; pthread_cond_wait releases m_mutex and blocks in one step and may *)
(* return without a signal, as POSIX allows.  The reads that the code does *)
(* without m_mutex (m_qFree.count() in pushBuffer, m_end in threadLoop)    *)
(* are steps of their own and see the value of that moment.                *)
(***************************************************************************)
EXTENDS Naturals, FIFOQueue

CONSTANTS QE_SIZE,  \* how many buffers a writer owns (20 in the code)
          MaxPush   \* bound on the number of calls of pushBuffer

ASSUME SizeAssumption == QE_SIZE \in Nat \ {0} /\ MaxPush \in Nat

Buf == 1..QE_SIZE   \* the buffers that the constructor allocates
NoBuf == 0          \* FIFO_Element(): no buffer

\* What one buffer carries: the first or the second region of a call.
Segment == [call : 1..MaxPush, part : {0, 1}]
NoSegment == [call |-> 0, part |-> 0]     \* a buffer not filled yet
Short == [call |-> 0, part |-> 1]         \* write() failed or was partial

\* The lengths pushBuffer is called with: an empty header, a header, a raw
\* picture or an unwrapped frame, a frame that wraps around the encoder's
\* buffer.  The encoder never leaves the first region alone empty.
Lengths == {<<0, 0>>, <<1, 0>>, <<1, 1>>}

VARIABLES
  client,    \* where the client is
  len,       \* the lengths its current call of pushBuffer got
  npush,     \* how many calls of pushBuffer there were
  writer,    \* where threadLoop() is; "none" when there is no thread
  myBuf,     \* the buffer threadLoop() took
  mutex,     \* the holder of m_mutex
  m_end, m_qFree, m_qReady,
  fdOpen,    \* m_fd # -1
  mem,       \* what each buffer holds
  freed,     \* the buffers given back to free()
  accepted,  \* history: the segments pushBuffer queued
  written    \* history: the segments given to write()

vars == <<client, len, npush, writer, myBuf, mutex, m_end, m_qFree, m_qReady,
          fdOpen, mem, freed, accepted, written>>

history == <<npush, accepted, written>>

ClientState == {"constructed", "failed", "opened", "idle", "lock", "first",
                "second", "signal", "join", "joined", "destroyed"}
WriterState == {"none", "test", "lock", "wait", "wake", "take", "write",
                "return", "exited"}

\* The constructor.
Init ==
  /\ client = "constructed"
  /\ len = <<0, 0>>
  /\ writer = "none"
  /\ myBuf = NoBuf
  /\ mutex = "none"
  /\ m_end = FALSE
  /\ m_qFree = [i \in 1..QE_SIZE |-> i]
  /\ m_qReady = <<>>
  /\ fdOpen = FALSE
  /\ mem = [b \in Buf |-> NoSegment]
  /\ freed = {}
  /\ npush = 0
  /\ accepted = <<>>
  /\ written = <<>>

\* pthread_cond_signal(&m_cond): wakes the writer if it is waiting, and is
\* forgotten if it is not.
Signal == writer' = IF writer = "wait" THEN "wake" ELSE writer

\* memcpy into the oldest free buffer, which becomes the newest ready one.
Fill(part) ==
  LET b == Head(m_qFree)
      segment == [call |-> npush, part |-> part]
  IN /\ m_qFree' = Tail(m_qFree)
     /\ mem' = [mem EXCEPT ![b] = segment]
     /\ m_qReady' = Enqueue(m_qReady, b, QE_SIZE)
     /\ accepted' = Append(accepted, segment)

(***************************************************************************)
(* Faulty variants, which the properties below must tell from the code.    *)
(***************************************************************************)

\* pushBuffer does not test m_qFree.count() before it takes a buffer.
PushCheck_Unchecked ==
  /\ client = "idle"
  /\ npush < MaxPush
  /\ npush' = npush + 1
  /\ len' \in Lengths
  /\ client' = "lock"
  /\ UNCHANGED <<writer, myBuf, mutex, m_end, m_qFree, m_qReady, fdOpen, mem,
                 freed, accepted, written>>

\* pushBuffer signals only after a wrapped frame.
PushSecond_RareSignal ==
  /\ client = "second"
  /\ IF len[2] # 0 /\ m_qFree # <<>>
     THEN Fill(1) /\ Signal
     ELSE UNCHANGED <<m_qFree, m_qReady, mem, accepted, writer>>
  /\ mutex' = "none"
  /\ client' = "idle"
  /\ UNCHANGED <<len, npush, myBuf, m_end, fdOpen, freed, written>>

\* end() signals but does not set m_end.
EndSet_FlagForgotten ==
  /\ client = "idle"
  /\ client' = IF writer = "none" THEN "joined" ELSE "signal"
  /\ UNCHANGED <<len, npush, writer, myBuf, mutex, m_end, m_qFree, m_qReady,
                 fdOpen, mem, freed, accepted, written>>

\* end() does not wait for the thread.
EndJoin_NoJoin ==
  /\ client = "join"
  /\ client' = "joined"
  /\ UNCHANGED <<len, npush, writer, myBuf, mutex, m_end, m_qFree, m_qReady,
                 fdOpen, mem, freed, accepted, written>>

\* The destructor forgets the buffers that are still in m_qReady.
Destroy_ReadyForgotten ==
  /\ client = "joined"
  /\ freed' = freed \cup Elements(m_qFree)
  /\ m_qFree' = <<>>
  /\ m_qReady' = <<>>
  /\ fdOpen' = FALSE
  /\ client' = "destroyed"
  /\ UNCHANGED <<len, npush, writer, myBuf, mutex, m_end, mem, accepted,
                 written>>

\* threadLoop waits without looking at m_qReady first.
WriterLock_Blind ==
  /\ writer = "lock"
  /\ mutex = "none"
  /\ writer' = "wait"
  /\ UNCHANGED <<client, len, npush, myBuf, mutex, m_end, m_qFree, m_qReady,
                 fdOpen, mem, freed, accepted, written>>

\* threadLoop tries again after a failed write().
WriterWrite_Retry ==
  /\ writer = "write"
  /\ \E whole \in BOOLEAN :
       /\ written' = Append(written, IF whole THEN mem[myBuf] ELSE Short)
       /\ writer' = IF whole THEN "return" ELSE "write"
  /\ Len(written) < 2 * MaxPush
  /\ UNCHANGED <<client, len, npush, myBuf, mutex, m_end, m_qFree, m_qReady,
                 fdOpen, mem, freed, accepted>>

\* threadLoop drops the buffer once the end was requested.
WriterReturn_Dropped ==
  /\ writer = "return"
  /\ mutex = "none"
  /\ m_qFree' = IF m_end THEN m_qFree ELSE Enqueue(m_qFree, myBuf, QE_SIZE)
  /\ writer' = "test"
  /\ UNCHANGED <<client, len, npush, myBuf, mutex, m_end, m_qReady, fdOpen,
                 mem, freed, accepted, written>>

(***************************************************************************)
(* The client.                                                             *)
(***************************************************************************)

\* openStream(): main() gives up when the output cannot be opened.
OpenStream ==
  /\ client = "constructed"
  /\ \E ok \in BOOLEAN :
       /\ fdOpen' = ok
       /\ client' = IF ok THEN "opened" ELSE "failed"
  /\ UNCHANGED <<len, writer, myBuf, mutex, m_end, m_qFree, m_qReady, mem,
                 freed, history>>

\* begin(): the result of pthread_create is not looked at.  When it fails,
\* threadid is taken to stay 0, although POSIX leaves it undefined.
Begin ==
  /\ client = "opened"
  /\ m_end' = FALSE
  /\ \E created \in BOOLEAN : writer' = IF created THEN "test" ELSE "none"
  /\ client' = "idle"
  /\ UNCHANGED <<len, myBuf, mutex, m_qFree, m_qReady, fdOpen, mem, freed,
                 history>>

\* pushBuffer() returns at once when there is no free buffer.  It looks
\* without holding m_mutex.
PushCheck ==
  /\ client = "idle"
  /\ npush < MaxPush
  /\ npush' = npush + 1
  /\ len' \in Lengths
  /\ client' = IF m_qFree = <<>> THEN "idle" ELSE "lock"
  /\ UNCHANGED <<writer, myBuf, mutex, m_end, m_qFree, m_qReady, fdOpen, mem,
                 freed, accepted, written>>

PushLock ==
  /\ client = "lock"
  /\ mutex = "none"
  /\ mutex' = "client"
  /\ client' = "first"
  /\ UNCHANGED <<len, writer, myBuf, m_end, m_qFree, m_qReady, fdOpen, mem,
                 freed, history>>

\* The first region is queued without another test of m_qFree.
PushFirst ==
  /\ client = "first"
  /\ IF len[1] # 0
     THEN Fill(0)
     ELSE UNCHANGED <<m_qFree, m_qReady, mem, accepted>>
  /\ client' = "second"
  /\ UNCHANGED <<len, npush, writer, myBuf, mutex, m_end, fdOpen, freed,
                 written>>

\* The second region is dropped when the first one took the last buffer.
\* Then the writer is signalled and m_mutex released.
PushSecond ==
  /\ client = "second"
  /\ IF len[2] # 0 /\ m_qFree # <<>>
     THEN Fill(1)
     ELSE UNCHANGED <<m_qFree, m_qReady, mem, accepted>>
  /\ Signal
  /\ mutex' = "none"
  /\ client' = "idle"
  /\ UNCHANGED <<len, npush, myBuf, m_end, fdOpen, freed, written>>

\* end() sets m_end and signals, both without m_mutex, then joins.
EndSet ==
  /\ client = "idle"
  /\ IF writer = "none"
     THEN client' = "joined" /\ UNCHANGED m_end
     ELSE client' = "signal" /\ m_end' = TRUE
  /\ UNCHANGED <<len, writer, myBuf, mutex, m_qFree, m_qReady, fdOpen, mem,
                 freed, history>>

EndSignal ==
  /\ client = "signal"
  /\ Signal
  /\ client' = "join"
  /\ UNCHANGED <<len, myBuf, mutex, m_end, m_qFree, m_qReady, fdOpen, mem,
                 freed, history>>

EndJoin ==
  /\ client = "join"
  /\ writer = "exited"
  /\ client' = "joined"
  /\ UNCHANGED <<len, writer, myBuf, mutex, m_end, m_qFree, m_qReady, fdOpen,
                 mem, freed, history>>

\* The rest of the destructor: free the buffers of both queues, close m_fd.
Destroy ==
  /\ client = "joined"
  /\ freed' = freed \cup Elements(m_qFree) \cup Elements(m_qReady)
  /\ m_qFree' = <<>>
  /\ m_qReady' = <<>>
  /\ fdOpen' = FALSE
  /\ client' = "destroyed"
  /\ UNCHANGED <<len, writer, myBuf, mutex, m_end, mem, history>>

(***************************************************************************)
(* The writer: threadLoop().                                               *)
(***************************************************************************)

\* while (!m_end), read without m_mutex.
WriterTest ==
  /\ writer = "test"
  /\ writer' = IF m_end THEN "exited" ELSE "lock"
  /\ UNCHANGED <<client, len, myBuf, mutex, m_end, m_qFree, m_qReady, fdOpen,
                 mem, freed, history>>

\* Lock, and wait if there is nothing to write.
WriterLock ==
  /\ writer = "lock"
  /\ mutex = "none"
  /\ IF m_qReady = <<>>
     THEN writer' = "wait" /\ UNCHANGED mutex
     ELSE writer' = "take" /\ mutex' = "writer"
  /\ UNCHANGED <<client, len, myBuf, m_end, m_qFree, m_qReady, fdOpen, mem,
                 freed, history>>

SpuriousWakeup ==
  /\ writer = "wait"
  /\ writer' = "wake"
  /\ UNCHANGED <<client, len, myBuf, mutex, m_end, m_qFree, m_qReady, fdOpen,
                 mem, freed, history>>

\* pthread_cond_wait returns once it holds m_mutex again.
WriterWake ==
  /\ writer = "wake"
  /\ mutex = "none"
  /\ writer' = "take"
  /\ mutex' = "writer"
  /\ UNCHANGED <<client, len, myBuf, m_end, m_qFree, m_qReady, fdOpen, mem,
                 freed, history>>

\* Take the oldest ready buffer, if there still is one, and unlock.
WriterTake ==
  /\ writer = "take"
  /\ IF m_qReady # <<>>
     THEN /\ myBuf' = Head(m_qReady)
          /\ m_qReady' = Tail(m_qReady)
          /\ writer' = "write"
     ELSE /\ writer' = "test"
          /\ UNCHANGED <<myBuf, m_qReady>>
  /\ mutex' = "none"
  /\ UNCHANGED <<client, len, m_end, m_qFree, fdOpen, mem, freed, history>>

\* write(): its result is not looked at, so a failed or partial write is as
\* good as a complete one.
WriterWrite ==
  /\ writer = "write"
  /\ \E whole \in BOOLEAN :
       written' = Append(written, IF whole THEN mem[myBuf] ELSE Short)
  /\ writer' = "return"
  /\ UNCHANGED <<client, len, npush, myBuf, mutex, m_end, m_qFree, m_qReady,
                 fdOpen, mem, freed, accepted>>

\* Lock, give the buffer back, unlock.
WriterReturn ==
  /\ writer = "return"
  /\ mutex = "none"
  /\ m_qFree' = Enqueue(m_qFree, myBuf, QE_SIZE)
  /\ writer' = "test"
  /\ UNCHANGED <<client, len, myBuf, mutex, m_end, m_qReady, fdOpen, mem,
                 freed, history>>

-----------------------------------------------------------------------------
ClientNext ==
  \/ OpenStream \/ Begin
  \/ PushCheck \/ PushLock \/ PushFirst \/ PushSecond
  \/ EndSet \/ EndSignal \/ EndJoin \/ Destroy

WriterRuns ==
  WriterTest \/ WriterLock \/ WriterWake \/ WriterTake \/ WriterWrite
    \/ WriterReturn

Next == ClientNext \/ WriterRuns \/ SpuriousWakeup

Spec == Init /\ [][Next]_vars

(***************************************************************************)
(* Both threads are scheduled, and a call of write() returns (something    *)
(* reads the FIFO behind m_fd, or m_fd is a file).  The client finishes    *)
(* the call it is in but need not make another one, and nobody can count   *)
(* on a spurious wakeup.                                                   *)
(***************************************************************************)
FairSpec ==
  /\ Spec
  /\ WF_vars(WriterRuns)
  /\ WF_vars(PushLock \/ PushFirst \/ PushSecond)
  /\ WF_vars(EndSignal \/ EndJoin \/ Destroy)
-----------------------------------------------------------------------------
(***************************************************************************)
(* Safety.                                                                 *)
(***************************************************************************)

\* The types of the variables.  While threadLoop() works on a buffer it has
\* one: the dequeue after the wait is never made on an empty m_qReady
\* (out_writer.cpp:122-130).
TypeOK ==
  /\ client \in ClientState
  /\ len \in Lengths
  /\ npush \in 0..MaxPush
  /\ writer \in WriterState
  /\ myBuf \in Buf \cup {NoBuf}
  /\ writer \in {"write", "return"} => myBuf # NoBuf
  /\ mutex \in {"none", "client", "writer"}
  /\ m_end \in BOOLEAN
  /\ m_qFree \in Seq(Buf)
  /\ m_qReady \in Seq(Buf)
  /\ fdOpen \in BOOLEAN
  /\ mem \in [Buf -> Segment \cup {NoSegment}]
  /\ freed \subseteq Buf
  /\ accepted \in Seq(Segment)
  /\ written \in Seq(Segment \cup {NoSegment, Short})

\* The buffer that threadLoop() works on, outside of both queues.
InHand == IF writer \in {"write", "return"} THEN {myBuf} ELSE {}

\* Until the destructor frees them, every buffer is in exactly one place:
\* m_qFree, m_qReady or the hands of threadLoop().  So nothing overwrites a
\* buffer that is still to be written, and the enqueue whose result neither
\* pushBuffer() nor threadLoop() looks at is never refused
\* (out_writer.cpp:138, 168, 175).
BufferOwnership ==
  client # "destroyed" =>
    /\ Distinct(m_qFree)
    /\ Distinct(m_qReady)
    /\ Elements(m_qFree) \cap Elements(m_qReady) = {}
    /\ InHand \cap (Elements(m_qFree) \cup Elements(m_qReady)) = {}
    /\ Elements(m_qFree) \cup Elements(m_qReady) \cup InHand = Buf

\* threadLoop() does not sleep on work: if it waits while something is ready,
\* pushBuffer() still holds m_mutex and has its signal to give
\* (out_writer.cpp:122-125, 177).
NoLostWakeup == writer = "wait" => m_qReady = <<>> \/ mutex = "client"

\* pushBuffer() tests m_qFree.count() without m_mutex and dequeues later
\* without another test; the test still holds then, whatever threadLoop()
\* does in between (out_writer.cpp:155, 165).
CheckedDequeue == client \in {"lock", "first"} => m_qFree # <<>>

\* What reaches the output is what was queued, in that order, each segment
\* once: nothing is written twice, swapped or overwritten while it waits; a
\* failed write() leaves a gap and nothing more (out_writer.cpp:126-140).
InOrder ==
  /\ Len(written) <= Len(accepted)
  /\ \A i \in 1..Len(written) : written[i] \in {accepted[i], Short}

\* A frame that wraps around the encoder's buffer may lose its second region
\* when the buffers run out, but never its first one alone: a second region
\* in the queue comes right after the first region of the same call
\* (out_writer.cpp:163-176).
NoOrphanRegion ==
  \A i \in 1..Len(accepted) :
    accepted[i].part = 1 =>
      i > 1 /\ accepted[i - 1] = [call |-> accepted[i].call, part |-> 0]

\* The destructor frees buffers and closes the output only when threadLoop()
\* is over, although end() sets its flag without m_mutex and the loop may be
\* anywhere by then (out_writer.cpp:51-69, 72-81).
TeardownSafe ==
  writer \notin {"none", "exited"} => freed = {} /\ fdOpen

\* The destructor finds every buffer, those never written included
\* (out_writer.cpp:54-64).
NoLeak == client = "destroyed" => freed = Buf /\ ~fdOpen

\* What the writer is to the rest of the program: a bounded, ordered, lossy
\* channel that nothing is written to before openStream() or after the
\* destructor, whose second regions never come alone (out_writer.cpp:107-180).
Channel == INSTANCE OutputChannel
             WITH open <- fdOpen, queued <- accepted, sent <- written

ChannelSpec == Channel!Spec

(***************************************************************************)
(* Liveness, under FairSpec.                                               *)
(***************************************************************************)

\* A queued segment is written in the end, unless the end is requested first
\* (or there is no thread, pthread_create having failed).  No push after it
\* is needed to get it out (out_writer.cpp:112-141, 177).
Drained ==
  \A k \in 1..(2 * MaxPush) :
    (Len(accepted) >= k /\ writer # "none") ~> (Len(written) >= k \/ m_end)

\* threadLoop() is asleep, or about to be, and will not look at m_end again.
MissedTheEnd == writer = "wait" \/ (writer = "lock" /\ m_qReady = <<>>)

\* end() returns and the destructor completes whenever threadLoop() did not
\* miss the signal (out_writer.cpp:72-81).
EndReturnsUnlessMissed ==
  (client = "join" /\ ~MissedTheEnd) ~> (client = "destroyed")

\* What the stop of the program relies on: once end() has set m_end, the
\* thread stops and the destructor completes (out_writer.cpp:76-80).
EndReturns == m_end ~> (client = "destroyed")
=============================================================================
