-------------------------------- MODULE Capture --------------------------------
(***************************************************************************)
(* Motion capture: the rendezvous between sys_cncmove and a reader of      *)
(* /dev/cnc in a kernel with MOTIONCAPTURE.  While capture is on, each     *)
(* iteration of a move appends a frame to cnc_capbuf, wakes whoever sleeps *)
(* on the buffer, and sleeps on it; the reader copies the buffer, wakes    *)
(* the sleepers, and sleeps on it when it has caught up.  The same channel *)
(* serves both sides and every move in progress.                           *)
(*                                                                         *)
(* The kernel is not preemptive: a process runs until it sleeps, returns   *)
(* to user mode, or enters the copying loop of uiomove(), which yields.    *)
(* An action is what one process does between two such points.             *)
(***************************************************************************)
EXTENDS Integers, FiniteSets

CONSTANTS
  Movers,       \* processes that call cncmove
  BufSize,      \* CNC_CAPTURE_BUFSIZE
  ReadSize,     \* the size of the reads motioncap makes
  MaxMove       \* bound: iterations of a move

ASSUME CaptureAssumption ==
  /\ IsFiniteSet(Movers)
  /\ BufSize \in Nat \ {0}
  /\ ReadSize \in Nat \ {0}
  /\ MaxMove \in Nat \ {0}

VARIABLES
  opened,       \* cnc_opened
  capture,      \* cnc_capture
  size,         \* cnc_capbuf_size
  reader,       \* where the process that may open /dev/cnc is
  fileOffset,   \* f_offset of the open /dev/cnc, up to BufSize
  offset,       \* uio_offset of the read in progress, up to BufSize
  resid,        \* uio_resid of the read in progress
  chunk,        \* cnc_capbuf_size as passed to uiomove()
  copied,       \* history: the read in progress has copied the buffer
  mover,        \* where each mover is
  left,         \* iterations its move has yet to make
  high,         \* its interrupt priority level is raised when it runs
  signalled,    \* it has a signal pending
  torn          \* history: capture was turned off in the middle of its move

fileVars == <<opened, capture>>
readVars == <<fileOffset, offset, resid, chunk, copied>>
moverVars == <<mover, left, high, signalled, torn>>

vars == <<fileVars, size, reader, readVars, moverVars>>

Lesser(a, b) == IF a < b THEN a ELSE b

\* The reader's offsets are only compared with a size of at most BufSize.
Capped(n) == Lesser(n, BufSize)

\* wakeup(cnc_capbuf): all who sleep on the buffer become runnable.
Woken(m) == IF mover[m] = "asleep" THEN "ready" ELSE mover[m]
ReaderWoken == IF reader = "asleep" THEN "woken" ELSE reader

-----------------------------------------------------------------------------
(* The device and its exclusive user, motioncap.                           *)

Open == /\ reader = "out" /\ ~opened
        /\ reader' = "opened" /\ opened' = TRUE
        /\ fileOffset' = 0
        /\ UNCHANGED <<capture, size, offset, resid, chunk, copied, moverVars>>

\* CNC_SETCAPTUREMODE 1: cnc_capture_open().
Enable == /\ reader = "opened"
          /\ reader' = "user" /\ capture' = TRUE
          /\ size' = 0
          /\ UNCHANGED <<opened, readVars, moverVars>>

\* The moves in progress lose capture.
Tear == torn' = [m \in Movers |-> torn[m] \/ mover[m] # "idle"]

\* CNC_SETCAPTUREMODE 0: cnc_capture_close() wakes nobody.
Disable == /\ reader = "user"
           /\ reader' = "opened" /\ capture' = FALSE
           /\ Tear
           /\ UNCHANGED <<opened, size, readVars, mover, left, high, signalled>>

\* cncclose(), called by close(2) or by the death of the process, which a
\* signal can bring about in user mode or in the read's tsleep().
Close == /\ reader \in {"opened", "user", "asleep"}
         /\ reader' = "out" /\ opened' = FALSE /\ capture' = FALSE
         /\ fileOffset' = 0
         /\ offset' = 0 /\ resid' = 0 /\ chunk' = 0 /\ copied' = FALSE
         /\ IF capture THEN Tear ELSE UNCHANGED torn
         /\ UNCHANGED <<size, mover, left, high, signalled>>

-----------------------------------------------------------------------------
(* cnc_capture_read().                                                     *)

\* The top of the loop with off and res for uio_offset and uio_resid: the
\* read ends, sleeps, or enters uiomove() with the size of the moment.  On
\* return vn_read() adds what was read, not uio_offset, to the file offset.
ReadLoop(off, res) ==
  \/ /\ res = 0 \/ ~capture
     /\ reader' = "user"
     /\ fileOffset' = Capped(fileOffset + ReadSize - res)
     /\ offset' = 0 /\ resid' = 0 /\ chunk' = 0 /\ copied' = FALSE
  \/ /\ res > 0 /\ capture /\ off >= size
     /\ reader' = "asleep"
     /\ offset' = Capped(off) /\ resid' = res /\ chunk' = 0
     /\ UNCHANGED fileOffset
  \/ /\ res > 0 /\ capture /\ off < size
     /\ reader' = "copying"
     /\ offset' = off /\ resid' = res /\ chunk' = size
     /\ UNCHANGED fileOffset

Read == /\ reader = "user" /\ capture
        /\ ReadLoop(fileOffset, ReadSize)
        /\ copied' = FALSE
        /\ UNCHANGED <<fileVars, size, moverVars>>

\* tsleep() returned 0: back to the start of the buffer.
ReadWoken == /\ reader = "woken"
             /\ reader' = "copying" /\ offset' = 0 /\ chunk' = size
             /\ UNCHANGED <<fileVars, size, fileOffset, resid, copied, moverVars>>

\* Faulty: the movers are not woken after the copy.
ReadCopyQuiet ==
  LET n == Lesser(chunk, resid)
  IN /\ reader = "copying"
     /\ IF resid - n > 0 /\ capture
          THEN copied' = TRUE /\ ReadLoop(offset + n, resid - n)
          ELSE ReadLoop(offset + n, resid - n)
     /\ UNCHANGED <<fileVars, size, moverVars>>

\* uiomove() copies, the movers are woken, and the loop goes on.
ReadCopy ==
  LET n == Lesser(chunk, resid)
  IN /\ reader = "copying"
     /\ IF resid - n > 0 /\ capture
          THEN copied' = TRUE /\ ReadLoop(offset + n, resid - n)
          ELSE ReadLoop(offset + n, resid - n)
     /\ mover' = [m \in Movers |-> Woken(m)]
     /\ UNCHANGED <<fileVars, size, left, high, signalled, torn>>

-----------------------------------------------------------------------------
(* sys_cncmove, with the capture mode that holds while it runs.            *)

\* Faulty: the buffer is not found full.
AppendUnchecked(k) == size' = size + k

\* k frames are appended, or reported as overflow.
Append(k) == size' = Lesser(size + k, BufSize)

\* The return: splx(s) unless capture is on.  Only a move that began with
\* capture off has assigned s (kept); otherwise s may hold any level.
Leave(m, kept) ==
  /\ mover' = [mover EXCEPT ![m] = "idle"]
  /\ left' = [left EXCEPT ![m] = 0]
  /\ signalled' = [signalled EXCEPT ![m] = FALSE]
  /\ \E level \in BOOLEAN :
       /\ (kept \/ capture) => level = high[m]
       /\ high' = [high EXCEPT ![m] = level]
       /\ torn' = [torn EXCEPT ![m] = @ /\ level]
  /\ UNCHANGED <<fileVars, readVars>>

\* One iteration: its frame, wakeup() and tsleep(), with k - 1 more to go.
Pause(m, k) ==
  /\ Append(1)
  /\ reader' = ReaderWoken
  /\ mover' = [x \in Movers |-> IF x = m THEN "asleep" ELSE Woken(x)]
  /\ left' = [left EXCEPT ![m] = k - 1]
  /\ UNCHANGED <<fileVars, readVars, high, signalled, torn>>

\* With a signal pending tsleep() returns at once, and its result is ignored:
\* the k iterations, or those an e-stop leaves, are made without a pause.
RunOn(m, k) ==
  /\ \E j \in 1 .. k : Append(j)
  /\ reader' = ReaderWoken
  /\ mover' = [x \in Movers |-> IF x = m THEN "idle" ELSE Woken(x)]
  /\ left' = [left EXCEPT ![m] = 0]
  /\ signalled' = [signalled EXCEPT ![m] = FALSE]
  /\ UNCHANGED <<fileVars, readVars, high, torn>>

\* The loop finds no more to do, or goes on to its end with capture off.
Finish(m) == Leave(m, FALSE) /\ UNCHANGED <<size, reader>>

\* Faulty: a mover with a signal pending sleeps like any other.
OnwardDeaf(m, k) ==
  IF k > 0 /\ capture THEN Pause(m, k) ELSE Finish(m)

\* The loop of mover m with k iterations to go, until it sleeps or returns.
Onward(m, k) ==
  IF k > 0 /\ capture
    THEN IF signalled[m] THEN RunOn(m, k) ELSE Pause(m, k)
    ELSE Finish(m)

\* cncmove with capture off: splhigh(), the whole move, splx(s).
MoveUncaptured(m) ==
  /\ mover[m] = "idle" /\ ~capture
  /\ Leave(m, TRUE)
  /\ UNCHANGED <<size, reader>>

\* Faulty: splhigh() is not skipped under capture.
MoveCapturedHigh(m, k) ==
  /\ mover[m] = "idle" /\ capture
  /\ Append(1)
  /\ reader' = ReaderWoken
  /\ mover' = [x \in Movers |-> IF x = m THEN "asleep" ELSE Woken(x)]
  /\ left' = [left EXCEPT ![m] = k - 1]
  /\ high' = [high EXCEPT ![m] = TRUE]
  /\ UNCHANGED <<fileVars, readVars, signalled, torn>>

\* cncmove of k iterations with capture on: its first iteration.
MoveCaptured(m, k) == mover[m] = "idle" /\ capture /\ Pause(m, k)

\* tsleep() returned in the mover: the delay loop and what follows it.
Resume(m) == mover[m] = "ready" /\ Onward(m, left[m])

\* The same, when an e-stop is found raised: the move ends there.
ResumeStopped(m) == /\ mover[m] = "ready" /\ left[m] > 0
                    /\ Finish(m)

\* A signal is posted to a process in cncmove; PCATCH lets it end the sleep.
Signal(m) == /\ mover[m] # "idle" /\ ~signalled[m]
             /\ signalled' = [signalled EXCEPT ![m] = TRUE]
             /\ mover' = [mover EXCEPT ![m] = "ready"]
             /\ UNCHANGED <<fileVars, size, reader, readVars, left, high, torn>>

-----------------------------------------------------------------------------

Init ==
  /\ opened = FALSE /\ capture = FALSE
  /\ size = 0
  /\ reader = "out"
  /\ fileOffset = 0
  /\ offset = 0 /\ resid = 0 /\ chunk = 0 /\ copied = FALSE
  /\ mover = [m \in Movers |-> "idle"]
  /\ left = [m \in Movers |-> 0]
  /\ high = [m \in Movers |-> FALSE]
  /\ signalled = [m \in Movers |-> FALSE]
  /\ torn = [m \in Movers |-> FALSE]

Reading == Read \/ ReadWoken \/ ReadCopy

Moving(m) == Resume(m) \/ ResumeStopped(m)

Next ==
  \/ Open \/ Enable \/ Disable \/ Close
  \/ Reading
  \/ \E m \in Movers : \/ MoveUncaptured(m)
                       \/ \E k \in 1 .. MaxMove : MoveCaptured(m, k)
                       \/ Moving(m)
                       \/ Signal(m)

\* Runnable processes get to run, and motioncap goes back to reading as long
\* as it is neither killed nor disappointed by its output.
Spec == /\ Init /\ [][Next]_vars
        /\ WF_vars(Reading)
        /\ \A m \in Movers : WF_vars(Resume(m))

-----------------------------------------------------------------------------
(* Properties.                                                             *)

FlagTypes ==
  /\ opened \in BOOLEAN /\ capture \in BOOLEAN /\ copied \in BOOLEAN
  /\ high \in [Movers -> BOOLEAN]
  /\ signalled \in [Movers -> BOOLEAN] /\ torn \in [Movers -> BOOLEAN]

BufTypes == size \in 0 .. BufSize

ReaderTypes ==
  /\ reader \in {"out", "opened", "user", "asleep", "woken", "copying"}
  /\ fileOffset \in 0 .. BufSize
  /\ offset \in 0 .. BufSize /\ resid \in 0 .. ReadSize /\ chunk \in 0 .. BufSize

MoverTypes ==
  /\ mover \in [Movers -> {"idle", "asleep", "ready"}]
  /\ left \in [Movers -> 0 .. MaxMove]

\* Every variable ranges over what the C declarations and the code allow.
TypeOK == FlagTypes /\ BufTypes /\ ReaderTypes /\ MoverTypes

\* Nobody sleeps with interrupts held off, and nobody comes back from
\* cncmove with them held off, unless capture was taken away in the middle
\* of the move: the two tests of cnc_capture around the loop of sys_cncmove
\* agree in every other interleaving with opens, ioctls and closes.
LevelKept == \A m \in Movers : high[m] => torn[m]

\* Once a read has copied the buffer it cannot sleep beside a sleeping
\* mover: each side wakes the other between its copy or its frame and its
\* sleep, in any interleaving with the yield of uiomove(), with other movers
\* and with a full buffer.
Rendezvous == (reader = "asleep" /\ copied) => \A m \in Movers : mover[m] # "asleep"

\* PCATCH is the way out of the rendezvous: a process stuck in cncmove, say
\* because motioncap died, gets out of it when a signal is sent to it.
SignalFrees == \A m \in Movers : signalled[m] ~> mover[m] = "idle"

\* motioncap.1: motioncap dumps the signals the planner generates "when
\* processing instructions such as cncmove(2)": a move that is captured from
\* its start, while motioncap goes on reading, ends.
CapturedMoveEnds ==
  \A m \in Movers :
    (mover[m] # "idle" /\ ~torn[m])
      ~> (mover[m] = "idle" \/ reader \in {"out", "opened"})
==============================================================================
