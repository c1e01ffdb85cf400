------------------------------- MODULE Serial -------------------------------
(***************************************************************************)
(* A serial port of io/serial.c with the tty that writes to it (io/tty.c,  *)
(* tty_serial_write and tty_serial_read): two rings, an interrupt handler, *)
(* and threads that sleep on condition variables for room and for input.   *)
(*                                                                         *)
(* A writer holds the mutex of the tty, as klog does, for a line, and      *)
(* writes its characters one call at a time, each under the spinlock of    *)
(* the port.  A newline, which is two characters under one hold of the     *)
(* spinlock, has fewer interleavings than two calls.  There is one         *)
(* processor, so a call is one step unless it waits in cond_var_s_wait,    *)
(* which gives up the spinlock and the mutex.                              *)
(***************************************************************************)
EXTENDS CondVar, Integers, FiniteSets

CONSTANTS
    Tty,        \* the mutex of the tty, tty_base.lock
    SendReady, RecvReady,   \* send_buf_ready and recv_buf_ready
    Line,       \* Line[t], how many characters t writes
    Answer,     \* Answer[t], how many it reads behind them
    SendMax,    \* send_buf_maxlen
    RecvMax,    \* recv_buf_maxlen
    MaxArrive,  \* bound: the characters that arrive
    Message     \* what do_crash sends

ASSUME SerialAssumption ==
    /\ Tty \in Mutex
    /\ {SendReady, RecvReady} \subseteq Cond /\ SendReady # RecvReady
    /\ Message \notin Thread \X Nat
    /\ {SendMax, RecvMax, MaxArrive} \subseteq Nat \ {0}
    /\ {Line, Answer} \subseteq [Thread -> Nat]

VARIABLES
    plock,      \* the thread that keeps port->lock past a step, or NULL
    waiting,    \* the threads in cond_var_s_wait
    send,       \* send[i], send_buf; a character is <<thread, its number>>
    shead, stail, slen,     \* send_buf_head, _tail (next free), _len
    recv,       \* recv_buf; a character that arrives is its number
    rhead, rtail, rlen,     \* recv_buf_head (next free), _tail, _len
    ready,      \* the transmitter can take a character (serial_send_ready)
    thri,       \* the port's latch: transmitter became ready, not answered
    rx,         \* the character to be received, 0 when there is none
    irr,        \* the interrupt controller has seen the line of the port rise
    done,       \* done[t], the characters t has written or read
    given,      \* history: the characters given to the port, in order
    waited,     \* history: the characters whose writer waited for room
    wire,       \* history: the characters sent
    arrived,    \* history: how many characters have arrived
    dropped,    \* history: the ones for which recv_buf had no room
    got,        \* history: the ones tty_serial_read returned
    halted      \* do_crash has run

sendVars == <<send, shead, stail, slen>>
recvVars == <<recv, rhead, rtail, rlen>>
chipVars == <<ready, thri, rx, irr>>
historyVars == <<given, waited, wire, arrived, dropped, got>>
callVars == <<plock, waiting, done>>
lockVars == <<vars, condVars>>
serialVars == <<lockVars, sendVars, recvVars, chipVars, callVars, historyVars, halted>>

\* An index past the end of a ring goes on at its start.
Wrap(i, n) == IF i >= n THEN i - n ELSE i

\* The len characters of a ring of size n from index i on.
Ring(buf, i, len, n) == [k \in 1..len |-> buf[Wrap(i + k - 1, n)]]
Unsent == Ring(send, shead, slen, SendMax)
Unread == Ring(recv, rtail, rlen, RecvMax)

\* serial_port_init_interrupts.  Enabling the interrupts of a port that can
\* transmit raises the first one.
SerialInit ==
    /\ CondInit
    /\ plock = NULL /\ waiting = {} /\ done = [t \in Thread |-> 0]
    /\ send \in [0..(SendMax - 1) -> {Message}]
    /\ recv \in [0..(RecvMax - 1) -> {0}]
    /\ shead = 0 /\ stail = 0 /\ slen = 0
    /\ rhead = 0 /\ rtail = 0 /\ rlen = 0
    /\ ready = TRUE /\ thri = TRUE /\ rx = 0 /\ irr = TRUE
    /\ given = <<>> /\ waited = {} /\ wire = <<>>
    /\ arrived = 0 /\ dropped = {} /\ got = <<>>
    /\ halted = FALSE

-----------------------------------------------------------------------------
(* The port and the interrupt controller.  The port holds its line while a *)
(* reason is pending; idt.c programs the controller for edges, so only a   *)
(* rise of the line is a request.                                          *)

Raised == thri \/ rx # 0

\* What a step that changes the reasons does to the request.
Edge == irr' = (irr \/ (~Raised /\ Raised'))

\* The transmitter has sent its character.
Drained ==
    /\ ~halted /\ ~ready
    /\ ready' = TRUE
    /\ thri' = TRUE
    /\ UNCHANGED rx
    /\ Edge
    /\ UNCHANGED <<lockVars, sendVars, recvVars, callVars, historyVars, halted>>

\* A character arrives.  The hardware loses it when the last one is unread;
\* such losses are left out.
Arrive ==
    /\ ~halted /\ rx = 0 /\ arrived < MaxArrive
    /\ arrived' = arrived + 1
    /\ rx' = arrived'
    /\ UNCHANGED <<ready, thri>>
    /\ Edge
    /\ UNCHANGED <<lockVars, sendVars, recvVars, callVars, given, waited, wire,
                   dropped, got, halted>>

\* outb of c to the data register, which also answers a pending transmit
\* interrupt.
Out(c) ==
    /\ wire' = Append(wire, c)
    /\ ready' = FALSE
    /\ thri' = FALSE
    /\ UNCHANGED <<rx, irr>>

-----------------------------------------------------------------------------
(* Threads.  t is in a call, or about to make one, and runs.               *)

Running(t) == ~halted /\ At(t, "client") /\ plock \in {NULL, t}
Finished(t) == done[t] = Line[t] + Answer[t]
Writing(t) == Running(t) /\ Tty \in has[t] /\ done[t] < Line[t]
Reading(t) == Running(t) /\ Tty \in has[t] /\ done[t] >= Line[t] /\ ~Finished(t)

\* mutex_acquire and mutex_release of the tty, around the line.
LockTty(t) ==
    /\ Running(t) /\ Tty \notin has[t] /\ ~Finished(t)
    /\ AcquireFree(t, Tty) \/ AcquireBlock(t, Tty)
    /\ UNCHANGED <<condVars, sendVars, recvVars, chipVars, callVars, historyVars, halted>>
UnlockTty(t) ==
    /\ ~halted
    /\ \/ Running(t) /\ Tty \in has[t] /\ Finished(t) /\ ReleaseUnlink(t, Tty)
       \/ ReleaseHandOff(t)
    /\ UNCHANGED <<condVars, sendVars, recvVars, chipVars, callVars, historyVars, halted>>

\* Mutant of Enqueue: the index is not wrapped in time.
BugEnqueueWrap(c) ==
    /\ send' = [send EXCEPT ![stail % SendMax] = c]
    /\ slen' = slen + 1
    /\ stail' = Wrap(stail + 1, SendMax + 1)
    /\ UNCHANGED shead

\* The ring takes c.
Enqueue(c) ==
    /\ send' = [send EXCEPT ![stail] = c]
    /\ slen' = slen + 1
    /\ stail' = Wrap(stail + 1, SendMax)
    /\ UNCHANGED shead

\* Mutant of SendChar: an idle transmitter is not looked for.
BugSendQueued(t) ==
    LET c == <<t, done[t] + 1>> IN
    /\ Writing(t)
    /\ slen < SendMax
    /\ Enqueue(c) /\ UNCHANGED <<chipVars, wire>>
    /\ done' = [done EXCEPT ![t] = @ + 1]
    /\ given' = Append(given, c)
    /\ plock' = NULL
    /\ UNCHANGED <<lockVars, recvVars, waiting, waited, arrived, dropped, got, halted>>

\* tty_serial_write of a character there is room for: straight to the port
\* when nothing is before it and the port can take it.
SendChar(t) ==
    LET c == <<t, done[t] + 1>> IN
    /\ Writing(t)
    /\ slen < SendMax
    /\ \/ slen = 0 /\ ready /\ Out(c) /\ UNCHANGED sendVars
       \/ ~(slen = 0 /\ ready) /\ Enqueue(c) /\ UNCHANGED <<chipVars, wire>>
    /\ done' = [done EXCEPT ![t] = @ + 1]
    /\ given' = Append(given, c)
    /\ plock' = NULL
    /\ UNCHANGED <<lockVars, recvVars, waiting, waited, arrived, dropped, got, halted>>

\* serial_send_char with a full ring: the writer sleeps, without port and tty.
SendWait(t) ==
    /\ Writing(t)
    /\ slen = SendMax
    /\ CondSWait(t, SendReady, Tty)
    /\ waiting' = waiting \cup {t}
    /\ waited' = waited \cup {<<t, done[t] + 1>>}
    /\ plock' = NULL
    /\ UNCHANGED <<sendVars, recvVars, chipVars, done, given, wire, arrived,
                   dropped, got, halted>>

\* Mutant of ReadChar: the length is not counted down.
BugReadKeeps(t) ==
    /\ Reading(t)
    /\ rlen > 0
    /\ got' = Append(got, recv[rtail])
    /\ rtail' = Wrap(rtail + 1, RecvMax)
    /\ done' = [done EXCEPT ![t] = @ + 1]
    /\ plock' = NULL
    /\ UNCHANGED <<lockVars, sendVars, recv, rhead, rlen, chipVars, waiting, given,
                   waited, wire, arrived, dropped, halted>>

\* tty_serial_read with a character in the ring, and without one.
ReadChar(t) ==
    /\ Reading(t)
    /\ rlen > 0
    /\ got' = Append(got, recv[rtail])
    /\ rtail' = Wrap(rtail + 1, RecvMax)
    /\ rlen' = rlen - 1
    /\ done' = [done EXCEPT ![t] = @ + 1]
    /\ plock' = NULL
    /\ UNCHANGED <<lockVars, sendVars, recv, rhead, chipVars, waiting, given,
                   waited, wire, arrived, dropped, halted>>
ReadWait(t) ==
    /\ Reading(t)
    /\ rlen = 0
    /\ CondSWait(t, RecvReady, Tty)
    /\ waiting' = waiting \cup {t}
    /\ plock' = NULL
    /\ UNCHANGED <<sendVars, recvVars, chipVars, done, historyVars, halted>>

\* The rest of cond_var_s_wait: through mutex_acquire, which may block, and
\* back under the spinlock of the port, to look at the ring again.
WaitOver(t) ==
    /\ ~halted
    /\ \/ CondReblock(t) /\ UNCHANGED callVars
       \/ /\ CondReturn(t)
          /\ plock' = t /\ waiting' = waiting \ {t} /\ UNCHANGED done
       \/ /\ inCond[t] = NULL /\ AcquireReturn(t) /\ UNCHANGED condVars
          /\ plock' = IF t \in waiting THEN t ELSE plock
          /\ waiting' = waiting \ {t} /\ UNCHANGED done
    /\ UNCHANGED <<sendVars, recvVars, chipVars, historyVars, halted>>

-----------------------------------------------------------------------------
(* Interrupts.                                                             *)

\* No spinlock is held and the running thread is not behind its sched_yield.
Interruptible == plock = NULL /\ (current # NULL => pc[current] # "acquire")

\* serial_standard_sink of the character that waits in the port.
Sink ==
    /\ \/ /\ rlen < RecvMax
          /\ recv' = [recv EXCEPT ![rhead] = rx]
          /\ rhead' = Wrap(rhead + 1, RecvMax)
          /\ rlen' = rlen + 1
          /\ UNCHANGED dropped
       \/ /\ rlen = RecvMax
          /\ dropped' = dropped \cup {rx}
          /\ UNCHANGED <<recv, rhead, rlen>>
    /\ UNCHANGED rtail
    /\ rx' = 0
    /\ CondSBroadcast(RecvReady)

\* Mutant of SendFromRing: nobody is woken.
BugSendSilent ==
    /\ \/ /\ slen > 0 /\ ready
          /\ wire' = Append(wire, send[shead])
          /\ shead' = Wrap(shead + 1, SendMax)
          /\ slen' = slen - 1
          /\ ready' = FALSE
       \/ /\ ~(slen > 0 /\ ready)
          /\ UNCHANGED <<wire, shead, slen, ready>>
    /\ UNCHANGED <<send, stail, lockVars>>

\* serial_send_buffer without waiting: a character goes out if there is one
\* and the port can take it; the writers that wait are woken in any case.
SendFromRing ==
    /\ \/ /\ slen > 0 /\ ready
          /\ wire' = Append(wire, send[shead])
          /\ shead' = Wrap(shead + 1, SendMax)
          /\ slen' = slen - 1
          /\ ready' = FALSE
       \/ /\ ~(slen > 0 /\ ready)
          /\ UNCHANGED <<wire, shead, slen, ready>>
    /\ UNCHANGED <<send, stail>>
    /\ CondSBroadcast(SendReady)

\* serial_port_handle_interrupt.  The reason is read once, and reception
\* comes first: a transmitter that became ready as well is not answered and
\* the line stays up.  The request may also have been answered meanwhile.
Interrupt ==
    /\ ~halted /\ irr /\ Interruptible
    /\ irr' = FALSE
    /\ \/ /\ rx # 0
          /\ Sink
          /\ UNCHANGED <<sendVars, ready, thri, wire>>
       \/ /\ rx = 0 /\ thri
          /\ thri' = FALSE
          /\ SendFromRing
          /\ UNCHANGED <<recvVars, rx, dropped>>
       \/ /\ ~Raised
          /\ UNCHANGED <<lockVars, sendVars, recvVars, ready, thri, rx, wire, dropped>>
    /\ UNCHANGED <<callVars, given, waited, arrived, got, halted>>

\* pit_tick_handle at the end of a quantum.
Tick ==
    /\ ~halted /\ plock = NULL
    /\ Preempt
    /\ UNCHANGED <<condVars, sendVars, recvVars, chipVars, callVars, historyVars, halted>>

\* do_crash, by anyone who does not hold port->lock: serial_stop_interrupts
\* sends the ring, polling, and frees it; then the message is sent the same
\* way.
CrashStop ==
    /\ ~halted /\ plock = NULL
    /\ halted' = TRUE
    /\ wire' = wire \o Unsent \o <<Message>>
    /\ given' = Append(given, Message)
    /\ slen' = 0 /\ shead' = stail
    /\ UNCHANGED <<lockVars, send, stail, recvVars, chipVars, callVars, waited,
                   arrived, dropped, got>>

ThreadStep(t) ==
    \/ LockTty(t) \/ UnlockTty(t) \/ SendChar(t) \/ SendWait(t)
    \/ ReadChar(t) \/ ReadWait(t) \/ WaitOver(t)

SerialNext ==
    \/ \E t \in Thread : ThreadStep(t)
    \/ Drained \/ Arrive \/ Interrupt \/ Tick \/ CrashStop
    \/ halted /\ UNCHANGED serialVars

SerialSpec == SerialInit /\ [][SerialNext]_serialVars

GoesOn(t) == ThreadStep(t)
GetsTurn(t) == Tick /\ current # t /\ current' = t

\* Sched gives every ready thread its turn, and a thread goes on with its
\* line over several; the port sends what it has taken; a request is answered
\* when interrupts are enabled, which they are again and again.
SerialFairSpec ==
    /\ SerialSpec
    /\ \A t \in Thread : SF_serialVars(GoesOn(t)) /\ SF_serialVars(GetsTurn(t))
    /\ WF_serialVars(Drained)
    /\ SF_serialVars(Interrupt)

-----------------------------------------------------------------------------

\* The line is up and the controller has no request: no interrupt of this
\* port will ever come.
Deaf == Raised /\ ~irr

\* Every character given to the port is sent once and in the order in which
\* the port got them, whether it goes straight out, or through the ring to an
\* interrupt handler or to a crash.
SentInOrder == wire \o Unsent = given

\* What was read, what is to be read, and what the port holds.
Received == got \o Unread \o (IF rx # 0 THEN <<rx>> ELSE <<>>)

\* The reader gets what arrived, in the order of arrival and nothing twice,
\* less what found the ring full.
ReadInOrder ==
    /\ \A i, j \in DOMAIN Received : i < j => Received[i] < Received[j]
    /\ {Received[i] : i \in DOMAIN Received} = (1..arrived) \ dropped

\* The characters of a line stay together, as the tty's mutex is to ensure,
\* except where the writer had to wait for room: there the mutex is given up
\* and another line may come in between.
LinesMixOnlyAtWaits ==
    \A i, j \in DOMAIN given :
      /\ Message \notin {given[i], given[j]}
      /\ given[j] = <<given[i][1], given[i][2] + 1>>
      /\ given[j] \notin waited
      => j = i + 1

\* Characters in the ring are never left with an idle transmitter that has
\* nothing more to say: it is busy, or its interrupt is latched.
RingIsServed == slen > 0 /\ ~halted => ~ready \/ thri

\* Every writer gets its line into the port, however the others write, if
\* the kernel does not crash and the port does not fall silent for good.
LineSent ==
    \A t \in Thread :
      \/ <>(done[t] >= Line[t] \/ halted)
      \/ <>[](Deaf /\ slen = SendMax)
=============================================================================
