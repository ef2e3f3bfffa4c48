----------------------------- MODULE NetworkLog -----------------------------
(***************************************************************************)
(* NetworkLog.cpp: the log's output collects characters and sends them as  *)
(* datagrams.  The member variables are the fields of "log"; todo is what  *)
(* is left of the buffer argument of write(buffer, size), whose loop runs  *)
(* one iteration per step.  emit_log_frame in smartmeterreader.ino passes  *)
(* the buffer on as a C string and ignores its length, so that a datagram  *)
(* goes on with what earlier and longer ones have left in the buffer, and  *)
(* with the bytes of _w_idx behind it once the buffer has been full.       *)
(***************************************************************************)
EXTENDS Millis, Sequences

CONSTANTS
  Size,                   \* sizeof(_buf), 4096
  ByteMod,                \* the number of values of a byte, 256
  Interval,               \* 50 ms, in units of Millis
  Chars,                  \* the characters of the log; 0 is not one of them
  MaxText                 \* bound: the length of the texts written at once

VARIABLES
  log,                    \* the members of the NetworkLog object
  todo,                   \* the rest of the text being written
  sent,                   \* the datagrams this step has sent
  now,                    \* millis()
  ran,                    \* loop() has run since the clock advanced
  unsent,                 \* ghost: what was written since the last emit()
  waited                  \* ghost: how long some of it could have been sent

vars == <<log, todo, sent, now, ran, unsent, waited>>

ASSUME LogAssumption ==
  /\ Size \in Nat \ {0}
  /\ ByteMod \in Nat \ {0} /\ Size <= ByteMod * ByteMod
  /\ Interval \in Nat /\ ClockMod > Interval + 1
  /\ 0 \notin Chars
  /\ MaxText \in Nat

\* A static object: the buffer is zero at first.
LogInit ==
  /\ log = [buf |-> [i \in 1 .. Size |-> 0], w_idx |-> 0, frame_start_time |-> 0,
            is_enabled |-> FALSE]
  /\ todo = <<>> /\ sent = <<>> /\ now = 0 /\ ran = FALSE
  /\ unsent = <<>> /\ waited = 0

\* What lies in memory from _buf on: the buffer, and behind it the bytes of
\* _w_idx, the low one first.  The third is zero for every index of the buffer.
Memory(l) ==
  [i \in 1 .. Size + 3 |->
     CASE i <= Size -> l.buf[i]
       [] i = Size + 1 -> l.w_idx % ByteMod
       [] i = Size + 2 -> l.w_idx \div ByteMod
       [] i = Size + 3 -> 0]

\* The characters before the first zero, as broadcastTo takes them.
CString(l) ==
  LET n == CHOOSE n \in 0 .. Size + 2 :
             /\ \A i \in 1 .. n : Memory(l)[i] # 0
             /\ Memory(l)[n + 1] = 0
  IN  [i \in 1 .. n |-> Memory(l)[i]]

\* memcpy of text behind the w_idx characters of the buffer.
Copy(l, text) ==
  [l EXCEPT !.buf = [i \in 1 .. Size |-> IF i \in l.w_idx + 1 .. l.w_idx + Len(text)
                                           THEN text[i - l.w_idx] ELSE l.buf[i]],
            !.w_idx = @ + Len(text)]

\* emit() is the end of an operation that has written text (ghost).
emit(l, text) ==
  /\ sent' = IF l.is_enabled THEN <<[wire |-> CString(l), text |-> unsent \o text]>>
             ELSE <<>>
  /\ log' = [l EXCEPT !.w_idx = 0]
  /\ unsent' = <<>>
  /\ waited' = 0

Keep(l, text) ==
  /\ sent' = <<>>
  /\ log' = l
  /\ unsent' = unsent \o text
  /\ waited' = IF l.is_enabled THEN waited ELSE 0

\* Mutant: full one character too late.
EmitIfFull_late(l, text) == IF l.w_idx > Size THEN emit(l, text) ELSE Keep(l, text)

EmitIfFull(l, text) == IF l.w_idx >= Size THEN emit(l, text) ELSE Keep(l, text)

----------------------------------------------------------------------------
(* The operations.  A unit of time is at least one pass of the main loop.  *)

set_enable(is_enabled) ==
  /\ todo = <<>>
  /\ Keep([log EXCEPT !.is_enabled = is_enabled], <<>>)
  /\ UNCHANGED <<todo, now, ran>>

\* Mutant: every character starts the interval anew.
write_ch_restarts(ch) ==
  /\ todo = <<>>
  /\ EmitIfFull([Copy(log, <<ch>>) EXCEPT !.frame_start_time = now], <<ch>>)
  /\ UNCHANGED <<todo, now, ran>>

\* write(ch), which does not set the start time of a frame it begins.
write_ch(ch) ==
  /\ todo = <<>>
  /\ EmitIfFull(Copy(log, <<ch>>), <<ch>>)
  /\ UNCHANGED <<todo, now, ran>>

\* write(buffer, size): the call, and an iteration of its loop.
write(text) ==
  /\ todo = <<>>
  /\ todo' = text
  /\ Keep(log, <<>>)
  /\ UNCHANGED <<now, ran>>

\* Mutant: the rest that does not fit is skipped.
Fits_skips(room) == Len(todo)

\* MIN(src_rem, dst_rem)
Fits(room) == IF Len(todo) < room THEN Len(todo) ELSE room

write_loop ==
  /\ todo # <<>>
  /\ LET n == Fits(Size - log.w_idx)
         l == [log EXCEPT !.frame_start_time = IF log.w_idx = 0 THEN now ELSE @]
         text == SubSeq(todo, 1, n)
     IN  /\ EmitIfFull(Copy(l, text), text)
         /\ todo' = SubSeq(todo, n + 1, Len(todo))
  /\ UNCHANGED <<now, ran>>

loop ==
  /\ todo = <<>>
  /\ ran' = TRUE
  /\ IF log.is_enabled /\ log.w_idx # 0 /\ Elapsed(now, log.frame_start_time) > Interval
       THEN emit(log, <<>>) ELSE Keep(log, <<>>)
  /\ UNCHANGED <<todo, now>>

Tick ==
  /\ todo = <<>> /\ ran
  /\ now' = Advance(now)
  /\ ran' = FALSE
  /\ waited' = IF log.is_enabled /\ log.w_idx # 0 THEN waited + 1 ELSE 0
  /\ sent' = <<>>
  /\ UNCHANGED <<log, todo, unsent>>

Next ==
  \/ \E is_enabled \in BOOLEAN : set_enable(is_enabled)
  \/ \E ch \in Chars : write_ch(ch)
  \/ \E n \in 1 .. MaxText : \E text \in [1 .. n -> Chars] : write(text)
  \/ write_loop \/ loop \/ Tick

Spec == LogInit /\ [][Next]_vars

----------------------------------------------------------------------------
(* Properties.                                                             *)

\* The members keep their types.  In particular there is room for a character
\* before each write and each iteration of the loop of write(buffer, size),
\* which therefore comes to an end, also while nothing is sent.
LogTypeOK ==
  /\ log.w_idx \in 0 .. Size - 1
  /\ log.buf \in [1 .. Size -> Chars \cup {0}]
  /\ log.frame_start_time \in Clock /\ now \in Clock
  /\ log.is_enabled \in BOOLEAN
  /\ todo \in Seq(Chars)

\* The log is sent in order and without gaps: what has been written since the
\* last emit(), by either write, is what the buffer holds, and every datagram
\* begins with all of it.
LogInOrder ==
  /\ Len(unsent) = log.w_idx
  /\ \A i \in 1 .. log.w_idx : log.buf[i] = unsent[i]
  /\ \A d \in 1 .. Len(sent) : \A i \in 1 .. Len(sent[d].text) :
       i <= Len(sent[d].wire) /\ sent[d].wire[i] = sent[d].text[i]

\* A datagram is the text written since the last one, as the length that emit()
\* passes to the callback says.
DatagramIsText == \A d \in 1 .. Len(sent) : sent[d].wire = sent[d].text

\* While the network is up no character waits for longer than the interval and
\* the passes in which it begins and ends, although write(ch) leaves the start
\* time of an earlier frame, possibly from before millis() wrapped: a stale
\* start time makes the flush early but hardly ever late, and then by a pass.
FlushInTime == waited <= Interval + (IF ran THEN 1 ELSE 2)
=============================================================================
