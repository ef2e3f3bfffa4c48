-------------------------- MODULE NetworkLogProofs --------------------------
(***************************************************************************)
(* Proofs about NetworkLog for every buffer size, every interval and texts *)
(* of any length.                                                          *)
(***************************************************************************)
EXTENDS NetworkLog, SequenceTheorems, WellFoundedInduction, TLAPS

Buffer == [1 .. Size -> Chars \cup {0}]

LogType == [buf : Buffer, w_idx : 0 .. Size, frame_start_time : Clock,
            is_enabled : BOOLEAN]

\* The buffer of l begins with s and w_idx is behind it.
Holds(l, s) ==
  /\ Len(s) = l.w_idx
  /\ \A i \in 1 .. l.w_idx : l.buf[i] = s[i]

\* A datagram begins with what was written.
Delivers(d) ==
  \A i \in 1 .. Len(d.text) : i <= Len(d.wire) /\ d.wire[i] = d.text[i]

\* Types and order belong together: that a datagram begins with the whole text
\* needs that the text's characters, none of which is zero, fill the buffer.
OrderInv ==
  /\ log \in LogType /\ log.w_idx < Size
  /\ now \in Clock
  /\ todo \in Seq(Chars) /\ unsent \in Seq(Chars)
  /\ Holds(log, unsent)
  /\ \A d \in 1 .. Len(sent) : Delivers(sent[d])

\* Once a tick has passed the start time is never younger than what waits, but
\* for the tick on which a stale one may have wrapped; and loop() has flushed
\* what it makes too old.
FlushInv ==
  /\ waited \in Nat
  /\ waited > 0 => /\ log.is_enabled /\ log.w_idx # 0
                   /\ waited <= Elapsed(now, log.frame_start_time) + 1
                   /\ ran => Elapsed(now, log.frame_start_time) <= Interval
  /\ ~ran => waited <= Interval + 2

----------------------------------------------------------------------------
(* What the operators do.                                                  *)

\* A set of naturals that is not empty has a least element.
LEMMA LeastExists ==
  ASSUME NEW S \in SUBSET Nat, S # {}
  PROVE  \E x \in S : \A y \in S : x <= y
<1> DEFINE LT == {ss \in Nat \X Nat : ss[1] < ss[2]}
<1>1. IsWellFoundedOn(LT, Nat)
  <2>1. OpToRel(<, Nat) = LT
    BY Zenon DEF OpToRel
  <2> QED BY <2>1, NatLessThanWellFounded, Zenon
<1> HIDE DEF LT
<1>2. PICK x \in S : \A y \in S : ~(<<y, x>> \in LT)
  BY <1>1, WFMin, Zenon
<1>3. \A y \in S : y < x => <<y, x>> \in LT
  BY DEF LT
<1>4. ASSUME NEW y \in S PROVE x <= y
  <2>1. x \in Nat /\ y \in Nat
    OBVIOUS
  <2>2. ~(y < x)
    BY <1>2, <1>3
  <2> QED BY <2>1, <2>2
<1> QED BY <1>4

\* The datagram has at least the characters before the first zero.
LEMMA CStringFacts ==
  ASSUME NEW l \in LogType, NEW n \in 0 .. Size, \A i \in 1 .. n : l.buf[i] # 0
  PROVE  /\ n <= Len(CString(l))
         /\ \A i \in 1 .. n : CString(l)[i] = l.buf[i]
<1> DEFINE M == Memory(l)
           Ends(k) == /\ \A i \in 1 .. k : M[i] # 0
                      /\ M[k + 1] = 0
           S == {k \in 0 .. Size + 2 : M[k + 1] = 0}
           m == CHOOSE k \in 0 .. Size + 2 : Ends(k)
<1>1. Size \in Nat
  BY LogAssumption
<1>2. \A i \in 1 .. n : M[i] = l.buf[i]
  BY <1>1 DEF Memory
<1>3. M[(Size + 2) + 1] = 0
  BY <1>1 DEF Memory
<1> HIDE DEF M
<1>4. Size + 2 \in S /\ S \in SUBSET Nat
  BY <1>1, <1>3
<1>5. PICK k \in S : \A y \in S : k <= y
  BY <1>4, LeastExists
<1>6. ASSUME NEW i \in 1 .. k PROVE M[i] # 0
  <2>1. i - 1 \in 0 .. Size + 2 /\ i - 1 < k /\ (i - 1) + 1 = i
    BY <1>1
  <2>2. i - 1 \notin S
    BY <1>5, <2>1
  <2> QED BY <2>1, <2>2
<1>7. k \in 0 .. Size + 2 /\ Ends(k)
  BY <1>6
<1>8. m \in 0 .. Size + 2 /\ Ends(m)
  <2> HIDE DEF Ends
  <2> QED BY <1>7
<1>9. CString(l) = [i \in 1 .. m |-> M[i]]
  BY DEF CString, M
<1> HIDE DEF m
<1>10. n <= m
  <2> SUFFICES ASSUME m < n PROVE FALSE
    BY <1>1, <1>8
  <2>1. m + 1 \in 1 .. n
    BY <1>1, <1>8
  <2> QED BY <1>2, <1>8, <2>1
<1>11. m \in Nat /\ Len(CString(l)) = m
  BY <1>1, <1>8, <1>9
<1> QED BY <1>1, <1>2, <1>9, <1>10, <1>11

\* Copying a text that fits appends it.
LEMMA CopyFacts ==
  ASSUME NEW l \in LogType, NEW s \in Seq(Chars), NEW text \in Seq(Chars),
         Holds(l, s), l.w_idx + Len(text) <= Size
  PROVE  /\ Copy(l, text) \in LogType
         /\ Copy(l, text).w_idx = l.w_idx + Len(text)
         /\ Copy(l, text).frame_start_time = l.frame_start_time
         /\ Copy(l, text).is_enabled = l.is_enabled
         /\ s \o text \in Seq(Chars)
         /\ Holds(Copy(l, text), s \o text)
<1> DEFINE w == l.w_idx
           n == Len(text)
           b == [i \in 1 .. Size |-> IF i \in w + 1 .. w + n THEN text[i - w] ELSE l.buf[i]]
<1>1. Size \in Nat /\ n \in Nat /\ w \in 0 .. Size /\ l.buf \in Buffer
  BY LogAssumption DEF LogType
<1>2. Copy(l, text) = [l EXCEPT !.buf = b, !.w_idx = w + n]
  BY DEF Copy, LogType
<1>3. ASSUME NEW i \in w + 1 .. w + n PROVE text[i - w] \in Chars
  <2>1. i - w \in 1 .. n
    BY <1>1
  <2> QED BY <2>1
<1>4. b \in Buffer
  BY <1>1, <1>3 DEF Buffer
<1>5. w + n \in 0 .. Size
  BY <1>1
<1>6. s \o text \in Seq(Chars) /\ Len(s \o text) = w + n
  BY <1>1 DEF Holds
<1>7. ASSUME NEW i \in 1 .. w + n PROVE b[i] = (s \o text)[i]
  <2>1. CASE i <= w
    <3>1. i \in 1 .. w /\ i \in 1 .. Size /\ i \notin w + 1 .. w + n
      BY <1>1, <2>1
    <3>2. b[i] = l.buf[i]
      BY <3>1
    <3>3. (s \o text)[i] = s[i]
      BY <1>1, <3>1 DEF Holds
    <3> QED BY <3>1, <3>2, <3>3 DEF Holds
  <2>2. CASE i > w
    <3>1. i \in w + 1 .. w + n /\ i \in 1 .. Size /\ i - w \in 1 .. n
      BY <1>1, <2>2
    <3>2. b[i] = text[i - w]
      BY <3>1
    <3>3. (s \o text)[i] = text[i - w]
      BY <1>1, <3>1 DEF Holds
    <3> QED BY <3>2, <3>3
  <2>3. i <= w \/ i > w
    BY <1>1
  <2> QED BY <2>1, <2>2, <2>3
<1> HIDE DEF b
<1>8. Copy(l, text) \in LogType
  BY <1>2, <1>4, <1>5 DEF LogType
<1>9. Copy(l, text).buf = b /\ Copy(l, text).w_idx = w + n
  BY <1>2 DEF LogType
<1>10. Copy(l, text).frame_start_time = l.frame_start_time
       /\ Copy(l, text).is_enabled = l.is_enabled
  BY <1>2 DEF LogType
<1> QED BY <1>6, <1>7, <1>8, <1>9, <1>10 DEF Holds

\* A buffer that holds what was written is sent whole and then holds nothing.
LEMMA EmitFacts ==
  ASSUME NEW l \in LogType, NEW text, unsent \o text \in Seq(Chars),
         Holds(l, unsent \o text), emit(l, text)
  PROVE  /\ log' \in LogType /\ log'.w_idx = 0
         /\ log'.frame_start_time = l.frame_start_time
         /\ log'.is_enabled = l.is_enabled
         /\ unsent' \in Seq(Chars) /\ Holds(log', unsent')
         /\ \A d \in 1 .. Len(sent') : Delivers(sent'[d])
         /\ waited' = 0
<1> DEFINE s == unsent \o text
           dg == [wire |-> CString(l), text |-> s]
<1>1. Size \in Nat \ {0} /\ 0 \notin Chars /\ l.w_idx \in 0 .. Size /\ l.buf \in Buffer
  BY LogAssumption DEF LogType
<1>2. log' = [l EXCEPT !.w_idx = 0] /\ unsent' = <<>> /\ waited' = 0
  BY DEF emit
<1>3. 0 \in 0 .. Size
  BY <1>1
<1>4. log' \in LogType /\ log'.w_idx = 0
      /\ log'.frame_start_time = l.frame_start_time /\ log'.is_enabled = l.is_enabled
  BY <1>2, <1>3 DEF LogType
<1>5. unsent' \in Seq(Chars) /\ Holds(log', unsent')
  BY <1>2, <1>4 DEF Holds
<1>6. Delivers(dg)
  <2>1. Len(s) = l.w_idx
    BY DEF Holds
  <2>2. \A i \in 1 .. l.w_idx : s[i] \in Chars /\ l.buf[i] = s[i]
    BY <2>1 DEF Holds
  <2>3. \A i \in 1 .. l.w_idx : l.buf[i] # 0
    BY <1>1, <2>2
  <2>4. l.w_idx <= Len(CString(l)) /\ \A i \in 1 .. l.w_idx : CString(l)[i] = l.buf[i]
    BY <1>1, <2>3, CStringFacts
  <2>5. ASSUME NEW i \in 1 .. l.w_idx PROVE i <= Len(CString(l))
    BY <1>1, <2>4
  <2> QED BY <2>1, <2>2, <2>4, <2>5 DEF Delivers
<1>7. sent' = <<dg>> \/ sent' = <<>>
  BY DEF emit
<1>8. \A d \in 1 .. Len(sent') : Delivers(sent'[d])
  <2> HIDE DEF dg
  <2>1. CASE sent' = <<dg>>
    <3>1. \A d \in 1 .. Len(sent') : sent'[d] = dg
      BY <2>1
    <3> QED BY <1>6, <3>1
  <2>2. CASE sent' = <<>>
    BY <2>2
  <2> QED BY <1>7, <2>1, <2>2
<1> QED BY <1>2, <1>4, <1>5, <1>8

\* EmitIfFull leaves room in the buffer and nothing out of order.
LEMMA FullFacts ==
  ASSUME NEW l \in LogType, NEW text, unsent \o text \in Seq(Chars),
         Holds(l, unsent \o text), EmitIfFull(l, text)
  PROVE  /\ log' \in LogType /\ log'.w_idx < Size
         /\ log'.w_idx = 0 \/ log'.w_idx = l.w_idx
         /\ log'.frame_start_time = l.frame_start_time
         /\ log'.is_enabled = l.is_enabled
         /\ unsent' \in Seq(Chars) /\ Holds(log', unsent')
         /\ \A d \in 1 .. Len(sent') : Delivers(sent'[d])
         /\ \/ waited' = 0
            \/ (log' = l /\ l.is_enabled /\ waited' = waited)
<1>1. Size \in Nat \ {0} /\ l.w_idx \in 0 .. Size
  BY LogAssumption DEF LogType
<1>2. CASE l.w_idx >= Size
  <2>1. emit(l, text)
    BY <1>2 DEF EmitIfFull
  <2> QED BY <1>1, <2>1, EmitFacts
<1>3. CASE ~(l.w_idx >= Size)
  <2>1. Keep(l, text)
    BY <1>3 DEF EmitIfFull
  <2>2. log' = l /\ unsent' = unsent \o text /\ sent' = <<>>
        /\ (waited' = 0 \/ (l.is_enabled /\ waited' = waited))
    BY <2>1 DEF Keep
  <2>3. l.w_idx < Size
    BY <1>1, <1>3
  <2>4. \A d \in 1 .. Len(sent') : Delivers(sent'[d])
    BY <2>2
  <2> QED BY <2>2, <2>3, <2>4
<1> QED BY <1>2, <1>3

\* What Keep does when nothing is written.
LEMMA KeepFacts ==
  ASSUME OrderInv, NEW l \in LogType, l.w_idx = log.w_idx, l.buf = log.buf, Keep(l, <<>>)
  PROVE  /\ log' = l /\ unsent' = unsent /\ Holds(log', unsent')
         /\ \A d \in 1 .. Len(sent') : Delivers(sent'[d])
         /\ waited' = 0 \/ (l.is_enabled /\ waited' = waited)
<1>1. unsent \o <<>> = unsent
  BY DEF OrderInv
<1>2. log' = l /\ unsent' = unsent /\ sent' = <<>>
  BY <1>1 DEF Keep
<1>3. Holds(log', unsent')
  BY <1>2 DEF OrderInv, Holds
<1>4. waited' = 0 \/ (l.is_enabled /\ waited' = waited)
  BY DEF Keep
<1> QED BY <1>2, <1>3, <1>4

\* Unsigned differences between two values of millis().
LEMMA ElapsedFacts ==
  ASSUME NEW t \in Clock, NEW u \in Clock
  PROVE  /\ Advance(t) \in Clock
         /\ Elapsed(t, u) \in Nat
         /\ Elapsed(t, u) + 1 < ClockMod =>
              Elapsed(Advance(t), u) = Elapsed(t, u) + 1
BY ClockAssumption DEF Clock, Elapsed, Advance

----------------------------------------------------------------------------
(* The steps.                                                              *)

LEMMA InitLog == LogInit => OrderInv /\ FlushInv
<1> SUFFICES ASSUME LogInit PROVE OrderInv /\ FlushInv
  OBVIOUS
<1>1. Size \in Nat \ {0} /\ ClockMod \in Nat \ {0} /\ Interval \in Nat
  BY LogAssumption, ClockAssumption
<1>2. [i \in 1 .. Size |-> 0] \in Buffer /\ 0 \in 0 .. Size /\ 0 \in Clock
  BY <1>1 DEF Buffer, Clock
<1>3. log \in LogType /\ log.w_idx = 0
  BY <1>2 DEF LogInit, LogType
<1>4. OrderInv
  BY <1>1, <1>2, <1>3 DEF LogInit, OrderInv, Holds
<1>5. FlushInv
  BY <1>1 DEF LogInit, FlushInv
<1> QED BY <1>4, <1>5

\* A step between two ticks keeps the flush in time if it leaves the start time
\* of waiting characters alone.
LEMMA SameTime ==
  ASSUME FlushInv, now' = now, ran' = ran,
         \/ waited' = 0
         \/ /\ waited' = waited /\ log'.is_enabled
            /\ waited > 0 => /\ log'.w_idx # 0
                             /\ log'.frame_start_time = log.frame_start_time
  PROVE  FlushInv'
<1>1. Interval \in Nat
  BY LogAssumption
<1>2. CASE waited' = 0
  BY <1>1, <1>2 DEF FlushInv
<1>3. CASE /\ waited' = waited /\ log'.is_enabled
           /\ waited > 0 => /\ log'.w_idx # 0
                            /\ log'.frame_start_time = log.frame_start_time
  BY <1>1, <1>3 DEF FlushInv
<1> QED BY <1>2, <1>3

\* Writing text that fits, by either write, into a frame whose start time is
\* set at most when it begins.
LEMMA WriteLog ==
  ASSUME OrderInv, FlushInv, NEW l \in LogType, NEW text \in Seq(Chars),
         text # <<>>,
         l.buf = log.buf, l.w_idx = log.w_idx,
         l.frame_start_time = log.frame_start_time \/ log.w_idx = 0,
         log.w_idx + Len(text) <= Size,
         EmitIfFull(Copy(l, text), text),
         now' = now, ran' = ran, todo' \in Seq(Chars)
  PROVE  OrderInv' /\ FlushInv'
<1> DEFINE c == Copy(l, text)
<1>1. unsent \in Seq(Chars) /\ Holds(l, unsent) /\ now \in Clock /\ log.w_idx \in Nat
  BY DEF OrderInv, Holds, LogType
<1>2. /\ c \in LogType /\ c.w_idx = l.w_idx + Len(text)
      /\ c.frame_start_time = l.frame_start_time /\ c.is_enabled = l.is_enabled
      /\ unsent \o text \in Seq(Chars) /\ Holds(c, unsent \o text)
  BY <1>1, CopyFacts
<1>3. Len(text) \in Nat \ {0}
  BY EmptySeq, LenProperties
<1> HIDE DEF c
<1>4. /\ log' \in LogType /\ log'.w_idx < Size
      /\ unsent' \in Seq(Chars) /\ Holds(log', unsent')
      /\ \A d \in 1 .. Len(sent') : Delivers(sent'[d])
      /\ waited' = 0 \/ (log' = c /\ c.is_enabled /\ waited' = waited)
  BY <1>2, FullFacts DEF c
<1>5. OrderInv'
  BY <1>1, <1>4 DEF OrderInv
<1>6. CASE waited' = 0
  BY <1>5, <1>6, SameTime
<1>7. CASE log' = c /\ c.is_enabled /\ waited' = waited
  <2>1. log'.w_idx # 0
    BY <1>1, <1>2, <1>3, <1>7
  <2>2. waited > 0 => log.w_idx # 0
    BY DEF FlushInv
  <2> QED BY <1>2, <1>5, <1>7, <2>1, <2>2, SameTime
<1> QED BY <1>4, <1>5, <1>6, <1>7

LEMMA NextLog == OrderInv /\ FlushInv /\ [Next]_vars => OrderInv' /\ FlushInv'
<1> SUFFICES ASSUME OrderInv, FlushInv, [Next]_vars PROVE OrderInv' /\ FlushInv'
  OBVIOUS
<1>1. /\ log \in LogType /\ log.w_idx < Size /\ log.w_idx \in Nat
      /\ now \in Clock /\ log.frame_start_time \in Clock
      /\ todo \in Seq(Chars) /\ unsent \in Seq(Chars) /\ Holds(log, unsent)
      /\ Size \in Nat \ {0} /\ Interval \in Nat /\ waited \in Nat
  BY LogAssumption DEF OrderInv, FlushInv, LogType
<1>2. ASSUME NEW is_enabled \in BOOLEAN, set_enable(is_enabled)
      PROVE  OrderInv' /\ FlushInv'
  <2> DEFINE l == [log EXCEPT !.is_enabled = is_enabled]
  <2>1. l \in LogType /\ l.w_idx = log.w_idx /\ l.buf = log.buf
        /\ l.frame_start_time = log.frame_start_time
    BY <1>1 DEF LogType
  <2>2. Keep(l, <<>>) /\ todo' = todo /\ now' = now /\ ran' = ran
    BY <1>2 DEF set_enable
  <2> HIDE DEF l
  <2>3. /\ log' = l /\ unsent' = unsent /\ Holds(log', unsent')
        /\ \A d \in 1 .. Len(sent') : Delivers(sent'[d])
        /\ waited' = 0 \/ (l.is_enabled /\ waited' = waited)
    BY <2>1, <2>2, KeepFacts
  <2>4. OrderInv'
    BY <1>1, <2>1, <2>2, <2>3 DEF OrderInv
  <2>5. waited > 0 => log.w_idx # 0
    BY DEF FlushInv
  <2>6. FlushInv'
    BY <2>1, <2>2, <2>3, <2>5, SameTime
  <2> QED BY <2>4, <2>6
<1>3. ASSUME NEW ch \in Chars, write_ch(ch)
      PROVE  OrderInv' /\ FlushInv'
  <2>1. <<ch>> \in Seq(Chars) /\ <<ch>> # <<>> /\ Len(<<ch>>) = 1
    OBVIOUS
  <2>2. EmitIfFull(Copy(log, <<ch>>), <<ch>>) /\ todo' = todo /\ now' = now /\ ran' = ran
    BY <1>3 DEF write_ch
  <2>3. log.w_idx + Len(<<ch>>) <= Size
    BY <1>1, <2>1
  <2> QED BY <1>1, <2>1, <2>2, <2>3, WriteLog
<1>4. ASSUME NEW n \in 1 .. MaxText, NEW text \in [1 .. n -> Chars], write(text)
      PROVE  OrderInv' /\ FlushInv'
  <2>1. text \in Seq(Chars)
    BY LogAssumption, SeqDef
  <2>2. Keep(log, <<>>) /\ todo' = text /\ now' = now /\ ran' = ran
    BY <1>4 DEF write
  <2>3. /\ log' = log /\ unsent' = unsent /\ Holds(log', unsent')
        /\ \A d \in 1 .. Len(sent') : Delivers(sent'[d])
        /\ waited' = 0 \/ (log.is_enabled /\ waited' = waited)
    BY <1>1, <2>2, KeepFacts
  <2>4. OrderInv'
    BY <1>1, <2>1, <2>2, <2>3 DEF OrderInv
  <2>5. waited > 0 => log.w_idx # 0
    BY DEF FlushInv
  <2>6. FlushInv'
    BY <2>2, <2>3, <2>5, SameTime
  <2> QED BY <2>4, <2>6
<1>5. ASSUME write_loop PROVE OrderInv' /\ FlushInv'
  <2> DEFINE n == Fits(Size - log.w_idx)
             l == [log EXCEPT !.frame_start_time = IF log.w_idx = 0 THEN now ELSE @]
             text == SubSeq(todo, 1, n)
  <2>1. todo # <<>> /\ Len(todo) \in Nat \ {0}
    BY <1>1, <1>5, EmptySeq, LenProperties DEF write_loop
  <2>2. n \in 1 .. Len(todo) /\ log.w_idx + n <= Size
    BY <1>1, <2>1 DEF Fits
  <2>3. /\ EmitIfFull(Copy(l, text), text)
        /\ todo' = SubSeq(todo, n + 1, Len(todo)) /\ now' = now /\ ran' = ran
    BY <1>5 DEF write_loop
  <2>4. l \in LogType /\ l.buf = log.buf /\ l.w_idx = log.w_idx
        /\ (l.frame_start_time = log.frame_start_time \/ log.w_idx = 0)
    BY <1>1 DEF LogType
  <2> HIDE DEF l, n
  <2>5. text \in Seq(Chars) /\ Len(text) = n
    BY <1>1, <2>2, SubSeqProperties
  <2>6. todo' \in Seq(Chars)
    BY <1>1, <2>1, <2>2, <2>3, SubSeqProperties
  <2>7. text # <<>>
    BY <2>2, <2>5, EmptySeq
  <2> HIDE DEF text
  <2> QED BY <2>2, <2>3, <2>4, <2>5, <2>6, <2>7, WriteLog
<1>6. ASSUME loop PROVE OrderInv' /\ FlushInv'
  <2> DEFINE Old == /\ log.is_enabled /\ log.w_idx # 0
                    /\ Elapsed(now, log.frame_start_time) > Interval
  <2>1. todo' = todo /\ now' = now /\ ran' = TRUE
    BY <1>6 DEF loop
  <2>2. CASE Old
    <3>1. emit(log, <<>>)
      BY <1>6, <2>2 DEF loop
    <3>2. unsent \o <<>> = unsent
      BY <1>1
    <3>3. /\ log' \in LogType /\ log'.w_idx = 0 /\ unsent' \in Seq(Chars)
          /\ Holds(log', unsent')
          /\ \A d \in 1 .. Len(sent') : Delivers(sent'[d])
          /\ waited' = 0
      BY <1>1, <3>1, <3>2, EmitFacts
    <3> QED BY <1>1, <2>1, <3>3 DEF OrderInv, FlushInv
  <2>3. CASE ~Old
    <3>1. Keep(log, <<>>)
      BY <1>6, <2>3 DEF loop
    <3>2. /\ log' = log /\ unsent' = unsent /\ Holds(log', unsent')
          /\ \A d \in 1 .. Len(sent') : Delivers(sent'[d])
          /\ waited' = 0 \/ waited' = waited
      BY <1>1, <3>1, KeepFacts
    <3>3. OrderInv'
      BY <1>1, <2>1, <3>2 DEF OrderInv
    <3>4. Elapsed(now, log.frame_start_time) \in Nat
      BY <1>1, ElapsedFacts
    <3>5. FlushInv'
      BY <1>1, <2>1, <2>3, <3>2, <3>4 DEF FlushInv
    <3> QED BY <3>3, <3>5
  <2> QED BY <2>2, <2>3
<1>7. ASSUME Tick PROVE OrderInv' /\ FlushInv'
  <2> DEFINE e == Elapsed(now, log.frame_start_time)
  <2>1. /\ ran /\ ran' = FALSE /\ now' = Advance(now) /\ sent' = <<>>
        /\ log' = log /\ todo' = todo /\ unsent' = unsent
        /\ waited' = IF log.is_enabled /\ log.w_idx # 0 THEN waited + 1 ELSE 0
    BY <1>7 DEF Tick
  <2>2. /\ now' \in Clock /\ e \in Nat
        /\ Elapsed(now', log.frame_start_time) \in Nat
        /\ e + 1 < ClockMod => Elapsed(now', log.frame_start_time) = e + 1
    BY <1>1, <2>1, ElapsedFacts
  <2>3. OrderInv'
    BY <1>1, <2>1, <2>2 DEF OrderInv, Holds
  <2>4. ClockMod \in Nat /\ ClockMod > Interval + 1
    BY ClockAssumption, LogAssumption
  <2>5. waited > 0 => waited <= e + 1 /\ e <= Interval
    BY <2>1 DEF FlushInv
  <2> HIDE DEF e
  <2>6. FlushInv'
    BY <1>1, <2>1, <2>2, <2>4, <2>5 DEF FlushInv
  <2> QED BY <2>3, <2>6
<1>8. CASE UNCHANGED vars
  BY <1>8 DEF vars, OrderInv, FlushInv, Holds, Delivers
<1> QED BY <1>2, <1>3, <1>4, <1>5, <1>6, <1>7, <1>8 DEF Next

\* The strengthening the three theorems below share is an invariant.
THEOREM LogInvariance == Spec => [](OrderInv /\ FlushInv)
BY InitLog, NextLog, PTL DEF Spec

\* The members of the log keep their types, so that both writes always find
\* room (LogTypeOK).
THEOREM LogTypeCorrect == Spec => []LogTypeOK
<1>1. OrderInv => LogTypeOK
  BY LogAssumption DEF OrderInv, LogTypeOK, LogType, Buffer
<1> QED BY <1>1, LogInvariance, PTL

\* What is written leaves the log in order and without gaps (LogInOrder).
THEOREM LogOrdered == Spec => []LogInOrder
<1>1. OrderInv => LogInOrder
  BY DEF OrderInv, LogInOrder, Holds, Delivers
<1> QED BY <1>1, LogInvariance, PTL

\* No character waits longer than the interval and two passes (FlushInTime).
THEOREM FlushedInTime == Spec => []FlushInTime
<1>1. OrderInv /\ FlushInv => FlushInTime
  <2> SUFFICES ASSUME OrderInv, FlushInv PROVE FlushInTime
    OBVIOUS
  <2>1. Interval \in Nat /\ Elapsed(now, log.frame_start_time) \in Nat /\ waited \in Nat
    BY LogAssumption, ElapsedFacts DEF OrderInv, FlushInv, LogType
  <2> QED BY <2>1 DEF FlushInv, FlushInTime
<1> QED BY <1>1, LogInvariance, PTL
=============================================================================
