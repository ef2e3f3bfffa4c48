----------------------------- MODULE HmiProofs -----------------------------
(***************************************************************************)
(* Proofs about Hmi for every number of errors, every table of blinks and  *)
(* all delays.                                                             *)
(***************************************************************************)
EXTENDS Hmi, WellFoundedInduction, TLAPS

HmiType == [state : HmiStates, state_entry_time : Clock,
            error_idx : 0 .. NumberOfErrors, blinks_remaining : 0 .. 255,
            led : BOOLEAN]

\* Blinks shown and blinks left add up to the table's entry; while the LED is
\* on, the present blink is in both.
Account ==
  /\ hmi.state \in {"PATTERN_ON", "PATTERN_OFF"} => hmi.error_idx \in Errors
  /\ hmi.state = "PATTERN_ON" =>
       /\ hmi.blinks_remaining > 0
       /\ flashes + hmi.blinks_remaining = s_blink_count[hmi.error_idx] + 1
  /\ hmi.state = "PATTERN_OFF" =>
       flashes + hmi.blinks_remaining = s_blink_count[hmi.error_idx]
  /\ hmi.state = "INTRA_PATTERN_DELAY" /\ hmi.error_idx # NumberOfErrors =>
       flashes = s_blink_count[hmi.error_idx]

HmiInv == HmiTypeOK /\ Account

\* A set of naturals that is not empty has a least element, which Min returns.
LEMMA MinFacts ==
  ASSUME NEW S \in SUBSET Nat, S # {}
  PROVE  Min(S) \in S
<1> DEFINE LT == {ss \in Nat \X Nat : ss[1] < ss[2]}
<1>1. IsWellFoundedOn(LT, Nat)
  <2>1. OpToRel(<, Nat) = LT
    BY Zenon DEF OpToRel
  <2> QED BY <2>1, NatLessThanWellFounded, Zenon
<1> HIDE DEF LT
<1>2. PICK x \in S : \A y \in S : ~(<<y, x>> \in LT)
  BY <1>1, WFMin, Zenon
<1>3. \A y \in S : x <= y
  <2> SUFFICES ASSUME NEW y \in S PROVE x <= y
    OBVIOUS
  <2>1. x \in Nat /\ y \in Nat
    OBVIOUS
  <2>2. y < x => <<y, x>> \in LT
    BY <2>1 DEF LT
  <2> QED BY <1>2, <2>1, <2>2
<1> QED BY <1>3 DEF Min

\* The remainders of a division by the number of errors are errors.
LEMMA FurtherFacts ==
  ASSUME NEW idx \in 0 .. NumberOfErrors, NEW k \in 1 .. NumberOfErrors
  PROVE  Further(idx, k) \in Errors
BY HmiAssumption DEF Further, Errors

\* Going round the table once reaches every error.
LEMMA FurtherOnto ==
  ASSUME NEW idx \in 0 .. NumberOfErrors, NEW e \in Errors
  PROVE  \E k \in 1 .. NumberOfErrors : Further(idx, k) = e
<1>1. NumberOfErrors \in Nat \ {0} /\ e \in Nat /\ e < NumberOfErrors /\ idx \in Nat
      /\ idx <= NumberOfErrors
  BY HmiAssumption DEF Errors
<1>2. CASE idx = NumberOfErrors
  <2>1. e + 1 \in 1 .. NumberOfErrors /\ e % NumberOfErrors = e
    BY <1>1
  <2>2. Further(idx, e + 1) = e
    BY <1>1, <1>2, <2>1 DEF Further
  <2> QED BY <2>1, <2>2
<1>3. CASE idx < NumberOfErrors /\ e > idx
  <2>1. e - idx \in 1 .. NumberOfErrors /\ e % NumberOfErrors = e
    BY <1>1, <1>3
  <2>2. Further(idx, e - idx) = e
    BY <1>1, <1>3, <2>1 DEF Further
  <2> QED BY <2>1, <2>2
<1>4. CASE idx < NumberOfErrors /\ e <= idx
  <2>1. /\ e - idx + NumberOfErrors \in 1 .. NumberOfErrors
        /\ (e + NumberOfErrors) % NumberOfErrors = e
    BY <1>1, <1>4
  <2>2. Further(idx, e - idx + NumberOfErrors) = e
    BY <1>1, <1>4, <2>1 DEF Further
  <2> QED BY <2>1, <2>2
<1> QED BY <1>1, <1>2, <1>3, <1>4

\* Entering a state keeps the types and the counters.
LEMMA StateFacts ==
  ASSUME NEW h \in HmiType, NEW s \in HmiStates, now \in Clock
  PROVE  /\ set_state(h, s) \in HmiType
         /\ set_state(h, s).state = s
         /\ set_state(h, s).error_idx = h.error_idx
         /\ set_state(h, s).blinks_remaining = h.blinks_remaining
<1> DEFINE lit == s \in {"PATTERN_ON", "NO_ERROR_ENTER"}
<1>1. lit \in BOOLEAN
  <2>1. lit = TRUE \/ lit = FALSE
    OBVIOUS
  <2> QED BY <2>1
<1>2. set_state(h, s) = [h EXCEPT !.state = s, !.state_entry_time = now, !.led = lit]
  BY Zenon DEF set_state
<1> HIDE DEF lit
<1> QED BY <1>1, <1>2 DEF HmiType

\* A pattern starts with an error of the table and all of its blinks.
LEMMA ShowFacts ==
  ASSUME NEW h \in HmiType, now \in Clock, active_errors \subseteq Errors
  PROVE  /\ ShowNext(h) \in HmiType
         /\ \/ ShowNext(h).state = "NO_ERROR_ENTER"
            \/ /\ ShowNext(h).state = "PATTERN_ON"
               /\ ShowNext(h).error_idx \in Errors
               /\ ShowNext(h).blinks_remaining = s_blink_count[ShowNext(h).error_idx]
<1>1. CASE active_errors = {}
  BY <1>1, StateFacts DEF ShowNext, HmiStates
<1>2. CASE active_errors # {}
  <2> DEFINE steps == {k \in 1 .. NumberOfErrors :
                         Further(h.error_idx, k) \in active_errors}
             error == Further(h.error_idx, Min(steps))
             g == [h EXCEPT !.error_idx = error,
                            !.blinks_remaining = s_blink_count[error]]
  <2>1. h.error_idx \in 0 .. NumberOfErrors
    BY DEF HmiType
  <2>2. steps # {}
    <3>1. PICK e \in Errors : e \in active_errors
      BY <1>2
    <3>2. \E k \in 1 .. NumberOfErrors : Further(h.error_idx, k) = e
      BY <2>1, HmiAssumption, FurtherOnto
    <3> QED BY <3>1, <3>2
  <2>3. Min(steps) \in steps
    BY <2>2, MinFacts, HmiAssumption
  <2>4. error \in Errors
    BY <2>1, <2>3, FurtherFacts
  <2>5. select_error_to_show(h) = g
    BY DEF select_error_to_show
  <2> HIDE DEF error
  <2>6. /\ g \in HmiType /\ g.error_idx = error
        /\ g.blinks_remaining = s_blink_count[error]
    <3>1. error \in 0 .. NumberOfErrors
      BY <2>4, HmiAssumption DEF Errors
    <3>2. s_blink_count[error] \in 0 .. 255
      <4>1. s_blink_count[error] \in 1 .. 255
        BY <2>4, HmiAssumption
      <4> QED BY <4>1
    <3> QED BY <3>1, <3>2 DEF HmiType
  <2> HIDE DEF g
  <2>7. ShowNext(h) = set_state(g, "PATTERN_ON")
    BY <1>2, <2>5 DEF ShowNext
  <2> QED BY <2>4, <2>6, <2>7, StateFacts DEF HmiStates
<1> QED BY <1>1, <1>2

\* Initially nothing has been shown.
LEMMA InitHmi == Init => HmiInv
<1> SUFFICES ASSUME Init PROVE HmiInv
  OBVIOUS
<1>1. 0 \in Clock /\ NumberOfErrors \in 0 .. NumberOfErrors
  BY ClockAssumption, HmiAssumption DEF Clock
<1>2. HmiTypeOK
  <2>1. looped \in BOOLEAN
    BY Zenon DEF Init
  <2>2. hmi \in HmiType
    BY <1>1 DEF Init, HmiType, HmiStates
  <2> QED BY <2>1, <2>2 DEF Init, HmiTypeOK, HmiType
<1>3. Account
  BY DEF Init, Account
<1> QED BY <1>2, <1>3 DEF HmiInv

\* Every branch of loop() keeps the account.
LEMMA LoopHmi ==
  ASSUME HmiInv, loop
  PROVE  HmiInv'
<1>1. /\ hmi \in HmiType /\ now \in Clock /\ active_errors \subseteq Errors
      /\ now' = now /\ active_errors' = active_errors /\ flashes \in 0 .. 255
  BY DEF HmiInv, HmiTypeOK, HmiType, loop
<1>2. looped' \in BOOLEAN
  BY Zenon DEF loop
<1>3. \A e \in Errors : s_blink_count[e] \in 1 .. 255
  BY HmiAssumption
<1>4. hmi.blinks_remaining \in 0 .. 255
  BY <1>1 DEF HmiType
<1> SUFFICES hmi' \in HmiType /\ flashes' \in 0 .. 255 /\ Account'
  BY <1>1, <1>2 DEF HmiInv, HmiTypeOK, HmiType
<1>5. CASE hmi' = hmi
  BY <1>1, <1>5 DEF HmiInv, Account, loop
<1>6. CASE /\ hmi.state \in {"INTRA_PATTERN_DELAY", "NO_ERROR_ENTER", "NO_ERROR_OFF"}
           /\ hmi' = ShowNext(hmi)
  <2>1. /\ hmi' \in HmiType
        /\ \/ hmi'.state = "NO_ERROR_ENTER"
           \/ /\ hmi'.state = "PATTERN_ON" /\ hmi'.error_idx \in Errors
              /\ hmi'.blinks_remaining = s_blink_count[hmi'.error_idx]
    BY <1>1, <1>6, ShowFacts
  <2>2. CASE hmi'.state = "NO_ERROR_ENTER"
    BY <1>1, <2>1, <2>2 DEF Account, loop
  <2>3. CASE hmi'.state = "PATTERN_ON"
    <3>1. flashes' = 1
      BY <1>6, <2>3 DEF loop
    <3>2. s_blink_count[hmi'.error_idx] \in 1 .. 255
      BY <1>3, <2>1, <2>3
    <3> QED BY <2>1, <2>3, <3>1, <3>2 DEF Account
  <2> QED BY <2>1, <2>2, <2>3
<1>7. CASE /\ hmi.state = "NO_ERROR_ENTER"
           /\ hmi' = set_state(hmi, "NO_ERROR_OFF")
  <2>1. hmi' \in HmiType /\ hmi'.state = "NO_ERROR_OFF"
    BY <1>1, <1>7, StateFacts DEF HmiStates
  <2> QED BY <1>1, <2>1 DEF Account, loop
<1>8. CASE /\ hmi.state = "PATTERN_ON"
           /\ hmi' = set_state([hmi EXCEPT !.blinks_remaining =
                                             IF @ = 0 THEN 255 ELSE @ - 1],
                               "PATTERN_OFF")
  <2> DEFINE g == [hmi EXCEPT !.blinks_remaining = hmi.blinks_remaining - 1]
  <2>1. /\ hmi.blinks_remaining > 0 /\ hmi.error_idx \in Errors
        /\ flashes + hmi.blinks_remaining = s_blink_count[hmi.error_idx] + 1
    BY <1>8 DEF HmiInv, Account
  <2>2. /\ g \in HmiType /\ g.error_idx = hmi.error_idx
        /\ g.blinks_remaining = hmi.blinks_remaining - 1
    BY <1>1, <1>4, <2>1 DEF HmiType
  <2>3. hmi' = set_state(g, "PATTERN_OFF")
    BY <1>1, <1>4, <1>8, <2>1 DEF HmiType
  <2> HIDE DEF g
  <2>4. /\ hmi' \in HmiType /\ hmi'.state = "PATTERN_OFF"
        /\ hmi'.error_idx = hmi.error_idx
        /\ hmi'.blinks_remaining = hmi.blinks_remaining - 1
    BY <1>1, <2>2, <2>3, StateFacts DEF HmiStates
  <2>5. flashes' = flashes /\ s_blink_count[hmi.error_idx] \in 1 .. 255
    BY <1>3, <2>1, <2>4 DEF loop
  <2>6. flashes' + hmi'.blinks_remaining = s_blink_count[hmi'.error_idx]
    <3> DEFINE n == s_blink_count[hmi.error_idx]
               r == hmi.blinks_remaining
    <3>1. n \in 1 .. 255 /\ r \in 0 .. 255 /\ flashes + r = n + 1
      BY <1>4, <2>1, <2>5
    <3>2. flashes' + hmi'.blinks_remaining = flashes + (r - 1)
      BY <2>4, <2>5
    <3>3. s_blink_count[hmi'.error_idx] = n
      BY <2>4
    <3> HIDE DEF n, r
    <3>4. flashes + (r - 1) = n
      BY <1>1, <3>1
    <3> QED BY <3>2, <3>3, <3>4
  <2>7. flashes' \in 0 .. 255
    BY <1>1, <2>5
  <2> QED BY <2>1, <2>4, <2>6, <2>7 DEF Account
<1>9. CASE /\ hmi.state = "PATTERN_OFF"
           /\ hmi' = set_state(hmi, IF hmi.blinks_remaining = 0
                                      THEN "INTRA_PATTERN_DELAY" ELSE "PATTERN_ON")
  <2>1. /\ hmi.error_idx \in Errors
        /\ flashes + hmi.blinks_remaining = s_blink_count[hmi.error_idx]
        /\ s_blink_count[hmi.error_idx] \in 1 .. 255
    BY <1>3, <1>9 DEF HmiInv, Account
  <2>2. CASE hmi.blinks_remaining = 0
    <3>1. /\ hmi' \in HmiType /\ hmi'.state = "INTRA_PATTERN_DELAY"
          /\ hmi'.error_idx = hmi.error_idx
      BY <1>1, <1>9, <2>2, StateFacts DEF HmiStates
    <3>2. flashes' = flashes
      BY <3>1 DEF loop
    <3> QED BY <1>1, <2>1, <2>2, <3>1, <3>2 DEF Account
  <2>3. CASE hmi.blinks_remaining # 0
    <3>1. /\ hmi' \in HmiType /\ hmi'.state = "PATTERN_ON"
          /\ hmi'.error_idx = hmi.error_idx
          /\ hmi'.blinks_remaining = hmi.blinks_remaining
      BY <1>1, <1>9, <2>3, StateFacts DEF HmiStates
    <3>2. flashes' = flashes + 1
      BY <1>9, <3>1 DEF loop
    <3>3. /\ flashes' + hmi'.blinks_remaining = s_blink_count[hmi'.error_idx] + 1
          /\ hmi'.blinks_remaining > 0
      BY <1>1, <1>4, <2>1, <2>3, <3>1, <3>2
    <3>4. flashes' \in 0 .. 255
      <4> DEFINE n == s_blink_count[hmi.error_idx]
                 r == hmi.blinks_remaining
      <4>1. n \in 1 .. 255 /\ r \in 1 .. 255 /\ flashes + r = n
        BY <1>4, <2>1, <2>3
      <4> HIDE DEF n, r
      <4> QED BY <1>1, <3>2, <4>1
    <3> QED BY <2>1, <3>1, <3>3, <3>4 DEF Account
  <2> QED BY <2>2, <2>3
<1> QED
  BY <1>5, <1>6, <1>7, <1>8, <1>9
     DEF loop, LoopIntraDelay, LoopPatternOn, LoopPatternOff, LoopNoErrorEnter,
         LoopNoErrorOff

\* set_error and the passing of time leave the pattern alone.
LEMMA NextHmi == HmiInv /\ [Next]_vars => HmiInv'
<1> SUFFICES ASSUME HmiInv, [Next]_vars PROVE HmiInv'
  OBVIOUS
<1>1. CASE loop
  BY <1>1, LoopHmi
<1>2. ASSUME NEW error \in Errors, NEW b \in BOOLEAN, set_error(error, b)
      PROVE  HmiInv'
  <2>1. active_errors' \subseteq Errors
    BY <1>2 DEF set_error, ErrorsAfter, HmiInv, HmiTypeOK
  <2> QED BY <1>2, <2>1 DEF set_error, HmiInv, HmiTypeOK, Account
<1>3. CASE Tick
  <2>1. now' \in Clock
    BY <1>3, ClockAssumption DEF Tick, HmiInv, HmiTypeOK, Clock, Advance
  <2>2. looped' \in BOOLEAN
    BY <1>3, Zenon DEF Tick
  <2> QED BY <1>3, <2>1, <2>2 DEF Tick, HmiInv, HmiTypeOK, Account
<1>4. CASE UNCHANGED vars
  BY <1>4 DEF vars, HmiInv, HmiTypeOK, Account
<1> QED BY <1>1, <1>2, <1>3, <1>4 DEF Next

\* The members of the Hmi keep their types, _blinks_remaining among them.
THEOREM HmiTypeCorrect == Spec => []HmiTypeOK
<1>1. HmiInv => HmiTypeOK
  BY DEF HmiInv
<1> QED BY <1>1, InitHmi, NextHmi, PTL DEF Spec

\* Whatever is set and cleared meanwhile, a pattern has the blinks of its error.
THEOREM PatternsCount == Spec => []PatternCounts
<1>1. HmiInv => PatternCounts
  BY DEF HmiInv, Account, PatternCounts
<1> QED BY <1>1, InitHmi, NextHmi, PTL DEF Spec
=============================================================================
