----------------------- MODULE ChargeControllerProofs -----------------------
(***************************************************************************)
(* Proofs about ChargeController for any phases, any fuse, any currents    *)
(* and all timeouts that fit the clock.                                    *)
(***************************************************************************)
EXTENDS ChargeController, FiniteSetTheorems, WellFoundedInduction, TLAPS

----------------------------------------------------------------------------
(* Minimum, division and byte order.                                       *)

\* A set of naturals that is not empty has a least element.
LEMMA LeastNatural ==
  ASSUME NEW S \in SUBSET Nat, S # {}
  PROVE  \E x \in S : \A y \in S : x <= y
<1> DEFINE LT == {ss \in Nat \X Nat : ss[1] < ss[2]}
<1>1. IsWellFoundedOn(LT, Nat)
  <2>1. OpToRel(<, Nat) = LT
    BY Zenon DEF OpToRel
  <2> QED BY <2>1, NatLessThanWellFounded, Zenon
<1> HIDE DEF LT
<1>2. PICK x \in S : \A y \in S : ~(<<y, x>> \in LT)
  BY <1>1, WFMin, Zenon
<1>3. \A y \in S : y < x => <<y, x>> \in LT
  BY DEF LT
<1>4. ASSUME NEW y \in S PROVE x <= y
  <2>1. x \in Nat /\ y \in Nat
    OBVIOUS
  <2>2. ~(y < x)
    BY <1>2, <1>3
  <2> QED BY <2>1, <2>2
<1> QED BY <1>4

\* A finite set of integers that is not empty has a least element, which Min
\* returns: it is the one with the fewest elements below it.
LEMMA MinFacts ==
  ASSUME NEW S \in SUBSET Int, IsFiniteSet(S), S # {}
  PROVE  Min(S) \in S /\ \A y \in S : Min(S) <= y
<1> DEFINE Below(x) == {y \in S : y < x}
           Counts == {Cardinality(Below(x)) : x \in S}
<1>1. ASSUME NEW x \in S PROVE IsFiniteSet(Below(x)) /\ Cardinality(Below(x)) \in Nat
  BY FS_Subset, FS_CardinalityType
<1>2. PICK n \in Counts : \A k \in Counts : n <= k
  <2>1. Counts \in SUBSET Nat /\ Counts # {}
    BY <1>1
  <2> HIDE DEF Counts
  <2> QED BY <2>1, LeastNatural
<1>3. PICK x \in S : n = Cardinality(Below(x))
  OBVIOUS
<1>4. \A y \in S : x <= y
  <2> SUFFICES ASSUME NEW y \in S, ~(x <= y) PROVE FALSE
    OBVIOUS
  <2>1. y \in Below(x) /\ y \notin Below(y) /\ Below(y) \subseteq Below(x)
    <3>1. y < x
      OBVIOUS
    <3>2. \A z \in S : z < y => z < x
      BY <3>1
    <3>3. ~(y < y)
      OBVIOUS
    <3>4. y \in Below(x)
      BY <3>1
    <3>5. y \notin Below(y)
      BY <3>3
    <3>6. Below(y) \subseteq Below(x)
      BY <3>2
    <3> QED BY <3>4, <3>5, <3>6
  <2>2. Cardinality(Below(y)) < Cardinality(Below(x))
    <3> HIDE DEF Below
    <3> QED BY <1>1, <2>1, FS_Subset
  <2>3. n <= Cardinality(Below(y))
    BY <1>2
  <2> HIDE DEF Below, Counts
  <2>4. Cardinality(Below(x)) \in Nat /\ Cardinality(Below(y)) \in Nat
    BY <1>1
  <2> QED BY <1>3, <2>2, <2>3, <2>4
<1>5. \E z \in S : \A y \in S : z <= y
  BY <1>4
<1> QED BY <1>5 DEF Min

\* The values of a uint16_t.
LEMMA WordIn == ASSUME NEW v \in Int, 0 <= v, v <= 65535 PROVE v \in Word
<1>1. PICK n \in Nat : n = 65535
  BY SMT
<1>2. v <= n
  BY <1>1, SMT
<1>3. v \in 0 .. n
  BY <1>2, SMT
<1>4. Word = 0 .. n
  BY <1>1, SMT DEF Word
<1> QED BY <1>3, <1>4

LEMMA WordOut == ASSUME NEW v \in Word PROVE v \in Int /\ 0 <= v /\ v <= 65535
BY SMT DEF Word

LEMMA WordRange == \A v : v \in Word <=> v \in Int /\ 0 <= v /\ v <= 65535
BY WordIn, WordOut, SMT

\* Swapping the bytes of a word twice gives the word.
LEMMA SwapFacts ==
  ASSUME NEW v \in Word
  PROVE  swap_b16(v) \in Word /\ swap_b16(swap_b16(v)) = v
<1> DEFINE hi == v \div 256
           lo == v % 256
<1>0. v \in Int /\ 0 <= v /\ v <= 65535
  BY WordRange
<1>1. /\ hi \in Int /\ 0 <= hi /\ hi <= 255
      /\ lo \in Int /\ 0 <= lo /\ lo <= 255
      /\ v = 256 * hi + lo
  BY <1>0
<1>2. swap_b16(v) = hi + 256 * lo
  BY DEF swap_b16
<1> HIDE DEF hi, lo
<1> DEFINE w == hi + 256 * lo
<1>3. w \in Int /\ 0 <= w /\ w <= 65535
  BY <1>1
<1>4. w \div 256 = lo /\ w % 256 = hi
  BY <1>1
<1> HIDE DEF w
<1>5. swap_b16(w) = lo + 256 * hi
  BY <1>4 DEF swap_b16
<1>6. w \in Word
  BY <1>3, WordRange
<1>7. swap_b16(w) = v
  BY <1>1, <1>5
<1> QED BY <1>2, <1>6, <1>7 DEF w

\* A limit that the fuse allows, in amperes, is a word: none of its bits are
\* lost in the register, and the charger reads it back.
LEMMA AmpereFacts ==
  ASSUME NEW l \in 0 .. FuseLimit
  PROVE  LET b == swap_b16((l \div MilliPerAmp) % 65536)
         IN  b \in Word /\ swap_b16(b) = l \div MilliPerAmp
<1> DEFINE q == l \div MilliPerAmp
           Q == FuseLimit \div MilliPerAmp
<1>1. /\ l \in Nat /\ FuseLimit \in Nat /\ l <= FuseLimit
      /\ MilliPerAmp \in Nat \ {0} /\ Q \in Word
  BY ControllerAssumption
<1>2. q \in Int /\ MilliPerAmp * q <= l /\ l < MilliPerAmp * (q + 1)
  BY <1>1
<1>3. Q \in Int /\ FuseLimit < MilliPerAmp * (Q + 1)
  BY <1>1
<1>4. Q <= 65535
  BY <1>1, WordRange
<1> HIDE DEF q, Q
<1>5. q >= 0 /\ q <= Q
  <2>1. MilliPerAmp * (q + 1) > 0
    BY <1>1, <1>2
  <2>2. q + 1 > 0
    BY <1>1, <1>2, <2>1
  <2>3. MilliPerAmp * q < MilliPerAmp * (Q + 1)
    BY <1>1, <1>2, <1>3
  <2>4. q < Q + 1
    BY <1>1, <1>2, <1>3, <2>3
  <2> QED BY <1>2, <1>3, <2>2, <2>4
<1>6. q \in Word
  BY <1>2, <1>3, <1>4, <1>5, WordRange
<1>7. q % 65536 = q
  BY <1>2, <1>3, <1>4, <1>5
<1>8. swap_b16(q) \in Word /\ swap_b16(swap_b16(q)) = q
  BY <1>6, SwapFacts
<1> QED BY <1>7, <1>8, SMT DEF q

----------------------------------------------------------------------------
(* The limit.                                                              *)

\* Only phases are considered.
LEMMA ConsideredFacts ==
  ASSUME NEW charger
  PROVE  ConsideredPhases(charger) \subseteq Phase
BY DEF ConsideredPhases

\* The limit is between 0 and the fuse and, unless it is 0, fits the fuse
\* together with the rest of the house on every phase that counts.
LEMMA LimitFacts ==
  ASSUME NEW mains \in [Phase -> Int], NEW charger \in [Phase -> Word]
  PROVE  LET l == determine_current_limit(mains, charger)
         IN  /\ l \in 0 .. FuseLimit
             /\ \A p \in ConsideredPhases(charger) :
                  l = 0 \/ mains[p] - charger[p] + l <= FuseLimit
<1> DEFINE P == ConsideredPhases(charger)
           f == [p \in P |-> FuseLimit - mains[p] + charger[p]]
           R == {FuseLimit - mains[p] + charger[p] : p \in P}
           S == {FuseLimit} \cup R
           m == Min(S)
<1>1. P \subseteq Phase /\ IsFiniteSet(P)
  BY ConsideredFacts, FS_Subset, ControllerAssumption
<1>2. FuseLimit \in Nat
  BY ControllerAssumption
<1>3. ASSUME NEW p \in P
      PROVE  mains[p] \in Int /\ charger[p] \in Int
  BY <1>1, WordRange
<1> HIDE DEF P
<1>4. R \subseteq Int
  BY <1>2, <1>3
<1>5. IsFiniteSet(R)
  <2>1. f \in Surjection(P, R)
    BY DEF Surjection
  <2> HIDE DEF f, R
  <2> QED BY <1>1, <2>1, FS_Surjection
<1>6. S \subseteq Int /\ IsFiniteSet(S) /\ S # {} /\ FuseLimit \in S
  <2> HIDE DEF R
  <2>1. IsFiniteSet(S)
    BY <1>5, FS_AddElement, S = R \cup {FuseLimit}
  <2> QED BY <1>2, <1>4, <2>1
<1>7. m \in S /\ \A y \in S : m <= y
  <2> HIDE DEF S
  <2> QED BY <1>6, MinFacts
<1>8. \A p \in P : m <= FuseLimit - mains[p] + charger[p]
  BY <1>7
<1>9. m \in Int /\ m <= FuseLimit
  BY <1>6, <1>7
<1>10. determine_current_limit(mains, charger) = IF m < 0 THEN 0 ELSE m
  BY DEF determine_current_limit, P
<1> HIDE DEF m, S, R
<1> DEFINE l == determine_current_limit(mains, charger)
<1>11. l \in 0 .. FuseLimit
  BY <1>2, <1>9, <1>10
<1>12. ASSUME NEW p \in P
       PROVE  l = 0 \/ mains[p] - charger[p] + l <= FuseLimit
  <2>1. m <= FuseLimit - mains[p] + charger[p]
    BY <1>8
  <2> QED BY <1>2, <1>3, <1>9, <1>10, <2>1
<1> QED BY <1>11, <1>12 DEF P

\* LimitEncoded, of any controller.
Encoded(c) ==
  /\ c.limit_ma <= FuseLimit
  /\ swap_b16(c.max_charging_current_buf)
       = IF c.limit_ma < 0 THEN 0 ELSE c.limit_ma \div MilliPerAmp

\* Everything but the limit and its buffer is the same.
SameButLimit(c, d) ==
  /\ d.state = c.state /\ d.is_connected = c.is_connected
  /\ d.is_request_done = c.is_request_done /\ d.modbus_rc = c.modbus_rc
  /\ d.last_poll_time = c.last_poll_time
  /\ d.last_smart_meter_frame_time = c.last_smart_meter_frame_time
  /\ d.smart_meter_meas = c.smart_meter_meas
  /\ d.charger_meter_meas = c.charger_meter_meas
  /\ d.sent = c.sent

\* set_charge_limit keeps the buffer in step with the cached limit.
LEMMA ChargeLimitFacts ==
  ASSUME NEW c \in ControllerType, Encoded(c), NEW l \in 0 .. FuseLimit
  PROVE  LET d == set_charge_limit(c, l)
         IN  /\ d \in ControllerType /\ Encoded(d) /\ d.limit_ma = l
             /\ SameButLimit(c, d)
<1>1. CASE l = c.limit_ma
  BY <1>1 DEF set_charge_limit, SameButLimit
<1>2. CASE l # c.limit_ma
  <2> DEFINE q == l \div MilliPerAmp
             b == swap_b16(q % 65536)
             d == [c EXCEPT !.limit_ma = l, !.max_charging_current_buf = b]
  <2>2. set_charge_limit(c, l) = d
    BY <1>2, SMT DEF set_charge_limit
  <2>3. b \in Word /\ swap_b16(b) = q
    BY AmpereFacts, SMT
  <2>4. l \in Int /\ 0 <= l /\ l <= FuseLimit
    BY ControllerAssumption
  <2> HIDE DEF b, q
  <2>5. d \in ControllerType
    BY <2>3, <2>4 DEF ControllerType
  <2>6. d.limit_ma = l /\ d.max_charging_current_buf = b
    BY DEF ControllerType
  <2>7. SameButLimit(c, d)
    BY DEF ControllerType, SameButLimit
  <2>8. Encoded(d)
    <3> HIDE DEF d
    <3>1. ~(l < 0)
      BY <2>4
    <3> QED BY <2>3, <2>4, <2>6, <3>1 DEF Encoded, q
  <2> QED BY <2>2, <2>5, <2>6, <2>7, <2>8
<1> QED BY <1>1, <1>2

\* update_limit: type, buffer, and what it may be when the telegram is recent
\* or too old.
LEMMA UpdateFacts ==
  ASSUME NEW c \in ControllerType, Encoded(c)
  PROVE  LET d == update_limit(c)
         IN  /\ d \in ControllerType /\ Encoded(d) /\ SameButLimit(c, d)
             /\ FrameAge(c) <= PollInterval => SharesFuse(d)
             /\ FrameAge(c) >= SmTimeout /\ ~(FrameAge(c) <= PollInterval)
                  => d.limit_ma = 0
<1> DEFINE d == update_limit(c)
           l == determine_current_limit(c.smart_meter_meas, c.charger_meter_meas)
<1>1. c.smart_meter_meas \in [Phase -> Int] /\ c.charger_meter_meas \in [Phase -> Word]
  BY DEF ControllerType
<1>2. /\ l \in 0 .. FuseLimit
      /\ \A p \in ConsideredPhases(c.charger_meter_meas) :
           \/ l = 0
           \/ c.smart_meter_meas[p] - c.charger_meter_meas[p] + l <= FuseLimit
  BY <1>1, LimitFacts
<1> HIDE DEF l
<1>3. ASSUME FrameAge(c) <= PollInterval
      PROVE  d \in ControllerType /\ Encoded(d) /\ SameButLimit(c, d) /\ SharesFuse(d)
  <2>1. d = set_charge_limit(c, l)
    BY <1>3 DEF update_limit, l
  <2> HIDE DEF d
  <2>2. d \in ControllerType /\ Encoded(d) /\ d.limit_ma = l /\ SameButLimit(c, d)
    BY <1>2, <2>1, ChargeLimitFacts
  <2> QED BY <1>2, <2>2 DEF SharesFuse, SameButLimit
<1>4. ASSUME ~(FrameAge(c) <= PollInterval), FrameAge(c) >= SmTimeout
      PROVE  d \in ControllerType /\ Encoded(d) /\ SameButLimit(c, d) /\ d.limit_ma = 0
  <2>1. d = set_charge_limit(c, 0)
    BY <1>4 DEF update_limit
  <2>2. 0 \in 0 .. FuseLimit
    BY ControllerAssumption
  <2> QED BY <2>1, <2>2, ChargeLimitFacts
<1>5. ASSUME ~(FrameAge(c) <= PollInterval), ~(FrameAge(c) >= SmTimeout)
      PROVE  d = c
  BY <1>5 DEF update_limit
<1>6. SameButLimit(c, c)
  BY DEF SameButLimit
<1>7. d \in ControllerType /\ Encoded(d) /\ SameButLimit(c, d)
  <2> HIDE DEF d
  <2> QED BY <1>3, <1>4, <1>5, <1>6
<1>8. FrameAge(c) <= PollInterval => SharesFuse(d)
  BY <1>3
<1>9. FrameAge(c) >= SmTimeout /\ ~(FrameAge(c) <= PollInterval) => d.limit_ma = 0
  BY <1>4
<1> QED BY <1>7, <1>8, <1>9, Zenon

----------------------------------------------------------------------------
(* What the methods change.                                                *)

SameLimit(c, d) ==
  /\ d.limit_ma = c.limit_ma
  /\ d.max_charging_current_buf = c.max_charging_current_buf

SameMeasurements(c, d) ==
  /\ d.last_smart_meter_frame_time = c.last_smart_meter_frame_time
  /\ d.smart_meter_meas = c.smart_meter_meas
  /\ d.charger_meter_meas = c.charger_meter_meas

\* d has just passed the request of its state to send_request.
Sends(d, state, rc) ==
  /\ d.state = state /\ d.sent = RequestOf(state)
  /\ d.modbus_rc = rc /\ d.is_request_done = (rc # "OK")

\* d is where c was and sends nothing.
Rests(c, d) ==
  /\ d.state = c.state /\ d.sent = NoRequest
  /\ d.modbus_rc = c.modbus_rc /\ d.is_request_done = c.is_request_done

LEMMA RequestOfFacts ==
  /\ \A state \in ControllerStates : RequestOf(state) \in Requests \cup {NoRequest}
  /\ \A state \in ControllerStates :
       RequestOf(state) = "max_charging_current" <=> state = "SET_CHARGER_LIMIT"
  /\ \A state \in ControllerStates : RequestOf(state) = NoRequest <=> state = "IDLE"
BY DEF RequestOf, ControllerStates, Requests, NoRequest

LEMMA ThisFacts ==
  ASSUME cc \in ControllerType, Encoded(cc)
  PROVE  /\ this \in ControllerType /\ Encoded(this)
         /\ Rests(cc, this) /\ SameLimit(cc, this) /\ SameMeasurements(cc, this)
         /\ this.is_connected = cc.is_connected
         /\ this.last_poll_time = cc.last_poll_time
<1>1. this \in ControllerType
  BY DEF this, ControllerType
<1>2. /\ Rests(cc, this) /\ SameLimit(cc, this) /\ SameMeasurements(cc, this)
      /\ this.is_connected = cc.is_connected
      /\ this.last_poll_time = cc.last_poll_time
  BY DEF this, ControllerType, Rests, SameLimit, SameMeasurements
<1>3. Encoded(this)
  BY <1>2 DEF Encoded, SameLimit
<1> QED BY <1>1, <1>2, <1>3

\* set_state for a state with a request.
LEMMA SetStateFacts ==
  ASSUME NEW c \in ControllerType, Encoded(c),
         NEW state \in ControllerStates \ {"IDLE"}, NEW rc \in Results
  PROVE  LET d == set_state(c, state, rc)
         IN  /\ d \in ControllerType /\ Encoded(d)
             /\ Sends(d, state, rc) /\ SameMeasurements(c, d)
             /\ d.is_connected = c.is_connected
             /\ state # "SET_CHARGER_LIMIT" => SameLimit(c, d)
             /\ state = "SET_CHARGER_LIMIT" =>
                  /\ FrameAge(c) <= PollInterval => SharesFuse(d)
                  /\ FrameAge(c) >= SmTimeout /\ ~(FrameAge(c) <= PollInterval)
                       => d.limit_ma = 0
<1> DEFINE b == [c EXCEPT !.state = state]
           e == IF state = "SET_CHARGER_LIMIT" THEN update_limit(b) ELSE b
           d == [e EXCEPT !.sent = RequestOf(state), !.modbus_rc = rc,
                          !.is_request_done = rc # "OK"]
<1>1. set_state(c, state, rc) = d
  BY DEF set_state
<1>2. b \in ControllerType
  BY DEF ControllerType
<1>3. /\ b.state = state /\ b.is_connected = c.is_connected
      /\ SameMeasurements(c, b) /\ SameLimit(c, b)
  BY DEF ControllerType, SameMeasurements, SameLimit
<1>4. Encoded(b) /\ FrameAge(b) = FrameAge(c)
  BY <1>3 DEF Encoded, FrameAge, SameLimit, SameMeasurements
<1> HIDE DEF b
<1>5. /\ e \in ControllerType /\ Encoded(e) /\ SameButLimit(b, e)
      /\ state # "SET_CHARGER_LIMIT" => SameLimit(b, e)
      /\ state = "SET_CHARGER_LIMIT" =>
           /\ FrameAge(b) <= PollInterval => SharesFuse(e)
           /\ FrameAge(b) >= SmTimeout /\ ~(FrameAge(b) <= PollInterval)
                => e.limit_ma = 0
  <2>1. CASE state = "SET_CHARGER_LIMIT"
    BY <1>2, <1>4, <2>1, UpdateFacts
  <2>2. CASE state # "SET_CHARGER_LIMIT"
    BY <1>2, <1>4, <2>2 DEF SameButLimit, SameLimit
  <2> QED BY <2>1, <2>2
<1> HIDE DEF e
<1>6. (rc # "OK") \in BOOLEAN /\ RequestOf(state) \in Requests \cup {NoRequest}
  BY RequestOfFacts
<1>7. d \in ControllerType
  BY <1>5, <1>6 DEF ControllerType
<1>8. /\ d.sent = RequestOf(state) /\ d.modbus_rc = rc
      /\ d.is_request_done = (rc # "OK")
  BY <1>5, Zenon DEF ControllerType
<1>9. /\ d.state = e.state /\ d.is_connected = e.is_connected
      /\ SameMeasurements(e, d) /\ SameLimit(e, d)
  BY <1>5 DEF ControllerType, SameMeasurements, SameLimit
<1> HIDE DEF d
<1>10. Sends(d, state, rc)
  BY <1>3, <1>5, <1>8, <1>9, Zenon DEF Sends, SameButLimit
<1>11. SameMeasurements(c, d) /\ d.is_connected = c.is_connected
  BY <1>3, <1>5, <1>9, Zenon DEF SameButLimit, SameMeasurements
<1>12. state # "SET_CHARGER_LIMIT" => SameLimit(c, d)
  BY <1>3, <1>5, <1>9, Zenon DEF SameLimit
<1>13. Encoded(d)
  BY <1>5, <1>9 DEF Encoded, SameLimit
<1>14. SharesFuse(e) => SharesFuse(d)
  BY <1>9 DEF SharesFuse, SameLimit, SameMeasurements
<1>15. e.limit_ma = 0 => d.limit_ma = 0
  BY <1>9 DEF SameLimit
<1>16. d \in ControllerType
  BY <1>7
<1> QED BY <1>1, <1>4, <1>5, <1>10, <1>11, <1>12, <1>13, <1>14, <1>15, <1>16, Zenon

\* set_state(STATE_IDLE) sends nothing.
LEMMA SetIdleFacts ==
  ASSUME NEW c \in ControllerType, NEW rc
  PROVE  LET d == set_state(c, "IDLE", rc)
         IN  /\ d \in ControllerType
             /\ d.state = "IDLE" /\ d.sent = c.sent /\ d.modbus_rc = c.modbus_rc
             /\ SameLimit(c, d) /\ d.is_connected = c.is_connected
             /\ SameMeasurements(c, d)
<1>1. set_state(c, "IDLE", rc) = [c EXCEPT !.state = "IDLE"]
  BY DEF set_state
<1>2. [c EXCEPT !.state = "IDLE"] \in ControllerType
  BY DEF ControllerType, ControllerStates
<1> QED BY <1>1, <1>2 DEF ControllerType, SameLimit, SameMeasurements

\* The callback.
LEMMA DoneFacts ==
  ASSUME NEW c \in ControllerType, Encoded(c), c.state # "IDLE",
         NEW exception_code, NEW m \in [Phase -> Word]
  PROVE  LET d == handle_modbus_request_done(c, exception_code, OnTheWire(m))
         IN  /\ d \in ControllerType /\ Encoded(d)
             /\ d.state = c.state /\ d.sent = c.sent /\ SameLimit(c, d)
             /\ d.is_connected = c.is_connected
             /\ d.last_smart_meter_frame_time = c.last_smart_meter_frame_time
             /\ d.is_request_done
             /\ d.modbus_rc = IF exception_code = "NONE" THEN "OK" ELSE "FATAL"
<1> DEFINE w == [p \in Phase |-> swap_b16(OnTheWire(m)[p])]
           e == IF c.state = "READ_CHARGER_METER" /\ exception_code = "NONE"
                  THEN [c EXCEPT !.charger_meter_meas = w] ELSE c
           d == [e EXCEPT !.is_request_done = TRUE,
                          !.modbus_rc = IF exception_code = "NONE"
                                          THEN "OK" ELSE "FATAL"]
<1>1. handle_modbus_request_done(c, exception_code, OnTheWire(m)) = d
  BY DEF handle_modbus_request_done
<1>2. w \in [Phase -> Word]
  <2>1. ASSUME NEW p \in Phase PROVE swap_b16(OnTheWire(m)[p]) \in Word
    <3>1. OnTheWire(m)[p] = swap_b16(m[p])
      BY DEF OnTheWire
    <3>2. m[p] \in Word
      OBVIOUS
    <3> QED BY <3>1, <3>2, SwapFacts
  <2> QED BY <2>1
<1> HIDE DEF w
<1>3. /\ e \in ControllerType /\ e.state = c.state /\ e.sent = c.sent
      /\ SameLimit(c, e) /\ e.is_connected = c.is_connected
      /\ e.last_smart_meter_frame_time = c.last_smart_meter_frame_time
  BY <1>2 DEF ControllerType, SameLimit
<1> HIDE DEF e
<1>4. d \in ControllerType
  BY <1>3 DEF ControllerType, Results
<1>5. /\ d.state = e.state /\ d.sent = e.sent /\ SameLimit(e, d)
      /\ d.is_connected = e.is_connected
      /\ d.last_smart_meter_frame_time = e.last_smart_meter_frame_time
  BY <1>3 DEF ControllerType, SameLimit
<1>6. /\ d.is_request_done
      /\ d.modbus_rc = IF exception_code = "NONE" THEN "OK" ELSE "FATAL"
  BY <1>3 DEF ControllerType
<1> HIDE DEF d
<1>7. SameLimit(c, d)
  BY <1>3, <1>5 DEF SameLimit
<1>8. Encoded(d)
  BY <1>7 DEF Encoded, SameLimit
<1> QED BY <1>1, <1>3, <1>4, <1>5, <1>6, <1>7, <1>8, Zenon

----------------------------------------------------------------------------
(* The invariant and the actions.                                          *)

ControllerInv == ControllerTypeOK /\ Encoded(cc)

LEMMA ElapsedFacts ==
  ASSUME NEW t \in Clock, NEW start \in Clock
  PROVE  Elapsed(t, start) \in Clock
BY ClockAssumption DEF Elapsed, Clock

LEMMA InitFacts == ControllerInit => ControllerInv
<1> SUFFICES ASSUME ControllerInit PROVE ControllerInv
  OBVIOUS
<1>1. 0 \in Word /\ swap_b16(0) = 0
  BY WordRange, SMT DEF swap_b16
<1>2. 0 \in Clock /\ Before(now, SmTimeout) \in Clock
  BY ClockAssumption, ControllerAssumption DEF ControllerInit, Clock, Before
<1>3. cc \in ControllerType
  BY <1>1, <1>2 DEF ControllerInit, ControllerType, ControllerStates, Results
<1>4. Encoded(cc)
  BY <1>1, ControllerAssumption DEF ControllerInit, Encoded
<1> QED BY <1>3, <1>4 DEF ControllerInit, ControllerInv, ControllerTypeOK

\* Idle: nothing, or a new cycle begins with the charger's meter.
LEMMA LoopIdleFacts ==
  ASSUME ControllerInv, NEW rc \in Results, LoopIdle(rc)
  PROVE  /\ cc' \in ControllerType /\ Encoded(cc')
         /\ Rests(cc, cc') \/ Sends(cc', "READ_CHARGER_METER", rc)
         /\ SameLimit(cc, cc') /\ SameMeasurements(cc, cc')
         /\ cc'.is_connected = cc.is_connected
<1> USE DEF ControllerInv, ControllerTypeOK
<1> DEFINE c == [this EXCEPT !.last_poll_time = now]
<1>1. /\ this \in ControllerType /\ Encoded(this)
      /\ Rests(cc, this) /\ SameLimit(cc, this) /\ SameMeasurements(cc, this)
      /\ this.is_connected = cc.is_connected
  BY ThisFacts
<1>2. CASE cc' = this
  BY <1>1, <1>2, Zenon
<1>3. CASE cc' = set_state(c, "READ_CHARGER_METER", rc)
  <2>1. c \in ControllerType
    BY <1>1 DEF ControllerType
  <2>2. SameLimit(this, c) /\ SameMeasurements(this, c) /\ c.is_connected = this.is_connected
    BY <1>1 DEF ControllerType, SameLimit, SameMeasurements
  <2> HIDE DEF c
  <2>3. Encoded(c)
    BY <1>1, <2>2 DEF Encoded, SameLimit
  <2>4. "READ_CHARGER_METER" \in ControllerStates \ {"IDLE"}
    BY DEF ControllerStates
  <2>5. /\ cc' \in ControllerType /\ Encoded(cc')
        /\ Sends(cc', "READ_CHARGER_METER", rc) /\ SameMeasurements(c, cc')
        /\ cc'.is_connected = c.is_connected
        /\ "READ_CHARGER_METER" # "SET_CHARGER_LIMIT" => SameLimit(c, cc')
    BY <1>3, <2>1, <2>3, <2>4, SetStateFacts, Zenon
  <2>6. SameLimit(c, cc')
    BY <2>5
  <2>7. SameLimit(cc, cc') /\ SameMeasurements(cc, cc')
    BY <1>1, <2>2, <2>5, <2>6, Zenon DEF SameLimit, SameMeasurements
  <2> QED BY <1>1, <2>2, <2>5, <2>7, Zenon
<1> QED BY <1>2, <1>3 DEF LoopIdle

LEMMA LoopWaitingFacts ==
  ASSUME ControllerInv, LoopWaiting
  PROVE  /\ cc' \in ControllerType /\ Encoded(cc')
         /\ Rests(cc, cc') /\ SameLimit(cc, cc') /\ SameMeasurements(cc, cc')
         /\ cc'.is_connected = cc.is_connected
BY ThisFacts, Zenon DEF ControllerInv, ControllerTypeOK, LoopWaiting

\* What the controller sends next, in one of the three requesting states.
LimitSent(rc) ==
  /\ Sends(cc', "SET_CHARGER_LIMIT", rc)
  /\ FrameAge(cc) <= PollInterval => SharesFuse(cc')
  /\ FrameAge(cc) >= SmTimeout /\ ~(FrameAge(cc) <= PollInterval)
       => cc'.limit_ma = 0

\* A request succeeded: the next one is sent, and after the last one the
\* charger is connected.
LEMMA LoopSucceededFacts ==
  ASSUME ControllerInv, NEW rc \in Results, LoopSucceeded(rc)
  PROVE  /\ cc' \in ControllerType /\ Encoded(cc')
         /\ SameMeasurements(cc, cc')
         /\ \/ /\ cc.state = "READ_CHARGER_METER"
               /\ Sends(cc', "SET_CHARGER_KEEP_ALIVE", rc)
               /\ SameLimit(cc, cc') /\ cc'.is_connected = cc.is_connected
            \/ /\ cc.state = "SET_CHARGER_KEEP_ALIVE"
               /\ LimitSent(rc) /\ cc'.is_connected = cc.is_connected
            \/ /\ cc.state = "SET_CHARGER_LIMIT"
               /\ cc'.state = "IDLE" /\ cc'.sent = NoRequest
               /\ cc'.modbus_rc = "OK" /\ cc'.is_connected
               /\ SameLimit(cc, cc')
<1> USE DEF ControllerInv, ControllerTypeOK
<1>1. /\ this \in ControllerType /\ Encoded(this)
      /\ Rests(cc, this) /\ SameLimit(cc, this) /\ SameMeasurements(cc, this)
      /\ this.is_connected = cc.is_connected
  BY ThisFacts
<1>2. FrameAge(this) = FrameAge(cc)
  BY <1>1 DEF FrameAge, SameMeasurements
<1>3. CASE cc.state = "READ_CHARGER_METER"
  <2>1. cc' = set_state(this, "SET_CHARGER_KEEP_ALIVE", rc)
    BY <1>3 DEF LoopSucceeded, StateAfter
  <2>2. "SET_CHARGER_KEEP_ALIVE" \in ControllerStates \ {"IDLE"}
    BY DEF ControllerStates
  <2>3. /\ cc' \in ControllerType /\ Encoded(cc')
        /\ Sends(cc', "SET_CHARGER_KEEP_ALIVE", rc) /\ SameMeasurements(this, cc')
        /\ cc'.is_connected = this.is_connected
        /\ "SET_CHARGER_KEEP_ALIVE" # "SET_CHARGER_LIMIT" => SameLimit(this, cc')
    BY <1>1, <2>1, <2>2, SetStateFacts, Zenon
  <2>4. SameLimit(this, cc')
    BY <2>3
  <2> QED BY <1>1, <1>3, <2>3, <2>4, Zenon DEF SameLimit, SameMeasurements
<1>4. CASE cc.state = "SET_CHARGER_KEEP_ALIVE"
  <2>1. cc' = set_state(this, "SET_CHARGER_LIMIT", rc)
    BY <1>4 DEF LoopSucceeded, StateAfter
  <2>2. "SET_CHARGER_LIMIT" \in ControllerStates \ {"IDLE"}
    BY DEF ControllerStates
  <2>3. /\ cc' \in ControllerType /\ Encoded(cc')
        /\ Sends(cc', "SET_CHARGER_LIMIT", rc) /\ SameMeasurements(this, cc')
        /\ cc'.is_connected = this.is_connected
        /\ FrameAge(this) <= PollInterval => SharesFuse(cc')
        /\ FrameAge(this) >= SmTimeout /\ ~(FrameAge(this) <= PollInterval)
             => cc'.limit_ma = 0
    BY <1>1, <2>1, <2>2, SetStateFacts, Zenon
  <2>4. SameMeasurements(cc, cc')
    BY <1>1, <2>3, Zenon DEF SameMeasurements
  <2>5. LimitSent(rc)
    BY <1>2, <2>3, Zenon DEF LimitSent
  <2> QED BY <1>1, <1>4, <2>3, <2>4, <2>5, Zenon
<1>5. CASE cc.state = "SET_CHARGER_LIMIT"
  <2> DEFINE c == set_is_connected(this, TRUE)
  <2>1. cc' = set_state(c, "IDLE", rc)
    BY <1>5 DEF LoopSucceeded, StateAfter
  <2>2. c \in ControllerType
    BY <1>1 DEF ControllerType, set_is_connected
  <2>3. /\ c.is_connected /\ c.sent = this.sent /\ c.modbus_rc = this.modbus_rc
        /\ SameLimit(this, c) /\ SameMeasurements(this, c)
    BY <1>1 DEF ControllerType, set_is_connected, SameLimit, SameMeasurements
  <2> HIDE DEF c
  <2>4. /\ cc' \in ControllerType
        /\ cc'.state = "IDLE" /\ cc'.sent = c.sent /\ cc'.modbus_rc = c.modbus_rc
        /\ SameLimit(c, cc') /\ cc'.is_connected = c.is_connected
        /\ SameMeasurements(c, cc')
    BY <2>1, <2>2, SetIdleFacts, Zenon
  <2>5. SameLimit(cc, cc') /\ SameMeasurements(cc, cc')
    BY <1>1, <2>3, <2>4, Zenon DEF SameLimit, SameMeasurements
  <2>6. cc'.sent = NoRequest /\ cc'.modbus_rc = "OK" /\ cc'.is_connected
    BY <1>1, <2>3, <2>4, Zenon DEF LoopSucceeded, Rests
  <2>7. Encoded(cc')
    BY <2>5 DEF Encoded, SameLimit
  <2> QED BY <1>5, <2>4, <2>5, <2>6, <2>7, Zenon
<1>6. cc.state \in ControllerStates /\ cc.state # "IDLE"
  BY DEF LoopSucceeded, ControllerType
<1> QED BY <1>3, <1>4, <1>5, <1>6, Zenon DEF ControllerStates

\* "try again": the same request once more.
LEMMA LoopBusyFacts ==
  ASSUME ControllerInv, NEW rc \in Results, LoopBusy(rc)
  PROVE  /\ cc' \in ControllerType /\ Encoded(cc')
         /\ SameMeasurements(cc, cc') /\ cc'.is_connected = cc.is_connected
         /\ Sends(cc', cc.state, rc)
         /\ cc.state = "SET_CHARGER_LIMIT" => LimitSent(rc)
<1> USE DEF ControllerInv, ControllerTypeOK
<1>1. /\ this \in ControllerType /\ Encoded(this)
      /\ SameMeasurements(cc, this) /\ this.is_connected = cc.is_connected
  BY ThisFacts
<1>2. FrameAge(this) = FrameAge(cc)
  BY <1>1 DEF FrameAge, SameMeasurements
<1>3. cc.state \in ControllerStates \ {"IDLE"}
  BY DEF LoopBusy, ControllerType
<1>4. cc' = set_state(this, cc.state, rc)
  BY DEF LoopBusy
<1>5. /\ cc' \in ControllerType /\ Encoded(cc')
      /\ Sends(cc', cc.state, rc) /\ SameMeasurements(this, cc')
      /\ cc'.is_connected = this.is_connected
      /\ cc.state = "SET_CHARGER_LIMIT" =>
           /\ FrameAge(this) <= PollInterval => SharesFuse(cc')
           /\ FrameAge(this) >= SmTimeout /\ ~(FrameAge(this) <= PollInterval)
                => cc'.limit_ma = 0
  BY <1>1, <1>3, <1>4, SetStateFacts, Zenon
<1>6. SameMeasurements(cc, cc')
  BY <1>1, <1>5, Zenon DEF SameMeasurements
<1>7. cc.state = "SET_CHARGER_LIMIT" => LimitSent(rc)
  BY <1>2, <1>5, Zenon DEF LimitSent
<1> QED BY <1>1, <1>5, <1>6, <1>7, Zenon

\* A request failed: the charger is disconnected and the cycle ends.
LEMMA LoopFailedFacts ==
  ASSUME ControllerInv, NEW rc \in Results, LoopFailed(rc)
  PROVE  /\ cc' \in ControllerType /\ Encoded(cc')
         /\ SameMeasurements(cc, cc') /\ SameLimit(cc, cc')
         /\ cc'.state = "IDLE" /\ cc'.sent = NoRequest
         /\ cc'.modbus_rc = "FATAL" /\ ~cc'.is_connected
<1> USE DEF ControllerInv, ControllerTypeOK
<1> DEFINE c == set_is_connected(this, FALSE)
<1>1. /\ this \in ControllerType
      /\ Rests(cc, this) /\ SameLimit(cc, this) /\ SameMeasurements(cc, this)
  BY ThisFacts
<1>2. cc' = set_state(c, "IDLE", rc)
  BY DEF LoopFailed
<1>3. c \in ControllerType
  BY <1>1 DEF ControllerType, set_is_connected
<1>4. /\ ~c.is_connected /\ c.sent = this.sent /\ c.modbus_rc = this.modbus_rc
      /\ SameLimit(this, c) /\ SameMeasurements(this, c)
  BY <1>1 DEF ControllerType, set_is_connected, SameLimit, SameMeasurements
<1> HIDE DEF c
<1>5. /\ cc' \in ControllerType
      /\ cc'.state = "IDLE" /\ cc'.sent = c.sent /\ cc'.modbus_rc = c.modbus_rc
      /\ SameLimit(c, cc') /\ cc'.is_connected = c.is_connected
      /\ SameMeasurements(c, cc')
  BY <1>2, <1>3, SetIdleFacts, Zenon
<1>6. SameLimit(cc, cc') /\ SameMeasurements(cc, cc')
  BY <1>1, <1>4, <1>5, Zenon DEF SameLimit, SameMeasurements
<1>7. cc'.sent = NoRequest /\ cc'.modbus_rc = "FATAL" /\ ~cc'.is_connected
  BY <1>1, <1>4, <1>5, Zenon DEF LoopFailed, Rests
<1>8. Encoded(cc')
  BY <1>6 DEF Encoded, SameLimit
<1> QED BY <1>5, <1>6, <1>7, <1>8, Zenon

\* A telegram changes the mains measurement and its time.
LEMMA FrameFacts ==
  ASSUME ControllerInv, NEW m \in MainsCurrents, on_smart_meter_frame(m)
  PROVE  /\ cc' \in ControllerType /\ Encoded(cc')
         /\ Rests(cc, cc') /\ SameLimit(cc, cc')
         /\ cc'.is_connected = cc.is_connected
         /\ cc'.last_smart_meter_frame_time = now
<1> USE DEF ControllerInv, ControllerTypeOK
<1>1. /\ this \in ControllerType
      /\ Rests(cc, this) /\ SameLimit(cc, this)
      /\ this.is_connected = cc.is_connected
  BY ThisFacts
<1>2. m \in [Phase -> Int]
  BY ControllerAssumption
<1>3. cc' = [this EXCEPT !.smart_meter_meas = m,
                         !.last_smart_meter_frame_time = now]
  BY DEF on_smart_meter_frame
<1>4. cc' \in ControllerType
  BY <1>1, <1>2, <1>3 DEF ControllerType
<1>5. /\ cc'.state = this.state /\ cc'.sent = this.sent
      /\ cc'.modbus_rc = this.modbus_rc
      /\ cc'.is_connected = this.is_connected /\ SameLimit(this, cc')
      /\ cc'.last_smart_meter_frame_time = now
  BY <1>1, <1>3 DEF ControllerType, SameLimit
<1>6. cc'.is_request_done = this.is_request_done
  BY <1>1, <1>3, Zenon DEF ControllerType
<1>7. Rests(cc, cc') /\ SameLimit(cc, cc')
  BY <1>1, <1>5, <1>6, Zenon DEF Rests, SameLimit
<1>8. Encoded(cc')
  BY <1>7 DEF Encoded, SameLimit
<1> QED BY <1>1, <1>4, <1>5, <1>7, <1>8, Zenon

\* A request ends.
LEMMA CallbackFacts ==
  ASSUME ControllerInv, cc.state # "IDLE",
         NEW exception_code, NEW m \in ChargerCurrents,
         cc' = handle_modbus_request_done(this, exception_code, OnTheWire(m))
  PROVE  /\ cc' \in ControllerType /\ Encoded(cc')
         /\ cc'.state = cc.state /\ cc'.sent = NoRequest /\ SameLimit(cc, cc')
         /\ cc'.is_connected = cc.is_connected
         /\ cc'.last_smart_meter_frame_time = cc.last_smart_meter_frame_time
         /\ cc'.is_request_done
         /\ cc'.modbus_rc = IF exception_code = "NONE" THEN "OK" ELSE "FATAL"
<1> USE DEF ControllerInv, ControllerTypeOK
<1>1. /\ this \in ControllerType /\ Encoded(this)
      /\ Rests(cc, this) /\ SameLimit(cc, this) /\ SameMeasurements(cc, this)
      /\ this.is_connected = cc.is_connected
  BY ThisFacts
<1>2. m \in [Phase -> Word]
  BY ControllerAssumption
<1>3. this.state # "IDLE"
  BY <1>1 DEF Rests
<1> DEFINE d == handle_modbus_request_done(this, exception_code, OnTheWire(m))
<1>4. /\ d \in ControllerType /\ Encoded(d)
      /\ d.state = this.state /\ d.sent = this.sent /\ SameLimit(this, d)
      /\ d.is_connected = this.is_connected
      /\ d.last_smart_meter_frame_time = this.last_smart_meter_frame_time
      /\ d.is_request_done
      /\ d.modbus_rc = IF exception_code = "NONE" THEN "OK" ELSE "FATAL"
  BY <1>1, <1>2, <1>3, DoneFacts, Zenon
<1>5. cc' = d
  OBVIOUS
<1> HIDE DEF d
<1> QED BY <1>1, <1>4, <1>5, Zenon DEF Rests, SameLimit, SameMeasurements

----------------------------------------------------------------------------
(* Theorems.                                                               *)

\* One call of loop() keeps the types and the buffer, and a limit that it
\* sends is LimitSent.
LEMMA LoopFacts ==
  ASSUME ControllerInv, NEW rc \in Results, loop(rc)
  PROVE  /\ cc' \in ControllerType /\ Encoded(cc') /\ SameMeasurements(cc, cc')
         /\ cc'.sent = "max_charging_current" => LimitSent(rc)
<1>1. CASE LoopIdle(rc)
  <2>1. /\ cc' \in ControllerType /\ Encoded(cc') /\ SameMeasurements(cc, cc')
        /\ Rests(cc, cc') \/ Sends(cc', "READ_CHARGER_METER", rc)
    BY <1>1, LoopIdleFacts, Zenon
  <2> QED BY <2>1 DEF Rests, Sends, RequestOf, NoRequest
<1>2. CASE LoopWaiting
  <2>1. /\ cc' \in ControllerType /\ Encoded(cc') /\ SameMeasurements(cc, cc')
        /\ Rests(cc, cc')
    BY <1>2, LoopWaitingFacts, Zenon
  <2> QED BY <2>1 DEF Rests, NoRequest
<1>3. CASE LoopSucceeded(rc)
  <2>1. /\ cc' \in ControllerType /\ Encoded(cc') /\ SameMeasurements(cc, cc')
        /\ \/ Sends(cc', "SET_CHARGER_KEEP_ALIVE", rc)
           \/ LimitSent(rc)
           \/ cc'.sent = NoRequest
    BY <1>3, LoopSucceededFacts, Zenon
  <2> QED BY <2>1 DEF Sends, RequestOf, NoRequest
<1>4. CASE LoopBusy(rc)
  <2>1. /\ cc' \in ControllerType /\ Encoded(cc') /\ SameMeasurements(cc, cc')
        /\ Sends(cc', cc.state, rc)
        /\ cc.state = "SET_CHARGER_LIMIT" => LimitSent(rc)
    BY <1>4, LoopBusyFacts, Zenon
  <2>2. cc.state \in ControllerStates
    BY DEF ControllerInv, ControllerTypeOK, ControllerType
  <2> QED BY <2>1, <2>2, RequestOfFacts DEF Sends
<1>5. CASE LoopFailed(rc)
  <2>1. /\ cc' \in ControllerType /\ Encoded(cc') /\ SameMeasurements(cc, cc')
        /\ cc'.sent = NoRequest
    BY <1>5, LoopFailedFacts, Zenon
  <2> QED BY <2>1 DEF NoRequest
<1> QED BY <1>1, <1>2, <1>3, <1>4, <1>5 DEF loop

\* Each step of the controller keeps the invariant.
LEMMA StepKeepsInv ==
  ASSUME ControllerInv, [ControllerNext]_ccvars
  PROVE  ControllerInv'
<1> USE DEF ControllerInv, ControllerTypeOK
<1> SUFFICES cc' \in ControllerType /\ Encoded(cc') /\ now' \in Clock
  BY DEF Encoded
<1>1. CASE (\E rc \in Results : loop(rc)) /\ UNCHANGED now
  BY <1>1, LoopFacts
<1>2. CASE (\E m \in MainsCurrents : on_smart_meter_frame(m)) /\ UNCHANGED now
  BY <1>2, FrameFacts
<1>3. CASE (\E exception_code \in Exceptions, m \in ChargerCurrents :
              RequestDone(exception_code, m)) /\ UNCHANGED now
  BY <1>3, CallbackFacts DEF RequestDone
<1>4. CASE ControllerTick
  BY <1>4, ClockAssumption DEF ControllerTick, Advance, Clock
<1>5. CASE UNCHANGED ccvars
  BY <1>5 DEF ccvars
<1> QED BY <1>1, <1>2, <1>3, <1>4, <1>5 DEF ControllerNext

LEMMA ControllerInvariant == ControllerSpec => []ControllerInv
<1>1. ControllerInit => ControllerInv
  BY InitFacts
<1>2. ControllerInv /\ [ControllerNext]_ccvars => ControllerInv'
  BY StepKeepsInv
<1> QED BY <1>1, <1>2, PTL DEF ControllerSpec

\* For all phases, fuses and currents, every member variable of the charge
\* controller keeps its type: in particular the register words made from a
\* limit and from the charger's meter are words.
THEOREM ControllerTypeCorrect == ControllerSpec => []ControllerTypeOK
<1>1. ControllerInv => ControllerTypeOK
  BY DEF ControllerInv
<1> QED BY <1>1, ControllerInvariant, PTL

\* For all fuses that fit the register, the buffer that set_charge_limit
\* skips updating holds the cached limit in the charger's byte order.
THEOREM LimitIsEncoded == ControllerSpec => []LimitEncoded
<1>1. ControllerInv => LimitEncoded
  BY DEF ControllerInv, Encoded, LimitEncoded, LimitOnWire
<1> QED BY <1>1, ControllerInvariant, PTL

\* For all measurements, a limit that set_state sends on a recent telegram
\* fits the fuse together with the rest of the house on every phase that
\* determine_current_limit considers.
THEOREM FuseIsShared == ControllerSpec => LimitSharesFuse
<1> DEFINE A == cc'.sent = "max_charging_current" /\ cc' # cc
                  /\ Elapsed(now, cc'.last_smart_meter_frame_time) <= PollInterval
                => SharesFuse(cc')
<1>1. ControllerInv /\ [ControllerNext]_ccvars => [A]_ccvars
  <2> SUFFICES ASSUME ControllerInv, ControllerNext,
                      cc'.sent = "max_charging_current", cc' # cc,
                      Elapsed(now, cc'.last_smart_meter_frame_time) <= PollInterval
               PROVE  SharesFuse(cc')
    OBVIOUS
  <2>1. ASSUME NEW rc \in Results, loop(rc)
        PROVE  SharesFuse(cc')
    <3>1. SameMeasurements(cc, cc') /\ LimitSent(rc)
      BY <2>1, LoopFacts, Zenon
    <3>2. FrameAge(cc) <= PollInterval
      BY <3>1 DEF FrameAge, SameMeasurements
    <3> QED BY <3>1, <3>2 DEF LimitSent
  <2>2. ASSUME NEW m \in MainsCurrents, on_smart_meter_frame(m)
        PROVE  FALSE
    BY <2>2, FrameFacts DEF Rests, NoRequest
  <2>3. ASSUME NEW exception_code \in Exceptions, NEW m \in ChargerCurrents,
               RequestDone(exception_code, m)
        PROVE  FALSE
    <3>1. cc'.sent = NoRequest
      BY <2>3, CallbackFacts, Zenon DEF RequestDone
    <3> QED BY <3>1 DEF NoRequest
  <2>4. CASE ControllerTick
    BY <2>4 DEF ControllerTick
  <2> QED BY <2>1, <2>2, <2>3, <2>4, Zenon DEF ControllerNext
<1> QED BY <1>1, ControllerInvariant, PTL DEF ControllerSpec, LimitSharesFuse
=============================================================================
