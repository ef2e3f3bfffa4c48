-------------------------------- MODULE Hmi --------------------------------
(***************************************************************************)
(* Hmi.cpp: the LED shows the active errors one after the other, each by   *)
(* its number of blinks, and a long light once when there is none.  The    *)
(* rest of the firmware sets and clears errors at any time, also in the    *)
(* middle of a pattern.                                                    *)
(***************************************************************************)
EXTENDS Integers, FiniteSetsExt, Millis

CONSTANTS
  NumberOfErrors,    \* NUMBER_OF_ERRORS: 3
  s_blink_count,     \* blinks per error: 1, 2, 3
  IntraDelay,        \* intra_delay_ms, in units of Millis
  OnTime,            \* on_time_ms
  OffTime,           \* off_time_ms
  NoErrorOn          \* no_error_on_ms

VARIABLES
  hmi,               \* the members of the Hmi object but one, and the LED
  active_errors,     \* _active_errors, the set of the errors whose bit is set
  now,               \* millis()
  looped,            \* loop() has run since the clock last advanced
  flashes            \* ghost: entries of PATTERN_ON in the present pattern

vars == <<hmi, active_errors, now, looped, flashes>>

Errors == 0 .. NumberOfErrors - 1

ASSUME HmiAssumption ==
  /\ NumberOfErrors \in Nat \ {0}
  /\ s_blink_count \in [Errors -> 1 .. 255]
  /\ IntraDelay \in Nat /\ OnTime \in Nat /\ OffTime \in Nat /\ NoErrorOn \in Nat
  /\ ClockMod > IntraDelay + 1 /\ ClockMod > NoErrorOn + 1
  /\ ClockMod > OnTime + 1 /\ ClockMod > OffTime + 1

HmiStates == {"INTRA_PATTERN_DELAY", "PATTERN_ON", "PATTERN_OFF",
              "NO_ERROR_ENTER", "NO_ERROR_OFF"}

----------------------------------------------------------------------------

set_state(h, state) ==
  [h EXCEPT !.state = state, !.state_entry_time = now,
            !.led = state \in {"PATTERN_ON", "NO_ERROR_ENTER"}]

\* The error "step" places further round the table; begin() leaves
\* _error_idx one past the end, from where the next is the first.
Further(idx, step) ==
  (IF idx = NumberOfErrors THEN step - 1 ELSE idx + step) % NumberOfErrors

\* Mutants: the search starts with the first error every time; the first blink
\* is counted twice.
select_error_to_show_first(h) ==
  LET error == Min(active_errors)
  IN  [h EXCEPT !.error_idx = error, !.blinks_remaining = s_blink_count[error]]
select_error_to_show_extra(h) ==
  LET error == Further(h.error_idx,
                       Min({k \in 1 .. NumberOfErrors :
                              Further(h.error_idx, k) \in active_errors}))
  IN  [h EXCEPT !.error_idx = error, !.blinks_remaining = s_blink_count[error] + 1]

\* The next active error, when there is one; the last error shown comes last.
select_error_to_show(h) ==
  LET error == Further(h.error_idx,
                       Min({k \in 1 .. NumberOfErrors :
                              Further(h.error_idx, k) \in active_errors}))
  IN  [h EXCEPT !.error_idx = error, !.blinks_remaining = s_blink_count[error]]

\* set_state(has_error ? STATE_PATTERN_ON : STATE_NO_ERROR_ENTER)
ShowNext(h) ==
  IF active_errors = {}
    THEN set_state(h, "NO_ERROR_ENTER")
    ELSE set_state(select_error_to_show(h), "PATTERN_ON")

InState == Elapsed(now, hmi.state_entry_time)

----------------------------------------------------------------------------

\* The static object after its constructor and begin(): every error counts as
\* active until its component reports otherwise.
Init ==
  /\ now \in Clock
  /\ hmi = [state |-> "INTRA_PATTERN_DELAY", state_entry_time |-> 0,
            error_idx |-> NumberOfErrors, blinks_remaining |-> 0, led |-> FALSE]
  /\ active_errors = Errors
  /\ looped = FALSE
  /\ flashes = 0

LoopIntraDelay ==
  /\ hmi.state = "INTRA_PATTERN_DELAY"
  /\ hmi' = IF InState >= IntraDelay THEN ShowNext(hmi) ELSE hmi

\* _blinks_remaining is a uint8_t.
LoopPatternOn ==
  /\ hmi.state = "PATTERN_ON"
  /\ hmi' = IF InState >= OnTime
              THEN set_state([hmi EXCEPT !.blinks_remaining =
                                           IF @ = 0 THEN 255 ELSE @ - 1],
                             "PATTERN_OFF")
              ELSE hmi

LoopPatternOff ==
  /\ hmi.state = "PATTERN_OFF"
  /\ hmi' = IF InState >= OffTime
              THEN set_state(hmi, IF hmi.blinks_remaining = 0
                                    THEN "INTRA_PATTERN_DELAY" ELSE "PATTERN_ON")
              ELSE hmi

\* Mutant: the light is lit anew instead of being switched off.
LoopNoErrorEnter_again ==
  /\ hmi.state = "NO_ERROR_ENTER"
  /\ hmi' = IF InState >= IntraDelay THEN ShowNext(hmi) ELSE hmi

LoopNoErrorEnter ==
  /\ hmi.state = "NO_ERROR_ENTER"
  /\ hmi' = IF active_errors # {} /\ InState >= IntraDelay
              THEN ShowNext(hmi)
            ELSE IF InState >= NoErrorOn
              THEN set_state(hmi, "NO_ERROR_OFF")
              ELSE hmi

LoopNoErrorOff ==
  /\ hmi.state = "NO_ERROR_OFF"
  /\ hmi' = IF active_errors # {} THEN ShowNext(hmi) ELSE hmi

loop ==
  /\ \/ LoopIntraDelay \/ LoopPatternOn \/ LoopPatternOff
     \/ LoopNoErrorEnter \/ LoopNoErrorOff
  /\ looped' = TRUE
  /\ flashes' = IF hmi'.state # "PATTERN_ON" \/ hmi.state = "PATTERN_ON" THEN flashes
                ELSE IF hmi.state = "PATTERN_OFF" THEN flashes + 1
                ELSE 1
  /\ UNCHANGED <<active_errors, now>>

\* Mutant: the mask is one bit off.
ErrorsAfter_shifted(errors, error, is_error_active) ==
  IF is_error_active THEN errors \cup {error + 1} ELSE errors \ {error + 1}

\* The set of errors after the call; set_error changes nothing else.
ErrorsAfter(errors, error, is_error_active) ==
  IF is_error_active THEN errors \cup {error} ELSE errors \ {error}

set_error(error, is_error_active) ==
  /\ active_errors' = ErrorsAfter(active_errors, error, is_error_active)
  /\ UNCHANGED <<hmi, now, looped, flashes>>

\* The main loop calls loop() at least once per unit of time.
Tick ==
  /\ looped
  /\ now' = Advance(now)
  /\ looped' = FALSE
  /\ UNCHANGED <<hmi, active_errors, flashes>>

Next ==
  \/ loop
  \/ \E error \in Errors, is_error_active \in BOOLEAN :
       set_error(error, is_error_active)
  \/ Tick

Spec == Init /\ [][Next]_vars

\* The main loop keeps calling loop() and time passes.
FairSpec == Spec /\ WF_vars(loop) /\ WF_vars(Tick)

----------------------------------------------------------------------------
(* Properties.                                                             *)

\* Every member has its type.
HmiTypeOK ==
  /\ hmi \in [state : HmiStates, state_entry_time : Clock,
              error_idx : 0 .. NumberOfErrors, blinks_remaining : 0 .. 255,
              led : BOOLEAN]
  /\ active_errors \subseteq Errors
  /\ now \in Clock
  /\ looped \in BOOLEAN
  /\ flashes \in 0 .. 255

\* A pattern that is over has blinked as often as the table says for the error
\* it showed, whatever was set or cleared meanwhile, and _blinks_remaining is
\* never decremented below zero.
PatternCounts ==
  /\ hmi.state = "PATTERN_ON" => hmi.blinks_remaining > 0
  /\ hmi.state = "INTRA_PATTERN_DELAY" /\ hmi.error_idx # NumberOfErrors =>
       flashes = s_blink_count[hmi.error_idx]

\* An error that stays active is shown again and again: the others do not
\* starve it, and no sequence of errors that come and go stops the display.
EveryErrorShown ==
  \A error \in Errors :
    <>[](error \in active_errors) =>
      []<>(hmi.state = "PATTERN_ON" /\ hmi.error_idx = error)

\* When no error is left the LED ends up dark and stays dark.
EndsDark ==
  <>[](active_errors = {}) => <>[](hmi.state = "NO_ERROR_OFF" /\ ~hmi.led)
=============================================================================
