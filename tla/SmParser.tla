------------------------------ MODULE SmParser ------------------------------
(***************************************************************************)
(* sm_parser.c: the tokenizer and the parser of the smart meter's          *)
(* telegrams, fed character by character.                                  *)
(*                                                                         *)
(* A character is its class, a token's text is its length and what it      *)
(* means: a KEY is an entry of the table or NoKey, a VALUE is a record     *)
(* [whole, frac, digits, unit, pairs], the number whole + frac / 10^digits *)
(* with its unit, and the number of pairs of digits the text starts with;  *)
(* "summer" and "winter" stand for the letter behind a time.  Values have  *)
(* no sign.  The name in the header, copied to model, is left out.         *)
(* Each C function is an operator from the object before the call to the   *)
(* object after it; what it returns is the field "token" or "result".      *)
(***************************************************************************)
EXTENDS Integers

CONSTANTS
  BufSize,                \* sizeof(sm_tokenizer_t.buf), 31
  ValueIdxMod             \* value_idx is a uint8_t, 256

ASSUME ParserAssumption == BufSize \in Nat /\ BufSize >= 4
                           /\ ValueIdxMod \in Nat \ {0, 1}

Newline == "newline"                        \* \r and \n
Blanks == {"blank", Newline}                \* and space and tab
Chars == {"/", "!", "(", ")", "\\", "nul", "digit", "other"} \cup Blanks

TokenizerStates ==
  {"DEFAULT", "PARSE_KEY", "PARSE_VALUE", "PARSE_END_OF_FRAME", "PARSE_FRAME_HEADER"}

Tokens == {"NEED_MORE_INPUT", "FRAME_HEADER", "KEY", "VALUE", "FRAME_FOOTER", "ERROR"}

----------------------------------------------------------------------------
(* The tokenizer: t.idx characters are in buf; t.token is what the last    *)
(* call returned and t.length the length of that token's text.             *)

Go(t, state) == [t EXCEPT !.state = state]
Return(t, token) == [t EXCEPT !.token = token]

\* Mutant: no bound.
push_ch_unbounded(t) == [t EXCEPT !.idx = @ + 1]

push_ch(t) == [t EXCEPT !.idx = IF @ < BufSize THEN @ + 1 ELSE @]

accept(t) == [t EXCEPT !.length = t.idx, !.idx = 0]

handle_default(t, ch) ==
  CASE ch = "/" -> Return(Go(t, "PARSE_FRAME_HEADER"), "NEED_MORE_INPUT")
    [] ch = "!" -> Return(Go(t, "PARSE_END_OF_FRAME"), "NEED_MORE_INPUT")
    [] ch = "(" -> Return(Go(t, "PARSE_VALUE"), "NEED_MORE_INPUT")
    [] ch = ")" -> Return(Go(t, "DEFAULT"), "ERROR")
    [] ch \in Blanks \cup {"nul"} -> Return(t, "NEED_MORE_INPUT")
    [] OTHER -> Return(push_ch(Go(t, "PARSE_KEY")), "NEED_MORE_INPUT")

handle_parse_frame_header(t, ch) ==
  CASE ch \in {"/", "!"} -> Return(handle_default(t, ch), "ERROR")
    [] ch = Newline -> Return(Go(t, "DEFAULT"), "FRAME_HEADER")
    [] ch = "\\" -> Return(push_ch(push_ch(t)), "NEED_MORE_INPUT")
    [] OTHER -> Return(push_ch(t), "NEED_MORE_INPUT")

handle_parse_key(t, ch) ==
  CASE ch \in {"nul", "/", "!", ")"} -> Return(handle_default(t, ch), "ERROR")
    [] ch = "(" -> Return(Go(t, "PARSE_VALUE"), "KEY")
    [] ch \in Blanks -> Return(Go(t, "DEFAULT"), "KEY")
    [] OTHER -> Return(push_ch(t), "NEED_MORE_INPUT")

handle_parse_value(t, ch) ==
  CASE ch \in {"nul", "/", "!", "("} -> Return(handle_default(t, ch), "ERROR")
    [] ch = ")" -> Return(Go(t, "DEFAULT"), "VALUE")
    [] ch \in Blanks -> Return(t, "NEED_MORE_INPUT")
    [] OTHER -> Return(push_ch(t), "NEED_MORE_INPUT")

\* Mutant: the character behind the footer is not looked at.
handle_parse_end_of_frame_skips(t, ch) ==
  IF ch # "digit" THEN Return(t, "FRAME_FOOTER")
  ELSE LET pushed == push_ch(t)
       IN  Return(pushed, IF pushed.idx < 4 THEN "NEED_MORE_INPUT" ELSE "FRAME_FOOTER")

\* The state is left only by what follows the checksum.
handle_parse_end_of_frame(t, ch) ==
  IF ch # "digit" THEN Return(handle_default(t, ch), "FRAME_FOOTER")
  ELSE LET pushed == push_ch(t)
       IN  Return(pushed, IF pushed.idx < 4 THEN "NEED_MORE_INPUT" ELSE "FRAME_FOOTER")

state_action(t, ch) ==
  CASE t.state = "DEFAULT"            -> handle_default(t, ch)
    [] t.state = "PARSE_KEY"          -> handle_parse_key(t, ch)
    [] t.state = "PARSE_VALUE"        -> handle_parse_value(t, ch)
    [] t.state = "PARSE_END_OF_FRAME" -> handle_parse_end_of_frame(t, ch)
    [] t.state = "PARSE_FRAME_HEADER" -> handle_parse_frame_header(t, ch)

sm_tokenizer_parse_ch(t, ch) ==
  LET result == state_action(t, ch)
  IN  IF result.token = "NEED_MORE_INPUT" THEN [result EXCEPT !.length = 0]
      ELSE accept(result)

TokenizerInit == [state |-> "DEFAULT", idx |-> 0, length |-> 0, token |-> "NEED_MORE_INPUT"]

----------------------------------------------------------------------------
(* What the values mean.  "hang": parse_flt never returns.                 *)

\* The handler and the phase of each row of the table.
NoKey == [handler |-> "none", phase |-> 0]
Entries ==
       [handler : {"timestamp", "energy_import"}, phase : {0}]
  \cup [handler : {"energy_export"}, phase : {1}]
  \cup [handler : {"power_import", "power_export"}, phase : 0 .. 3]
  \cup [handler : {"potential", "current"}, phase : 0 .. 2]

\* For as many digits behind the point as asked for, or fewer.
parse_flt(text, decimals) ==
  text.whole * 10^decimals + text.frac * 10^(decimals - text.digits)

\* With more digits than that its loop does not advance any more.
Endless(text, decimals) == text.digits > decimals

\* "*W" is also found in "*Wh".
EnergyUnits == {"Wh", "kWh"}
PowerUnits == {"W", "kW", "Wh", "kWh"}
InKilo(text) == text.unit \in {"kWh", "kW"}

parse_energy(text) ==
  IF InKilo(text) THEN parse_flt(text, 3) ELSE parse_flt(text, 3) \div 1000
parse_power(text) ==
  IF InKilo(text) THEN parse_flt(text, 3) ELSE parse_flt(text, 3) \div 1000
parse_potential(text) == parse_flt(text, 1) * 100
parse_current(text) == parse_flt(text, 0) * 1000

Result(p, result) == [p EXCEPT !.result = result]

\* The common part of the handlers: stored is the parser with the value.
Checked(p, text, decimals, units, stored) ==
  CASE p.value_idx # 0 -> Result(p, "error")
    [] p.value_idx = 0 /\ Endless(text, decimals) -> Result(p, "hang")
    [] p.value_idx = 0 /\ ~Endless(text, decimals) ->
         IF text.unit \in units THEN stored ELSE Result(p, "error")

\* The fields behind the year are stored one by one, also if a later one fails.
handle_timestamp(p, text) ==
  LET ok == text.pairs = 6 /\ text.unit \in {"summer", "winter"}
      date == CASE text.pairs < 2 -> p.timestamp.date
                [] text.pairs = 6 -> text.whole
                [] OTHER -> -1                       \* part of it
  IN  Result([p EXCEPT !.timestamp = [date |-> date,
                         year |-> IF ok THEN text.whole ELSE @.year]],
             IF ok THEN "ok" ELSE "error")

handle_potential(p, phase, text) ==
  Checked(p, text, 1, {"V"},
          [p EXCEPT !.potential_mv[phase] = parse_potential(text)])

handle_current(p, phase, text) ==
  Checked(p, text, 0, {"A"},
          [p EXCEPT !.current_ma[phase] = parse_current(text)])

AddPower(p, phase, power) ==
  [p EXCEPT !.power[phase] = @ + power, !.is_lx_power_present = @ \/ phase > 0]

handle_power_import(p, phase, text) ==
  Checked(p, text, 3, PowerUnits, AddPower(p, phase, parse_power(text)))

handle_power_export(p, phase, text) ==
  Checked(p, text, 3, PowerUnits, AddPower(p, phase, -parse_power(text)))

handle_energy_import(p, text) ==
  Checked(p, text, 3, EnergyUnits,
          [p EXCEPT !.import_wh = @ + parse_energy(text)])

handle_energy_export(p, text) ==
  Checked(p, text, 3, EnergyUnits,
          [p EXCEPT !.export_wh = @ + parse_energy(text)])

\* p->active_key->parser(...), or nothing for a key that is not in the table.
handle_value(p, text) ==
  LET key == p.active_key
  IN  CASE key.handler = "timestamp"     -> handle_timestamp(p, text)
        [] key.handler = "potential"     -> handle_potential(p, key.phase, text)
        [] key.handler = "current"       -> handle_current(p, key.phase, text)
        [] key.handler = "power_import"  -> handle_power_import(p, key.phase, text)
        [] key.handler = "power_export"  -> handle_power_export(p, key.phase, text)
        [] key.handler = "energy_import" -> handle_energy_import(p, text)
        [] key.handler = "energy_export" -> handle_energy_export(p, text)
        [] key.handler = "none"          -> p

----------------------------------------------------------------------------
(* The parser.                                                             *)

NoFrame == [power_w |-> <<>>]

\* Mutant: a new telegram adds to the power of the last one.
handle_frame_start_keeps(p) ==
  [p EXCEPT !.potential_mv = [i \in 0 .. 2 |-> 0], !.current_ma = [i \in 0 .. 2 |-> 0],
            !.import_wh = 0, !.export_wh = 0, !.is_lx_power_present = FALSE]

\* The timestamp stays.
handle_frame_start(p) ==
  [p EXCEPT !.power = [i \in 0 .. 3 |-> 0], !.potential_mv = [i \in 0 .. 2 |-> 0],
            !.current_ma = [i \in 0 .. 2 |-> 0], !.import_wh = 0, !.export_wh = 0,
            !.is_lx_power_present = FALSE]

\* The values are copied to last_frame, of which the callback is told.
handle_frame_end(p) ==
  LET q == IF p.is_lx_power_present THEN p ELSE [p EXCEPT !.power[1] = p.power[0]]
  IN  [q EXCEPT !.last_frame =
         [power_w |-> [i \in 0 .. 2 |-> q.power[i + 1]], potential_mv |-> q.potential_mv,
          current_ma |-> q.current_ma, import_wh |-> q.import_wh,
          export_wh |-> q.export_wh, timestamp |-> q.timestamp]]

\* The token is t.token; key or text is what it means.
sm_parser_parse_token(p, t, key, text) ==
  CASE t.token = "NEED_MORE_INPUT" -> p
    [] p.state = "PARSE_HEADER" /\ t.token = "FRAME_HEADER" ->
         [handle_frame_start(p) EXCEPT !.state = "PARSE_KEY"]
    [] p.state = "PARSE_HEADER" /\ t.token \notin {"NEED_MORE_INPUT", "FRAME_HEADER"} -> p
    [] t.token = "KEY" /\ (\/ p.state = "PARSE_KEY"
                           \/ p.state = "PARSE_VALUES" /\ p.value_idx # 0) ->
         [p EXCEPT !.active_key = key, !.value_idx = 0, !.state = "PARSE_VALUES"]
    [] t.token = "FRAME_FOOTER" /\ p.state = "PARSE_KEY" ->
         [p EXCEPT !.state = "PARSE_HEADER"]
    [] t.token = "VALUE" /\ p.state = "PARSE_VALUES" ->
         [handle_value(p, text) EXCEPT !.value_idx = (@ + 1) % ValueIdxMod]
    [] t.token = "FRAME_FOOTER" /\ p.state = "PARSE_VALUES" /\ p.value_idx # 0 ->
         handle_frame_end([p EXCEPT !.state = "PARSE_HEADER"])
    [] OTHER -> Result(p, "error")

\* t is the tokenizer after the character; last_frame is kept for one step, for
\* the callback it is passed to.
sm_parser_parse_ch(p, t, key, text) ==
  LET q == sm_parser_parse_token([p EXCEPT !.result = "ok", !.last_frame = NoFrame],
                                 t, key, text)
  IN  IF q.result = "error" THEN [q EXCEPT !.state = "PARSE_HEADER"] ELSE q

\* After sm_parser_init and sm_parser_reset.
ParserInit ==
  [state |-> "PARSE_HEADER", active_key |-> NoKey, value_idx |-> 0,
   timestamp |-> [date |-> 0, year |-> 0], power |-> [i \in 0 .. 3 |-> 0],
   potential_mv |-> [i \in 0 .. 2 |-> 0], current_ma |-> [i \in 0 .. 2 |-> 0],
   import_wh |-> 0, export_wh |-> 0, is_lx_power_present |-> FALSE,
   last_frame |-> NoFrame, result |-> "ok"]
=============================================================================
