----------------------------- MODULE MeterLine -----------------------------
(***************************************************************************)
(* The smart meter's serial line and the parser behind it.  The meter      *)
(* sends telegrams; at any time the line may lose, change or insert        *)
(* characters, which is to say that the parser receives any character      *)
(* whatever, and the meter goes on with a new telegram some time later.    *)
(***************************************************************************)
EXTENDS SmParser, SequencesExt

CONSTANTS
  Keys,                   \* the keys of the table that occur on the line
  Texts,                  \* the values that occur on the line
  MaxLines                \* bound: values of Keys between a "/" and the next "!"

VARIABLES
  tokenizer, parser,      \* sm_tokenizer_t and sm_parser_t
  line,                   \* what the meter is sending, or "noise"
  telegram,               \* ghost: the values received since the last "/"
  clean,                  \* ghost: a telegram has passed since the last noise
  reported                \* ghost: the present telegram has been reported

vars == <<tokenizer, parser, line, telegram, clean, reported>>

TextType == [whole : Nat, frac : Nat, digits : Nat, unit : STRING, pairs : 0 .. 6]

ASSUME LineAssumption == Keys \subseteq Entries /\ Texts \subseteq TextType
                         /\ MaxLines \in Nat

NoText == [whole |-> 0, frac |-> 0, digits |-> 0, unit |-> "", pairs |-> 0]

----------------------------------------------------------------------------
(* The telegrams of a meter.                                               *)

Positions == {"noise", "gap", "id", "start", "key", "value", "more", "lines", "crc"}

\* The characters that may come next in a telegram, each with what follows.
Sends ==
  [pos \in Positions |->
    CASE pos = "noise" -> {<<"/", "id">>}
      [] pos = "gap"   -> {<<Newline, "gap">>, <<"/", "id">>}
      [] pos = "id"    -> {<<"other", "id">>, <<"\\", "id">>, <<Newline, "start">>}
      [] pos = "start" -> {<<Newline, "start">>, <<"digit", "key">>}
      [] pos = "key"   -> {<<"other", "key">>, <<"(", "value">>}
      [] pos = "value" -> {<<"digit", "value">>, <<"other", "value">>, <<")", "more">>}
      [] pos = "more"  -> {<<"(", "value">>, <<Newline, "lines">>}
      [] pos = "lines" -> {<<Newline, "lines">>, <<"digit", "key">>, <<"!", "crc">>}
      [] pos = "crc"   -> {<<"digit", "crc">>, <<"other", "crc">>, <<Newline, "gap">>}]

Decimals(handler) == CASE handler = "potential" -> 1 [] handler = "current" -> 0 [] OTHER -> 3
Units(handler) ==
  CASE handler = "potential" -> {"V"}
    [] handler = "current" -> {"A"}
    [] handler \in {"power_import", "power_export"} -> {"W", "kW"}
    [] handler \in {"energy_import", "energy_export"} -> {"Wh", "kWh"}
    [] handler = "timestamp" -> {"summer", "winter"}

\* A meter sends one value, as the standard has it, for each key of the table,
\* and any values, though fewer than value_idx can count, for other keys.
Conforms(key, value_idx, text) ==
  IF key = NoKey THEN value_idx < ValueIdxMod - 1
  ELSE /\ value_idx = 0
       /\ text.unit \in Units(key.handler)
       /\ text.digits <= Decimals(key.handler)
       /\ key.handler = "timestamp" => text.pairs = 6

----------------------------------------------------------------------------
(* Receiving a character.                                                  *)

NoTelegram == [open |-> FALSE, key |-> NoKey, lines |-> <<>>]

\* A value of a known key ends.
ReadsLine(t) == t.token = "VALUE" /\ telegram.open /\ telegram.key # NoKey

\* The telegram as received: the values of known keys, each with its key, between
\* a "/" and the next "!".  It is given up when the parser reports it or an error.
TelegramAfter(ch, t, key, text) ==
  CASE ch = "/" -> [NoTelegram EXCEPT !.open = TRUE]
    [] ch # "/" /\ (parser'.result = "error" \/ parser'.last_frame # NoFrame) -> NoTelegram
    [] OTHER ->
         CASE ch = "!" -> [telegram EXCEPT !.open = FALSE]
           [] telegram.open /\ t.token = "KEY" -> [telegram EXCEPT !.key = key]
           [] ReadsLine(t) ->
                [telegram EXCEPT !.lines = Append(@, [key |-> telegram.key, text |-> text])]
           [] OTHER -> telegram

\* What a token may mean; an empty text is no key and no number.
KeysOf(t) == IF t.token = "KEY" /\ t.length > 0 THEN Keys \cup {NoKey} ELSE {NoKey}
TextsOf(t) == IF t.token = "VALUE" /\ t.length > 0 THEN Texts ELSE {NoText}

\* SmartMeter::loop hands on what it has read, character by character.
sm_parser_parse_str(ch, key, text) ==
  LET t == sm_tokenizer_parse_ch(tokenizer, ch)
  IN  /\ parser.result # "hang"
      /\ ReadsLine(t) => Len(telegram.lines) < MaxLines
      /\ tokenizer' = t
      /\ parser' = sm_parser_parse_ch(parser, t, key, text)
      /\ telegram' = TelegramAfter(ch, t, key, text)

\* The meter's next character arrives as it was sent.
Arrives ==
  \E send \in Sends[line] :
    LET t == sm_tokenizer_parse_ch(tokenizer, send[1]) IN
    \E key \in KeysOf(t), text \in TextsOf(t) :
      /\ send[1] = "(" /\ line = "more" /\ parser.state = "PARSE_VALUES" =>
           Conforms(parser.active_key, parser.value_idx, NoText)
      /\ t.token = "VALUE" /\ parser.state = "PARSE_VALUES" =>
           Conforms(parser.active_key, parser.value_idx, text)
      /\ sm_parser_parse_str(send[1], key, text)
      /\ line' = send[2]
      /\ reported' = (send[1] # "/" /\ (reported \/ parser'.last_frame # NoFrame))
      /\ clean' = (clean \/ (line = "crc" /\ line' = "gap"))

\* Some character arrives that the meter did not send, or not now.
Noise ==
  \E ch \in Chars :
    LET t == sm_tokenizer_parse_ch(tokenizer, ch) IN
    \E key \in KeysOf(t), text \in TextsOf(t) :
      /\ sm_parser_parse_str(ch, key, text)
      /\ line' = "noise"
      /\ reported' = FALSE
      /\ clean' = FALSE

\* parse_flt spins: nothing runs any more.
Spins == parser.result = "hang" /\ UNCHANGED vars

Init ==
  /\ tokenizer = TokenizerInit
  /\ parser = ParserInit
  /\ line = "noise"
  /\ telegram = NoTelegram
  /\ clean = FALSE
  /\ reported = FALSE

Next == Arrives \/ Noise \/ Spins

Spec == Init /\ [][Next]_vars

----------------------------------------------------------------------------
(* What a telegram says, as a whole.                                       *)

Thousandths(text) == text.whole * 1000 + text.frac * 10^(3 - text.digits)
Plain(text) == IF InKilo(text) THEN Thousandths(text) ELSE Thousandths(text) \div 1000

LinesOf(lines, handler, phases) ==
  SelectSeq(lines, LAMBDA l : l.key.handler = handler /\ l.key.phase \in phases)

Total(lines) == FoldLeft(LAMBDA sum, l : sum + Plain(l.text), 0, lines)

Latest(lines) == IF lines = <<>> THEN 0 ELSE Thousandths(Last(lines).text)

Power(lines, phase) ==
  Total(LinesOf(lines, "power_import", {phase})) - Total(LinesOf(lines, "power_export", {phase}))

\* The power of the phases, or the total as that of the first.
PhasePower(lines) ==
  IF LinesOf(lines, "power_import", 1 .. 3) \o LinesOf(lines, "power_export", 1 .. 3) = <<>>
    THEN [i \in 0 .. 2 |-> IF i = 0 THEN Power(lines, 0) ELSE 0]
    ELSE [i \in 0 .. 2 |-> Power(lines, i + 1)]

\* frame reports what the lines say.
Says(lines, frame) ==
  LET times == LinesOf(lines, "timestamp", {0})
      stamp == Last(times).text.whole
  IN  /\ frame.power_w = PhasePower(lines)
      /\ frame.potential_mv = [i \in 0 .. 2 |-> Latest(LinesOf(lines, "potential", {i}))]
      /\ frame.current_ma = [i \in 0 .. 2 |-> Latest(LinesOf(lines, "current", {i}))]
      /\ frame.import_wh = Total(LinesOf(lines, "energy_import", {0}))
      /\ frame.export_wh = Total(LinesOf(lines, "energy_export", {1}))
      /\ times # <<>> => frame.timestamp = [date |-> stamp, year |-> stamp]

----------------------------------------------------------------------------
(* Properties.                                                             *)

\* The tokenizer and the parser keep their types: however long a token grows,
\* push_ch stays inside buf, accept and the strcpy to model stay inside their
\* arrays of one byte more, and value_idx stays a uint8_t.
ParserTypeOK ==
  /\ tokenizer \in [state : TokenizerStates, idx : 0 .. BufSize, length : 0 .. BufSize,
                    token : Tokens]
  /\ parser.state \in {"PARSE_HEADER", "PARSE_KEY", "PARSE_VALUES"}
  /\ parser.active_key \in Keys \cup {NoKey}
  /\ parser.value_idx \in 0 .. ValueIdxMod - 1
  /\ parser.result \in {"ok", "error", "hang"}

\* What handle_frame_end hands to the callback is exactly what one telegram
\* said, from a "/" to a "!", with nothing left of an earlier one and nothing
\* missing, whatever was lost or inserted before, within or after it.
FrameIsTelegram ==
  [][parser'.last_frame # NoFrame => Says(telegram.lines, parser'.last_frame)]_vars

\* Whatever has come before and in whichever states it has left tokenizer and
\* parser, at most one undisturbed telegram is lost: each one after it is
\* reported before the next begins.
LosesAtMostOne ==
  [][line = "crc" /\ line' = "gap" /\ clean => reported']_vars

\* parse_ch returns for every character: a value that cannot be read is an error.
ParserReturns == parser.result # "hang"
=============================================================================
