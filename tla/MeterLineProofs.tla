-------------------------- MODULE MeterLineProofs --------------------------
(***************************************************************************)
(* Proofs about the tokenizer and the parser for every buffer size, every  *)
(* counter and any keys and values on the line.                            *)
(***************************************************************************)
EXTENDS MeterLine, TLAPS

TokenizerType ==
  [state : TokenizerStates, idx : 0 .. BufSize, length : 0 .. BufSize, token : Tokens]

\* The values the parser collects do not matter here, only that it has them.
Members == DOMAIN ParserInit

IsParser(p) ==
  /\ p = [m \in Members |-> p[m]]
  /\ p.state \in {"PARSE_HEADER", "PARSE_KEY", "PARSE_VALUES"}
  /\ p.active_key \in Keys \cup {NoKey}
  /\ p.value_idx \in 0 .. ValueIdxMod - 1
  /\ p.result \in {"ok", "error", "hang"}

LineInv == tokenizer \in TokenizerType /\ IsParser(parser)

----------------------------------------------------------------------------
(* The tokenizer.                                                          *)

\* push_ch never leaves buf.
LEMMA PushType ==
  ASSUME NEW t \in TokenizerType
  PROVE  push_ch(t) \in TokenizerType
<1>1. t.idx \in 0 .. BufSize /\ BufSize \in Nat
  BY ParserAssumption DEF TokenizerType
<1>2. (IF t.idx < BufSize THEN t.idx + 1 ELSE t.idx) \in 0 .. BufSize
  BY <1>1
<1>3. push_ch(t) = [t EXCEPT !.idx = IF t.idx < BufSize THEN t.idx + 1 ELSE t.idx]
  BY DEF push_ch, TokenizerType
<1> QED BY <1>2, <1>3 DEF TokenizerType

LEMMA GoType ==
  ASSUME NEW t \in TokenizerType, NEW s \in TokenizerStates
  PROVE  Go(t, s) \in TokenizerType
BY DEF Go, TokenizerType

LEMMA ReturnType ==
  ASSUME NEW t \in TokenizerType, NEW k \in Tokens
  PROVE  Return(t, k) \in TokenizerType /\ Return(t, k).token = k
BY DEF Return, TokenizerType

LEMMA DefaultType ==
  ASSUME NEW t \in TokenizerType, NEW ch
  PROVE  handle_default(t, ch) \in TokenizerType
<1>1. \A s \in TokenizerStates, k \in Tokens :
        Return(Go(t, s), k) \in TokenizerType /\ Return(push_ch(Go(t, s)), k) \in TokenizerType
  BY PushType, GoType, ReturnType
<1>2. \A k \in Tokens : Return(t, k) \in TokenizerType
  BY ReturnType
<1> QED BY <1>1, <1>2 DEF handle_default, TokenizerStates, Tokens

\* The functions of the table keep the types.
LEMMA ActionType ==
  ASSUME NEW t \in TokenizerType, NEW ch
  PROVE  state_action(t, ch) \in TokenizerType
<1>1. \A s \in TokenizerStates, k \in Tokens : Return(Go(t, s), k) \in TokenizerType
  BY GoType, ReturnType
<1>2. \A k \in Tokens : /\ Return(t, k) \in TokenizerType
                        /\ Return(push_ch(t), k) \in TokenizerType
                        /\ Return(push_ch(push_ch(t)), k) \in TokenizerType
  BY PushType, ReturnType
<1>3. \A k \in Tokens : Return(handle_default(t, ch), k) \in TokenizerType
  BY DefaultType, ReturnType
<1>4. handle_parse_frame_header(t, ch) \in TokenizerType
  BY <1>1, <1>2, <1>3 DEF handle_parse_frame_header, TokenizerStates, Tokens
<1>5. handle_parse_key(t, ch) \in TokenizerType
  BY <1>1, <1>2, <1>3 DEF handle_parse_key, TokenizerStates, Tokens
<1>6. handle_parse_value(t, ch) \in TokenizerType
  BY <1>1, <1>2, <1>3 DEF handle_parse_value, TokenizerStates, Tokens
<1>7. handle_parse_end_of_frame(t, ch) \in TokenizerType
  BY <1>2, <1>3 DEF handle_parse_end_of_frame, Tokens
<1>8. t.state \in TokenizerStates
  BY DEF TokenizerType
<1> QED BY <1>4, <1>5, <1>6, <1>7, <1>8, DefaultType DEF state_action, TokenizerStates

LEMMA TokenizerTypeKept ==
  ASSUME NEW t \in TokenizerType, NEW ch
  PROVE  sm_tokenizer_parse_ch(t, ch) \in TokenizerType
<1> DEFINE r == state_action(t, ch)
<1>1. r \in TokenizerType
  BY ActionType
<1> HIDE DEF r
<1>2. 0 \in 0 .. BufSize
  BY ParserAssumption
<1>3. [r EXCEPT !.length = 0] \in TokenizerType
  BY <1>1, <1>2 DEF TokenizerType
<1>4. accept(r) \in TokenizerType
  BY <1>1, <1>2 DEF accept, TokenizerType
<1> QED BY <1>3, <1>4 DEF sm_tokenizer_parse_ch, r

----------------------------------------------------------------------------
(* The parser.                                                             *)

\* Assigning to a member leaves the others alone.
LEMMA ResultParser ==
  ASSUME NEW p, IsParser(p), NEW r \in {"ok", "error", "hang"}
  PROVE  IsParser(Result(p, r))
BY DEF IsParser, Result, Members, ParserInit

\* What the handlers store is in the other members.
LEMMA StoreParser ==
  ASSUME NEW p, IsParser(p), NEW phase, NEW text, NEW power
  PROVE  /\ IsParser([p EXCEPT !.potential_mv[phase] = parse_potential(text)])
         /\ IsParser([p EXCEPT !.current_ma[phase] = parse_current(text)])
         /\ IsParser(AddPower(p, phase, power))
         /\ IsParser([p EXCEPT !.import_wh = @ + parse_energy(text)])
         /\ IsParser([p EXCEPT !.export_wh = @ + parse_energy(text)])
<1>1. IsParser([p EXCEPT !.potential_mv[phase] = parse_potential(text)])
  BY DEF IsParser, Members, ParserInit
<1>2. IsParser([p EXCEPT !.current_ma[phase] = parse_current(text)])
  BY DEF IsParser, Members, ParserInit
<1>3. IsParser(AddPower(p, phase, power))
  BY DEF AddPower, IsParser, Members, ParserInit
<1>4. IsParser([p EXCEPT !.import_wh = @ + parse_energy(text)])
  BY DEF IsParser, Members, ParserInit
<1>5. IsParser([p EXCEPT !.export_wh = @ + parse_energy(text)])
  BY DEF IsParser, Members, ParserInit
<1> QED BY <1>1, <1>2, <1>3, <1>4, <1>5

\* Every handler leaves a parser, whatever the text.
LEMMA CheckedParser ==
  ASSUME NEW p, IsParser(p), NEW text, NEW decimals, NEW units, NEW stored,
         IsParser(stored)
  PROVE  IsParser(Checked(p, text, decimals, units, stored))
<1>1. \A r \in {"ok", "error", "hang"} : IsParser(Result(p, r))
  BY ResultParser
<1>2. CASE p.value_idx # 0
  BY <1>1, <1>2 DEF Checked
<1>3. CASE p.value_idx = 0 /\ Endless(text, decimals)
  BY <1>1, <1>3 DEF Checked
<1>4. CASE p.value_idx = 0 /\ ~Endless(text, decimals)
  BY <1>1, <1>4 DEF Checked
<1> QED BY <1>2, <1>3, <1>4

LEMMA TimestampParser ==
  ASSUME NEW p, IsParser(p), NEW text
  PROVE  IsParser(handle_timestamp(p, text))
<1>1. \A v : IsParser([p EXCEPT !.timestamp = v])
  BY DEF IsParser, Members, ParserInit
<1> DEFINE ok == text.pairs = 6 /\ text.unit \in {"summer", "winter"}
           date == CASE text.pairs < 2 -> p.timestamp.date
                     [] text.pairs = 6 -> text.whole
                     [] OTHER -> -1
           v == [date |-> date, year |-> IF ok THEN text.whole ELSE p.timestamp.year]
           r == IF ok THEN "ok" ELSE "error"
<1>2. handle_timestamp(p, text) = Result([p EXCEPT !.timestamp = v], r)
  BY DEF handle_timestamp
<1>3. r \in {"ok", "error", "hang"}
  OBVIOUS
<1> HIDE DEF v, r
<1> QED BY <1>1, <1>2, <1>3, ResultParser

\* The handler of the active key leaves a parser.
LEMMA ValueParser ==
  ASSUME NEW p, IsParser(p), NEW text
  PROVE  IsParser(handle_value(p, text))
<1> DEFINE key == p.active_key
<1>1. key.handler \in {"timestamp", "potential", "current", "power_import", "power_export",
                       "energy_import", "energy_export", "none"}
  BY LineAssumption DEF IsParser, Entries, NoKey
<1>2. IsParser(handle_timestamp(p, text))
  BY TimestampParser
<1>3. IsParser(handle_potential(p, key.phase, text))
  BY StoreParser, CheckedParser DEF handle_potential
<1>4. IsParser(handle_current(p, key.phase, text))
  BY StoreParser, CheckedParser DEF handle_current
<1>5. IsParser(handle_power_import(p, key.phase, text))
  BY StoreParser, CheckedParser DEF handle_power_import
<1>6. IsParser(handle_power_export(p, key.phase, text))
  BY StoreParser, CheckedParser DEF handle_power_export
<1>7. IsParser(handle_energy_import(p, text))
  BY StoreParser, CheckedParser DEF handle_energy_import
<1>8. IsParser(handle_energy_export(p, text))
  BY StoreParser, CheckedParser DEF handle_energy_export
<1> QED BY <1>1, <1>2, <1>3, <1>4, <1>5, <1>6, <1>7, <1>8 DEF handle_value

\* A step of the parser's own state machine leaves a parser.
LEMMA TokenParser ==
  ASSUME NEW p, IsParser(p), NEW t \in TokenizerType, NEW key \in Keys \cup {NoKey},
         NEW text
  PROVE  IsParser(sm_parser_parse_token(p, t, key, text))
<1>1. ValueIdxMod \in Nat \ {0}
  BY ParserAssumption
<1>2. \A state \in {"PARSE_HEADER", "PARSE_KEY", "PARSE_VALUES"} :
        IsParser([p EXCEPT !.state = state])
  BY DEF IsParser, Members, ParserInit
<1>3. IsParser([handle_frame_start(p) EXCEPT !.state = "PARSE_KEY"])
  BY DEF handle_frame_start, IsParser, Members, ParserInit
<1>4. IsParser([p EXCEPT !.active_key = key, !.value_idx = 0, !.state = "PARSE_VALUES"])
  <2>1. 0 \in 0 .. ValueIdxMod - 1
    BY <1>1
  <2> QED BY <2>1 DEF IsParser, Members, ParserInit
<1>5. IsParser([handle_value(p, text) EXCEPT !.value_idx = (@ + 1) % ValueIdxMod])
  <2> DEFINE q == handle_value(p, text)
  <2>1. IsParser(q)
    BY ValueParser
  <2> HIDE DEF q
  <2>2. (q.value_idx + 1) % ValueIdxMod \in 0 .. ValueIdxMod - 1
    BY <1>1, <2>1 DEF IsParser
  <2>3. IsParser([q EXCEPT !.value_idx = (q.value_idx + 1) % ValueIdxMod])
    BY <2>1, <2>2 DEF IsParser, Members, ParserInit
  <2> QED BY <2>3 DEF q
<1>6. IsParser(handle_frame_end([p EXCEPT !.state = "PARSE_HEADER"]))
  <2> DEFINE q == [p EXCEPT !.state = "PARSE_HEADER"]
             u == IF q.is_lx_power_present THEN q ELSE [q EXCEPT !.power[1] = q.power[0]]
  <2>1. IsParser(q)
    BY <1>2
  <2> HIDE DEF q
  <2>2. IsParser(u)
    BY <2>1 DEF IsParser, Members, ParserInit
  <2> HIDE DEF u
  <2>3. \A v : IsParser([u EXCEPT !.last_frame = v])
    BY <2>2 DEF IsParser, Members, ParserInit
  <2>4. handle_frame_end(q) = [u EXCEPT !.last_frame =
          [power_w |-> [i \in 0 .. 2 |-> u.power[i + 1]], potential_mv |-> u.potential_mv,
           current_ma |-> u.current_ma, import_wh |-> u.import_wh,
           export_wh |-> u.export_wh, timestamp |-> u.timestamp]]
    BY DEF handle_frame_end, u
  <2> QED BY <2>3, <2>4 DEF q
<1>7. IsParser(Result(p, "error"))
  BY ResultParser
<1> DEFINE P == sm_parser_parse_token(p, t, key, text)
<1>8. \/ P = p
      \/ P = [handle_frame_start(p) EXCEPT !.state = "PARSE_KEY"]
      \/ P = [p EXCEPT !.active_key = key, !.value_idx = 0, !.state = "PARSE_VALUES"]
      \/ P = [p EXCEPT !.state = "PARSE_HEADER"]
      \/ P = [handle_value(p, text) EXCEPT !.value_idx = (@ + 1) % ValueIdxMod]
      \/ P = handle_frame_end([p EXCEPT !.state = "PARSE_HEADER"])
      \/ P = Result(p, "error")
  BY DEF sm_parser_parse_token
<1> HIDE DEF P
<1>9. IsParser(P)
  BY <1>2, <1>3, <1>4, <1>5, <1>6, <1>7, <1>8
<1> QED BY <1>9 DEF P

LEMMA ParserKept ==
  ASSUME NEW p, IsParser(p), NEW t \in TokenizerType, NEW key \in Keys \cup {NoKey},
         NEW text
  PROVE  IsParser(sm_parser_parse_ch(p, t, key, text))
<1> DEFINE s == [p EXCEPT !.result = "ok", !.last_frame = NoFrame]
           q == sm_parser_parse_token(s, t, key, text)
<1>1. IsParser(s)
  BY DEF IsParser, Members, ParserInit
<1> HIDE DEF s
<1>2. IsParser(q)
  BY <1>1, TokenParser
<1> HIDE DEF q
<1>3. IsParser([q EXCEPT !.state = "PARSE_HEADER"])
  BY <1>2 DEF IsParser, Members, ParserInit
<1> QED BY <1>2, <1>3 DEF sm_parser_parse_ch, s, q

----------------------------------------------------------------------------
(* The line.                                                               *)

LEMMA InitLine == Init => LineInv
<1> SUFFICES ASSUME Init PROVE LineInv
  OBVIOUS
<1>1. 0 \in 0 .. BufSize /\ 0 \in 0 .. ValueIdxMod - 1
  BY ParserAssumption
<1>2. tokenizer \in TokenizerType
  BY <1>1 DEF Init, TokenizerInit, TokenizerType, TokenizerStates, Tokens
<1>3. IsParser(parser)
  BY <1>1 DEF Init, IsParser, Members, ParserInit
<1> QED BY <1>2, <1>3 DEF LineInv

\* Any character, whatever its token means, keeps the types.
LEMMA CharacterLine ==
  ASSUME LineInv, NEW ch, NEW key \in Keys \cup {NoKey}, NEW text,
         sm_parser_parse_str(ch, key, text)
  PROVE  LineInv'
<1> DEFINE t == sm_tokenizer_parse_ch(tokenizer, ch)
<1>1. tokenizer' = t /\ parser' = sm_parser_parse_ch(parser, t, key, text)
  BY DEF sm_parser_parse_str
<1>2. t \in TokenizerType
  BY TokenizerTypeKept DEF LineInv
<1> HIDE DEF t
<1>3. IsParser(sm_parser_parse_ch(parser, t, key, text))
  BY <1>2, ParserKept DEF LineInv
<1> QED BY <1>1, <1>2, <1>3 DEF LineInv

LEMMA NextLine == LineInv /\ [Next]_vars => LineInv'
<1> SUFFICES ASSUME LineInv, [Next]_vars PROVE LineInv'
  OBVIOUS
<1>1. \A t : KeysOf(t) \subseteq Keys \cup {NoKey}
  BY DEF KeysOf
<1>2. CASE Arrives
  <2>1. PICK send \in Sends[line] :
          \E key \in KeysOf(sm_tokenizer_parse_ch(tokenizer, send[1])),
             text \in TextsOf(sm_tokenizer_parse_ch(tokenizer, send[1])) :
            sm_parser_parse_str(send[1], key, text)
    BY <1>2, Zenon DEF Arrives
  <2> QED BY <1>1, <2>1, CharacterLine
<1>3. CASE Noise
  <2>1. PICK ch \in Chars :
          \E key \in KeysOf(sm_tokenizer_parse_ch(tokenizer, ch)),
             text \in TextsOf(sm_tokenizer_parse_ch(tokenizer, ch)) :
            sm_parser_parse_str(ch, key, text)
    BY <1>3, Zenon DEF Noise
  <2> QED BY <1>1, <2>1, CharacterLine
<1>4. CASE UNCHANGED vars
  BY <1>4 DEF vars, LineInv
<1>5. CASE Spins
  BY <1>4, <1>5 DEF Spins
<1> QED BY <1>2, <1>3, <1>4, <1>5 DEF Next

\* Tokenizer and parser keep their types for every size of the token buffer and
\* whatever arrives (ParserTypeOK): push_ch and accept stay inside buf.
THEOREM ParserTypeCorrect == Spec => []ParserTypeOK
<1>1. LineInv => ParserTypeOK
  BY DEF LineInv, ParserTypeOK, TokenizerType, IsParser
<1>2. Spec => []LineInv
  BY InitLine, NextLine, PTL DEF Spec
<1> QED BY <1>1, <1>2, PTL

----------------------------------------------------------------------------
(* What the tokenizer makes of a character.                                *)

LEMMA Fields ==
  ASSUME NEW t \in TokenizerType
  PROVE  /\ \A s \in TokenizerStates : Go(t, s).state = s
         /\ push_ch(t).state = t.state
         /\ \A k \in Tokens : Return(t, k).state = t.state /\ Return(t, k).token = k
<1>1. \A s \in TokenizerStates : Go(t, s).state = s
  BY DEF Go, TokenizerType
<1>2. push_ch(t).state = t.state
  BY DEF push_ch, TokenizerType
<1>3. \A k \in Tokens : Return(t, k).state = t.state /\ Return(t, k).token = k
  BY DEF Return, TokenizerType
<1> QED BY <1>1, <1>2, <1>3

\* sm_tokenizer_parse_ch adds nothing to the state and the token.
LEMMA Parsed ==
  ASSUME NEW t \in TokenizerType, NEW ch
  PROVE  /\ sm_tokenizer_parse_ch(t, ch).state = state_action(t, ch).state
         /\ sm_tokenizer_parse_ch(t, ch).token = state_action(t, ch).token
<1> DEFINE r == state_action(t, ch)
<1>1. r \in TokenizerType
  BY ActionType
<1> HIDE DEF r
<1>2. /\ [r EXCEPT !.length = 0].state = r.state /\ [r EXCEPT !.length = 0].token = r.token
      /\ accept(r).state = r.state /\ accept(r).token = r.token
  BY <1>1 DEF accept, TokenizerType
<1> QED BY <1>2 DEF sm_tokenizer_parse_ch, r

\* The state and the token that follow.
Gives(t, ch, state, token) ==
  /\ sm_tokenizer_parse_ch(t, ch).state = state
  /\ sm_tokenizer_parse_ch(t, ch).token = token

LEMMA DefaultGives ==
  ASSUME NEW t \in TokenizerType
  PROVE  /\ handle_default(t, "/").state = "PARSE_FRAME_HEADER"
         /\ handle_default(t, "/").token = "NEED_MORE_INPUT"
         /\ handle_default(t, "!").state = "PARSE_END_OF_FRAME"
         /\ handle_default(t, "!").token = "NEED_MORE_INPUT"
         /\ handle_default(t, "(").state = "PARSE_VALUE"
         /\ handle_default(t, "(").token = "NEED_MORE_INPUT"
         /\ handle_default(t, Newline).state = t.state
         /\ handle_default(t, Newline).token = "NEED_MORE_INPUT"
         /\ \A ch \in {"digit", "other"} :
              /\ handle_default(t, ch).state = "PARSE_KEY"
              /\ handle_default(t, ch).token = "NEED_MORE_INPUT"
<1>1. \A s \in TokenizerStates, k \in Tokens :
        /\ Return(Go(t, s), k).state = s /\ Return(Go(t, s), k).token = k
        /\ Return(push_ch(Go(t, s)), k).state = s /\ Return(push_ch(Go(t, s)), k).token = k
  BY Fields, GoType, PushType
<1>2. \A k \in Tokens : Return(t, k).state = t.state /\ Return(t, k).token = k
  BY Fields
<1>3. handle_default(t, "/") = Return(Go(t, "PARSE_FRAME_HEADER"), "NEED_MORE_INPUT")
  BY DEF handle_default, Blanks, Newline
<1>4. handle_default(t, "!") = Return(Go(t, "PARSE_END_OF_FRAME"), "NEED_MORE_INPUT")
  BY DEF handle_default, Blanks, Newline
<1>5. handle_default(t, "(") = Return(Go(t, "PARSE_VALUE"), "NEED_MORE_INPUT")
  BY DEF handle_default, Blanks, Newline
<1>6. handle_default(t, Newline) = Return(t, "NEED_MORE_INPUT")
  BY DEF handle_default, Blanks, Newline
<1>7. \A ch \in {"digit", "other"} :
        handle_default(t, ch) = Return(push_ch(Go(t, "PARSE_KEY")), "NEED_MORE_INPUT")
  BY DEF handle_default, Blanks, Newline
<1> QED BY <1>1, <1>2, <1>3, <1>4, <1>5, <1>6, <1>7 DEF TokenizerStates, Tokens

\* A "/" starts a header in every state.
LEMMA SlashGives ==
  ASSUME NEW t \in TokenizerType
  PROVE  \E token \in {"NEED_MORE_INPUT", "ERROR", "FRAME_FOOTER"} :
           Gives(t, "/", "PARSE_FRAME_HEADER", token)
<1> DEFINE d == handle_default(t, "/")
<1>1. d \in TokenizerType /\ d.state = "PARSE_FRAME_HEADER" /\ d.token = "NEED_MORE_INPUT"
  BY DefaultGives, DefaultType
<1>2. \A k \in Tokens : Return(d, k).state = "PARSE_FRAME_HEADER" /\ Return(d, k).token = k
  <2> HIDE DEF d
  <2> QED BY <1>1, Fields
<1>3. t.state \in TokenizerStates
  BY DEF TokenizerType
<1>4. state_action(t, "/") \in {d, Return(d, "ERROR"), Return(d, "FRAME_FOOTER")}
  <2>1. /\ handle_parse_key(t, "/") = Return(d, "ERROR")
        /\ handle_parse_value(t, "/") = Return(d, "ERROR")
        /\ handle_parse_frame_header(t, "/") = Return(d, "ERROR")
        /\ handle_parse_end_of_frame(t, "/") = Return(d, "FRAME_FOOTER")
    BY DEF handle_parse_key, handle_parse_value, handle_parse_frame_header,
           handle_parse_end_of_frame, Blanks, Newline
  <2> HIDE DEF d
  <2> QED BY <1>3, <2>1 DEF state_action, TokenizerStates, d
<1> HIDE DEF d
<1> QED BY <1>1, <1>2, <1>4, Parsed DEF Gives, Tokens

LEMMA HeaderGives ==
  ASSUME NEW t \in TokenizerType, t.state = "PARSE_FRAME_HEADER"
  PROVE  /\ \A ch \in {"other", "\\"} :
              Gives(t, ch, "PARSE_FRAME_HEADER", "NEED_MORE_INPUT")
         /\ Gives(t, Newline, "DEFAULT", "FRAME_HEADER")
<1>1. \A ch : state_action(t, ch) = handle_parse_frame_header(t, ch)
  BY DEF state_action
<1>2. /\ handle_parse_frame_header(t, "other") = Return(push_ch(t), "NEED_MORE_INPUT")
      /\ handle_parse_frame_header(t, "\\") = Return(push_ch(push_ch(t)), "NEED_MORE_INPUT")
      /\ handle_parse_frame_header(t, Newline) = Return(Go(t, "DEFAULT"), "FRAME_HEADER")
  BY DEF handle_parse_frame_header, Newline
<1>3. /\ push_ch(t) \in TokenizerType /\ push_ch(push_ch(t)) \in TokenizerType
      /\ Go(t, "DEFAULT") \in TokenizerType
  BY PushType, GoType DEF TokenizerStates
<1>4. /\ push_ch(t).state = t.state /\ push_ch(push_ch(t)).state = t.state
      /\ Go(t, "DEFAULT").state = "DEFAULT"
  BY <1>3, Fields DEF TokenizerStates
<1>5. "NEED_MORE_INPUT" \in Tokens /\ "FRAME_HEADER" \in Tokens
  BY DEF Tokens
<1> QED BY <1>1, <1>2, <1>3, <1>4, <1>5, Fields, Parsed DEF Gives

LEMMA NoStateGives ==
  ASSUME NEW t \in TokenizerType, t.state = "DEFAULT"
  PROVE  /\ Gives(t, Newline, "DEFAULT", "NEED_MORE_INPUT")
         /\ Gives(t, "digit", "PARSE_KEY", "NEED_MORE_INPUT")
         /\ Gives(t, "(", "PARSE_VALUE", "NEED_MORE_INPUT")
         /\ Gives(t, "!", "PARSE_END_OF_FRAME", "NEED_MORE_INPUT")
<1>1. \A ch : state_action(t, ch) = handle_default(t, ch)
  BY DEF state_action
<1> QED BY <1>1, DefaultGives, Parsed DEF Gives

LEMMA KeyGives ==
  ASSUME NEW t \in TokenizerType, t.state = "PARSE_KEY"
  PROVE  /\ \A ch \in {"digit", "other"} : Gives(t, ch, "PARSE_KEY", "NEED_MORE_INPUT")
         /\ Gives(t, "(", "PARSE_VALUE", "KEY")
         /\ Gives(t, Newline, "DEFAULT", "KEY")
<1>1. \A ch : state_action(t, ch) = handle_parse_key(t, ch)
  BY DEF state_action
<1>2. /\ \A ch \in {"digit", "other"} :
           handle_parse_key(t, ch) = Return(push_ch(t), "NEED_MORE_INPUT")
      /\ handle_parse_key(t, "(") = Return(Go(t, "PARSE_VALUE"), "KEY")
      /\ handle_parse_key(t, Newline) = Return(Go(t, "DEFAULT"), "KEY")
  BY DEF handle_parse_key, Blanks, Newline
<1>3. /\ push_ch(t) \in TokenizerType /\ push_ch(t).state = t.state
      /\ \A s \in TokenizerStates : Go(t, s) \in TokenizerType /\ Go(t, s).state = s
  BY PushType, GoType, Fields
<1>4. /\ "NEED_MORE_INPUT" \in Tokens /\ "KEY" \in Tokens
      /\ "DEFAULT" \in TokenizerStates /\ "PARSE_VALUE" \in TokenizerStates
  BY DEF Tokens, TokenizerStates
<1> QED BY <1>1, <1>2, <1>3, <1>4, Fields, Parsed DEF Gives

LEMMA ValueGives ==
  ASSUME NEW t \in TokenizerType, t.state = "PARSE_VALUE"
  PROVE  /\ \A ch \in {"digit", "other"} : Gives(t, ch, "PARSE_VALUE", "NEED_MORE_INPUT")
         /\ Gives(t, ")", "DEFAULT", "VALUE")
<1>1. \A ch : state_action(t, ch) = handle_parse_value(t, ch)
  BY DEF state_action
<1>2. /\ \A ch \in {"digit", "other"} :
           handle_parse_value(t, ch) = Return(push_ch(t), "NEED_MORE_INPUT")
      /\ handle_parse_value(t, ")") = Return(Go(t, "DEFAULT"), "VALUE")
  BY DEF handle_parse_value, Blanks, Newline
<1>3. /\ push_ch(t) \in TokenizerType /\ push_ch(t).state = t.state
      /\ Go(t, "DEFAULT") \in TokenizerType /\ Go(t, "DEFAULT").state = "DEFAULT"
  BY PushType, GoType, Fields DEF TokenizerStates
<1>4. "NEED_MORE_INPUT" \in Tokens /\ "VALUE" \in Tokens
  BY DEF Tokens
<1> QED BY <1>1, <1>2, <1>3, <1>4, Fields, Parsed DEF Gives

\* Behind the "!": the line feed leaves the state as it is.
LEMMA FooterGives ==
  ASSUME NEW t \in TokenizerType, t.state = "PARSE_END_OF_FRAME"
  PROVE  /\ \E token \in {"NEED_MORE_INPUT", "FRAME_FOOTER"} :
              Gives(t, "digit", "PARSE_END_OF_FRAME", token)
         /\ Gives(t, "other", "PARSE_KEY", "FRAME_FOOTER")
         /\ Gives(t, Newline, "PARSE_END_OF_FRAME", "FRAME_FOOTER")
<1>1. \A ch : state_action(t, ch) = handle_parse_end_of_frame(t, ch)
  BY DEF state_action
<1>2. /\ handle_parse_end_of_frame(t, "other")
           = Return(handle_default(t, "other"), "FRAME_FOOTER")
      /\ handle_parse_end_of_frame(t, Newline)
           = Return(handle_default(t, Newline), "FRAME_FOOTER")
      /\ handle_parse_end_of_frame(t, "digit")
           \in {Return(push_ch(t), "NEED_MORE_INPUT"), Return(push_ch(t), "FRAME_FOOTER")}
  BY DEF handle_parse_end_of_frame, Newline
<1>3. /\ push_ch(t) \in TokenizerType /\ push_ch(t).state = t.state
      /\ \A ch : handle_default(t, ch) \in TokenizerType
      /\ handle_default(t, "other").state = "PARSE_KEY"
      /\ handle_default(t, Newline).state = t.state
  BY PushType, Fields, DefaultType, DefaultGives
<1>4. "NEED_MORE_INPUT" \in Tokens /\ "FRAME_FOOTER" \in Tokens
  BY DEF Tokens
<1>5. \A ch : \A u \in TokenizerType : \A k \in Tokens :
        state_action(t, ch) = Return(u, k) => Gives(t, ch, u.state, k)
  BY Fields, Parsed DEF Gives
<1>6. Gives(t, "other", "PARSE_KEY", "FRAME_FOOTER")
  BY <1>1, <1>2, <1>3, <1>4, <1>5
<1>7. Gives(t, Newline, "PARSE_END_OF_FRAME", "FRAME_FOOTER")
  BY <1>1, <1>2, <1>3, <1>4, <1>5
<1>8. \E token \in {"NEED_MORE_INPUT", "FRAME_FOOTER"} :
        Gives(t, "digit", "PARSE_END_OF_FRAME", token)
  BY <1>1, <1>2, <1>3, <1>4, <1>5
<1> QED BY <1>6, <1>7, <1>8

----------------------------------------------------------------------------
(* What the parser makes of a token.                                       *)

\* The parser has had a key and at least one value for it.
Waiting(p) == p.state = "PARSE_VALUES" /\ p.value_idx # 0

\* sm_parser_parse_ch clears the result and the frame of the last call.
Cleared(p) == [p EXCEPT !.result = "ok", !.last_frame = NoFrame]

LEMMA ClearedFacts ==
  ASSUME NEW p, IsParser(p)
  PROVE  /\ IsParser(Cleared(p)) /\ Cleared(p).result = "ok"
         /\ Cleared(p).state = p.state /\ Cleared(p).value_idx = p.value_idx
         /\ Cleared(p).active_key = p.active_key
<1>1. IsParser(Cleared(p))
  BY DEF Cleared, IsParser, Members, ParserInit
<1>2. /\ Cleared(p).result = "ok"
      /\ Cleared(p).state = p.state /\ Cleared(p).value_idx = p.value_idx
      /\ Cleared(p).active_key = p.active_key
  BY DEF Cleared, IsParser, Members, ParserInit
<1> QED BY <1>1, <1>2

\* An error takes the parser back to PARSE_HEADER, anything else is kept.
LEMMA Outcome ==
  ASSUME NEW p, IsParser(p), NEW t \in TokenizerType, NEW key \in Keys \cup {NoKey},
         NEW text
  PROVE  LET q == sm_parser_parse_token(Cleared(p), t, key, text)
             r == sm_parser_parse_ch(p, t, key, text)
         IN  /\ IsParser(q)
             /\ q.result = "error" => r.state = "PARSE_HEADER"
             /\ q.result # "error" => r = q
<1> DEFINE q == sm_parser_parse_token(Cleared(p), t, key, text)
           r == sm_parser_parse_ch(p, t, key, text)
<1>1. IsParser(q)
  BY ClearedFacts, TokenParser
<1>2. r = IF q.result = "error" THEN [q EXCEPT !.state = "PARSE_HEADER"] ELSE q
  BY DEF sm_parser_parse_ch, Cleared
<1> HIDE DEF q, r
<1>3. [q EXCEPT !.state = "PARSE_HEADER"].state = "PARSE_HEADER"
  BY <1>1 DEF IsParser, Members, ParserInit
<1>4. q.result = "error" => r.state = "PARSE_HEADER"
  BY <1>2, <1>3
<1>5. q.result # "error" => r = q
  BY <1>2
<1> QED BY <1>1, <1>4, <1>5 DEF q, r

\* Only tokens change the parser.
LEMMA NoToken ==
  ASSUME NEW p, IsParser(p), NEW t \in TokenizerType, NEW key \in Keys \cup {NoKey},
         NEW text, t.token = "NEED_MORE_INPUT"
  PROVE  LET r == sm_parser_parse_ch(p, t, key, text)
         IN  r.state = p.state /\ r.value_idx = p.value_idx
<1>1. sm_parser_parse_token(Cleared(p), t, key, text) = Cleared(p)
  BY Zenon DEF sm_parser_parse_token
<1>2. Cleared(p).result # "error"
  BY ClearedFacts
<1>3. sm_parser_parse_ch(p, t, key, text) = Cleared(p)
  BY <1>1, <1>2, Outcome, Zenon
<1> QED BY <1>3, ClearedFacts

\* In PARSE_HEADER only a header counts.
LEMMA WithoutHeader ==
  ASSUME NEW p, IsParser(p), NEW t \in TokenizerType, NEW key \in Keys \cup {NoKey},
         NEW text, p.state = "PARSE_HEADER"
  PROVE  LET r == sm_parser_parse_ch(p, t, key, text)
         IN  /\ t.token = "FRAME_HEADER" => r.state = "PARSE_KEY"
             /\ t.token # "FRAME_HEADER" => r.state = "PARSE_HEADER"
<1> DEFINE c == Cleared(p)
           q == sm_parser_parse_token(c, t, key, text)
           r == sm_parser_parse_ch(p, t, key, text)
<1>1. IsParser(c) /\ c.state = "PARSE_HEADER" /\ c.result = "ok"
  BY ClearedFacts
<1>2. q.result # "error" => r = q
  BY Outcome
<1> HIDE DEF c, r
<1>3. CASE t.token = "FRAME_HEADER"
  <2>1. q = [handle_frame_start(c) EXCEPT !.state = "PARSE_KEY"]
    BY <1>1, <1>3 DEF sm_parser_parse_token
  <2>2. q.state = "PARSE_KEY" /\ q.result = "ok"
    <3> HIDE DEF q
    <3> QED BY <1>1, <2>1 DEF handle_frame_start, IsParser, Members, ParserInit
  <2> QED BY <1>2, <1>3, <2>2 DEF r
<1>4. CASE t.token # "FRAME_HEADER"
  <2>1. q = c
    BY <1>1, <1>4 DEF sm_parser_parse_token
  <2> QED BY <1>1, <1>2, <1>4, <2>1 DEF r
<1> QED BY <1>3, <1>4

\* A token that has no place here is an error.
LEMMA Unexpected ==
  ASSUME NEW p, IsParser(p), NEW t \in TokenizerType, NEW key \in Keys \cup {NoKey},
         NEW text, p.state # "PARSE_HEADER", t.token \in {"FRAME_HEADER", "ERROR"}
  PROVE  sm_parser_parse_ch(p, t, key, text).state = "PARSE_HEADER"
<1> DEFINE c == Cleared(p)
<1>1. IsParser(c) /\ c.state # "PARSE_HEADER"
  BY ClearedFacts
<1>2. sm_parser_parse_token(c, t, key, text) = Result(c, "error")
  BY <1>1 DEF sm_parser_parse_token
<1>3. Result(c, "error").result = "error"
  <2> HIDE DEF c
  <2> QED BY <1>1 DEF Result, IsParser, Members, ParserInit
<1> QED BY <1>2, <1>3, Outcome

\* A key that follows the header or a value waits for its values.
LEMMA KeyToken ==
  ASSUME NEW p, IsParser(p), NEW t \in TokenizerType, NEW key \in Keys \cup {NoKey},
         NEW text, p.state = "PARSE_KEY" \/ Waiting(p), t.token = "KEY"
  PROVE  sm_parser_parse_ch(p, t, key, text).state = "PARSE_VALUES"
<1> DEFINE c == Cleared(p)
           q == [c EXCEPT !.active_key = key, !.value_idx = 0, !.state = "PARSE_VALUES"]
<1>1. IsParser(c) /\ c.result = "ok"
      /\ (c.state = "PARSE_KEY" \/ (c.state = "PARSE_VALUES" /\ c.value_idx # 0))
  BY ClearedFacts DEF Waiting
<1> HIDE DEF c
<1>2. sm_parser_parse_token(c, t, key, text) = q
  BY <1>1 DEF sm_parser_parse_token
<1>3. q.result # "error" /\ q.state = "PARSE_VALUES"
  BY <1>1 DEF IsParser, Members, ParserInit
<1> HIDE DEF q
<1> QED BY <1>2, <1>3, Outcome DEF c

\* The footer ends the telegram and reports it if it had a value.
LEMMA FooterToken ==
  ASSUME NEW p, IsParser(p), NEW t \in TokenizerType, NEW key \in Keys \cup {NoKey},
         NEW text, t.token = "FRAME_FOOTER"
  PROVE  LET r == sm_parser_parse_ch(p, t, key, text)
         IN  r.state = "PARSE_HEADER" /\ (Waiting(p) => r.last_frame # NoFrame)
<1> DEFINE c == Cleared(p)
           q == sm_parser_parse_token(c, t, key, text)
           r == sm_parser_parse_ch(p, t, key, text)
<1>1. /\ IsParser(c) /\ c.result = "ok" /\ c.state = p.state /\ c.value_idx = p.value_idx
      /\ p.state \in {"PARSE_HEADER", "PARSE_KEY", "PARSE_VALUES"}
  BY ClearedFacts DEF IsParser
<1>2. /\ q.result = "error" => r.state = "PARSE_HEADER"
      /\ q.result # "error" => r = q
  BY Outcome
<1> HIDE DEF c, r
<1>3. CASE p.state = "PARSE_HEADER"
  BY <1>3, WithoutHeader DEF Waiting, r
<1>4. CASE p.state = "PARSE_KEY"
  <2>1. q = [c EXCEPT !.state = "PARSE_HEADER"]
    BY <1>1, <1>4 DEF sm_parser_parse_token
  <2> HIDE DEF q
  <2>2. q.state = "PARSE_HEADER" /\ q.result = "ok"
    BY <1>1, <2>1 DEF IsParser, Members, ParserInit
  <2> QED BY <1>2, <1>4, <2>2 DEF Waiting, r
<1>5. CASE p.state = "PARSE_VALUES" /\ p.value_idx = 0
  <2>1. q = Result(c, "error")
    BY <1>1, <1>5 DEF sm_parser_parse_token
  <2> HIDE DEF q
  <2>2. q.result = "error"
    BY <1>1, <2>1 DEF Result, IsParser, Members, ParserInit
  <2> QED BY <1>2, <1>5, <2>2 DEF Waiting, r
<1>6. CASE p.state = "PARSE_VALUES" /\ p.value_idx # 0
  <2> DEFINE h == [c EXCEPT !.state = "PARSE_HEADER"]
             u == IF h.is_lx_power_present THEN h ELSE [h EXCEPT !.power[1] = h.power[0]]
             f == [power_w |-> [i \in 0 .. 2 |-> u.power[i + 1]],
                   potential_mv |-> u.potential_mv, current_ma |-> u.current_ma,
                   import_wh |-> u.import_wh, export_wh |-> u.export_wh,
                   timestamp |-> u.timestamp]
  <2>1. q = handle_frame_end(h)
    BY <1>1, <1>6 DEF sm_parser_parse_token
  <2>2. IsParser(h) /\ h.state = "PARSE_HEADER" /\ h.result = "ok"
    BY <1>1 DEF IsParser, Members, ParserInit
  <2> HIDE DEF h, q
  <2>3. IsParser(u) /\ u.state = "PARSE_HEADER" /\ u.result = "ok"
    BY <2>2 DEF IsParser, Members, ParserInit
  <2>4. q = [u EXCEPT !.last_frame = f]
    BY <2>1 DEF handle_frame_end
  <2>5. f # NoFrame
    <3>1. "timestamp" \in DOMAIN f
      OBVIOUS
    <3>2. "timestamp" \notin DOMAIN NoFrame
      BY DEF NoFrame
    <3> QED BY <3>1, <3>2, Zenon
  <2> HIDE DEF u, f
  <2>6. q.state = "PARSE_HEADER" /\ q.result = "ok" /\ q.last_frame = f
    BY <2>3, <2>4 DEF IsParser, Members, ParserInit
  <2> QED BY <1>2, <2>5, <2>6 DEF r
<1> QED BY <1>1, <1>3, <1>4, <1>5, <1>6

\* Storing a value touches neither the state nor the result.
Kept(p, q) == q.state = p.state /\ q.value_idx = p.value_idx /\ q.result = p.result

LEMMA StoreKeeps ==
  ASSUME NEW p, IsParser(p), NEW phase, NEW text, NEW power
  PROVE  /\ Kept(p, [p EXCEPT !.potential_mv[phase] = parse_potential(text)])
         /\ Kept(p, [p EXCEPT !.current_ma[phase] = parse_current(text)])
         /\ Kept(p, AddPower(p, phase, power))
         /\ Kept(p, [p EXCEPT !.import_wh = @ + parse_energy(text)])
         /\ Kept(p, [p EXCEPT !.export_wh = @ + parse_energy(text)])
<1>1. Kept(p, [p EXCEPT !.potential_mv[phase] = parse_potential(text)])
  BY DEF Kept, IsParser, Members, ParserInit
<1>2. Kept(p, [p EXCEPT !.current_ma[phase] = parse_current(text)])
  BY DEF Kept, IsParser, Members, ParserInit
<1>3. Kept(p, AddPower(p, phase, power))
  BY DEF Kept, AddPower, IsParser, Members, ParserInit
<1>4. Kept(p, [p EXCEPT !.import_wh = @ + parse_energy(text)])
  BY DEF Kept, IsParser, Members, ParserInit
<1>5. Kept(p, [p EXCEPT !.export_wh = @ + parse_energy(text)])
  BY DEF Kept, IsParser, Members, ParserInit
<1> QED BY <1>1, <1>2, <1>3, <1>4, <1>5

AnyText == Texts \cup {NoText}

LEMMA TextDigits == \A text \in AnyText : text.digits \in Nat
<1>1. \A text \in TextType : text.digits \in Nat
  BY DEF TextType
<1>2. NoText.digits = 0
  BY DEF NoText
<1> QED BY <1>1, <1>2, LineAssumption DEF AnyText

\* The handlers take every value that a meter sends.
LEMMA ConformingValue ==
  ASSUME NEW p, IsParser(p), p.result = "ok", NEW text \in AnyText,
         Conforms(p.active_key, p.value_idx, text)
  PROVE  Kept(p, handle_value(p, text)) /\ p.value_idx < ValueIdxMod - 1
<1> DEFINE key == p.active_key
           units == Units(key.handler)
           decimals == Decimals(key.handler)
<1>1. /\ key \in Keys \cup {NoKey} /\ p.value_idx \in 0 .. ValueIdxMod - 1
      /\ ValueIdxMod \in Nat /\ ValueIdxMod >= 2
  BY ParserAssumption DEF IsParser
<1>2. CASE key = NoKey
  <2>1. key.handler = "none"
    BY <1>2 DEF NoKey
  <2>2. handle_value(p, text) = p
    BY <2>1 DEF handle_value
  <2>3. p.value_idx < ValueIdxMod - 1
    BY <1>2 DEF Conforms
  <2> QED BY <2>2, <2>3 DEF Kept
<1>3. CASE key # NoKey
  <2>1. /\ p.value_idx = 0 /\ text.unit \in units /\ text.digits <= decimals
        /\ key.handler = "timestamp" => text.pairs = 6
    BY <1>3 DEF Conforms
  <2>2. key.handler \in {"timestamp", "potential", "current", "power_import",
                         "power_export", "energy_import", "energy_export"}
    BY <1>1, <1>3, LineAssumption DEF Entries
  <2>3. text.digits \in Nat
    BY TextDigits
  <2>4. \A d \in Nat : \A us, stored :
          text.digits <= d /\ text.unit \in us => Checked(p, text, d, us, stored) = stored
    BY <2>1, <2>3 DEF Checked, Endless
  <2>5. p.value_idx < ValueIdxMod - 1
    BY <1>1, <2>1
  <2>6. Kept(p, handle_value(p, text))
    <3>1. CASE key.handler = "timestamp"
      <4>1. text.pairs = 6 /\ text.unit \in {"summer", "winter"}
        BY <2>1, <3>1 DEF Units
      <4> DEFINE date == CASE text.pairs < 2 -> p.timestamp.date
                           [] text.pairs = 6 -> text.whole
                           [] OTHER -> -1
                 v == [date |-> date, year |-> text.whole]
      <4>2. handle_timestamp(p, text) = Result([p EXCEPT !.timestamp = v], "ok")
        BY <4>1 DEF handle_timestamp
      <4> HIDE DEF v
      <4>3. Kept(p, Result([p EXCEPT !.timestamp = v], "ok"))
        BY DEF Result, Kept, IsParser, Members, ParserInit
      <4>4. handle_value(p, text) = handle_timestamp(p, text)
        BY <3>1 DEF handle_value
      <4> QED BY <4>2, <4>3, <4>4, Zenon
    <3>2. CASE key.handler = "potential"
      <4>1. text.unit \in {"V"} /\ text.digits <= 1
        BY <2>1, <3>2 DEF Units, Decimals
      <4>2. handle_value(p, text) = [p EXCEPT !.potential_mv[key.phase] = parse_potential(text)]
        BY <2>4, <3>2, <4>1 DEF handle_value, handle_potential
      <4>3. Kept(p, [p EXCEPT !.potential_mv[key.phase] = parse_potential(text)])
        BY StoreKeeps
      <4> QED BY <4>2, <4>3, Zenon
    <3>3. CASE key.handler = "current"
      <4>1. text.unit \in {"A"} /\ text.digits <= 0
        BY <2>1, <3>3 DEF Units, Decimals
      <4>2. handle_value(p, text) = [p EXCEPT !.current_ma[key.phase] = parse_current(text)]
        BY <2>4, <3>3, <4>1 DEF handle_value, handle_current
      <4>3. Kept(p, [p EXCEPT !.current_ma[key.phase] = parse_current(text)])
        BY StoreKeeps
      <4> QED BY <4>2, <4>3, Zenon
    <3>4. CASE key.handler \in {"power_import", "power_export"}
      <4>1. text.unit \in PowerUnits /\ text.digits <= 3
        BY <2>1, <3>4 DEF Units, Decimals, PowerUnits
      <4>2. \/ handle_value(p, text) = AddPower(p, key.phase, parse_power(text))
            \/ handle_value(p, text) = AddPower(p, key.phase, -parse_power(text))
        BY <2>4, <3>4, <4>1 DEF handle_value, handle_power_import, handle_power_export
      <4>3. /\ Kept(p, AddPower(p, key.phase, parse_power(text)))
            /\ Kept(p, AddPower(p, key.phase, -parse_power(text)))
        BY StoreKeeps
      <4> QED BY <4>2, <4>3, Zenon
    <3>5. CASE key.handler \in {"energy_import", "energy_export"}
      <4>1. text.unit \in EnergyUnits /\ text.digits <= 3
        BY <2>1, <3>5 DEF Units, Decimals, EnergyUnits
      <4>2. \/ handle_value(p, text) = [p EXCEPT !.import_wh = @ + parse_energy(text)]
            \/ handle_value(p, text) = [p EXCEPT !.export_wh = @ + parse_energy(text)]
        BY <2>4, <3>5, <4>1 DEF handle_value, handle_energy_import, handle_energy_export
      <4>3. /\ Kept(p, [p EXCEPT !.import_wh = @ + parse_energy(text)])
            /\ Kept(p, [p EXCEPT !.export_wh = @ + parse_energy(text)])
        BY StoreKeeps
      <4> QED BY <4>2, <4>3, Zenon
    <3> QED BY <2>2, <3>1, <3>2, <3>3, <3>4, <3>5
  <2> QED BY <2>5, <2>6
<1> QED BY <1>2, <1>3

\* After such a value the parser waits for more or for the footer.
LEMMA ValueToken ==
  ASSUME NEW p, IsParser(p), NEW t \in TokenizerType, NEW key \in Keys \cup {NoKey},
         NEW text \in AnyText, p.state = "PARSE_VALUES", t.token = "VALUE",
         Conforms(p.active_key, p.value_idx, text)
  PROVE  Waiting(sm_parser_parse_ch(p, t, key, text))
<1> DEFINE c == Cleared(p)
           h == handle_value(c, text)
           q == [h EXCEPT !.value_idx = (h.value_idx + 1) % ValueIdxMod]
<1>1. /\ IsParser(c) /\ c.result = "ok" /\ c.state = "PARSE_VALUES"
      /\ c.value_idx = p.value_idx /\ c.active_key = p.active_key
  BY ClearedFacts
<1> HIDE DEF c
<1>2. IsParser(h) /\ Kept(c, h) /\ c.value_idx < ValueIdxMod - 1
  BY <1>1, ValueParser, ConformingValue
<1> HIDE DEF h
<1>3. sm_parser_parse_token(c, t, key, text) = q
  BY <1>1 DEF sm_parser_parse_token, h
<1> DEFINE v == (h.value_idx + 1) % ValueIdxMod
<1>4. v # 0
  <2>1. /\ ValueIdxMod \in Nat /\ h.value_idx \in Nat /\ h.value_idx < ValueIdxMod - 1
    BY <1>2, ParserAssumption DEF IsParser, Kept
  <2>2. \A n \in Nat, m \in Nat : m + 1 < n => (m + 1) % n = m + 1
    BY SMT
  <2>3. v = h.value_idx + 1
    BY <2>1, <2>2
  <2> QED BY <2>1, <2>3
<1> HIDE DEF v
<1>5. q = [h EXCEPT !.value_idx = v]
  BY DEF v
<1> HIDE DEF q
<1>6. q.state = "PARSE_VALUES" /\ q.value_idx = v /\ q.result = "ok"
  BY <1>1, <1>2, <1>5 DEF Kept, IsParser, Members, ParserInit
<1>7. sm_parser_parse_ch(p, t, key, text) = q
  BY <1>3, <1>6, Outcome DEF c
<1> QED BY <1>4, <1>6, <1>7 DEF Waiting

----------------------------------------------------------------------------
(* Where the meter is, and where tokenizer and parser are then.            *)

\* From the "/" on, the tokenizer is where the meter is.
TokenizerAt ==
  /\ line = "id" => tokenizer.state = "PARSE_FRAME_HEADER"
  /\ line \in {"start", "more", "lines"} => tokenizer.state = "DEFAULT"
  /\ line = "key" => tokenizer.state = "PARSE_KEY"
  /\ line = "value" => tokenizer.state = "PARSE_VALUE"
  /\ line = "crc" => tokenizer.state \in {"PARSE_END_OF_FRAME", "PARSE_KEY"}
  /\ line = "gap" => tokenizer.state \in {"PARSE_END_OF_FRAME", "DEFAULT"}

\* The parser is reading the telegram that the meter is sending.
Reading ==
  \/ line = "start" /\ parser.state = "PARSE_KEY"
  \/ line = "key" /\ (parser.state = "PARSE_KEY" \/ Waiting(parser))
  \/ line = "value" /\ parser.state = "PARSE_VALUES"
  \/ line \in {"more", "lines"} /\ Waiting(parser)
  \/ line = "crc" /\ Waiting(parser) /\ tokenizer.state = "PARSE_END_OF_FRAME"

\* From the end of its header on, the telegram is either read or passed over.
ParserAt == line \in {"noise", "id"} \/ parser.state = "PARSE_HEADER" \/ Reading

\* Behind the first undisturbed telegram none is passed over.
CleanAt ==
  clean => \/ line \in {"gap", "id"} /\ parser.state = "PARSE_HEADER"
           \/ Reading
           \/ line = "crc" /\ reported

PositionInv ==
  LineInv /\ line \in Positions /\ TokenizerAt /\ ParserAt /\ CleanAt

\* What a character that arrives does.
Received(ch, next) ==
  /\ tokenizer' = sm_tokenizer_parse_ch(tokenizer, ch)
  /\ line' = next
  /\ reported' = (ch # "/" /\ (reported \/ parser'.last_frame # NoFrame))
  /\ clean' = (clean \/ (line = "crc" /\ next = "gap"))
  /\ \E key \in Keys \cup {NoKey}, text \in AnyText :
       /\ parser' = sm_parser_parse_ch(parser, tokenizer', key, text)
       /\ tokenizer'.token = "VALUE" /\ parser.state = "PARSE_VALUES" =>
            Conforms(parser.active_key, parser.value_idx, text)

LEMMA ArrivesFacts ==
  ASSUME LineInv, Arrives
  PROVE  \E send \in Sends[line] : Received(send[1], send[2])
<1>1. PICK send \in Sends[line] :
        \E key \in KeysOf(sm_tokenizer_parse_ch(tokenizer, send[1])),
           text \in TextsOf(sm_tokenizer_parse_ch(tokenizer, send[1])) :
          /\ sm_tokenizer_parse_ch(tokenizer, send[1]).token = "VALUE"
               /\ parser.state = "PARSE_VALUES" =>
                 Conforms(parser.active_key, parser.value_idx, text)
          /\ sm_parser_parse_str(send[1], key, text)
          /\ line' = send[2]
          /\ reported' = (send[1] # "/" /\ (reported \/ parser'.last_frame # NoFrame))
          /\ clean' = (clean \/ (line = "crc" /\ line' = "gap"))
  BY Zenon DEF Arrives
<1> DEFINE t == sm_tokenizer_parse_ch(tokenizer, send[1])
<1>2. PICK key \in KeysOf(t), text \in TextsOf(t) :
          /\ t.token = "VALUE" /\ parser.state = "PARSE_VALUES" =>
               Conforms(parser.active_key, parser.value_idx, text)
          /\ sm_parser_parse_str(send[1], key, text)
          /\ line' = send[2]
          /\ reported' = (send[1] # "/" /\ (reported \/ parser'.last_frame # NoFrame))
          /\ clean' = (clean \/ (line = "crc" /\ line' = "gap"))
  BY <1>1, Zenon
<1>3. key \in Keys \cup {NoKey}
  BY DEF KeysOf
<1>4. text \in AnyText
  <2> HIDE DEF t
  <2> QED BY DEF TextsOf, AnyText
<1>5. tokenizer' = t /\ parser' = sm_parser_parse_ch(parser, t, key, text)
  BY <1>2 DEF sm_parser_parse_str
<1> HIDE DEF t
<1>6. \E k \in Keys \cup {NoKey}, x \in AnyText :
       /\ parser' = sm_parser_parse_ch(parser, tokenizer', k, x)
       /\ tokenizer'.token = "VALUE" /\ parser.state = "PARSE_VALUES" =>
            Conforms(parser.active_key, parser.value_idx, x)
  BY <1>2, <1>3, <1>4, <1>5, Zenon
<1>7. clean' = (clean \/ (line = "crc" /\ send[2] = "gap"))
  BY <1>2, Zenon
<1>8. Received(send[1], send[2])
  BY <1>2, <1>5, <1>6, <1>7, Zenon DEF Received, t
<1> QED BY <1>8

\* The parser's step, for each token.
LEMMA ReceivedFacts ==
  ASSUME LineInv, NEW ch, NEW next, Received(ch, next)
  PROVE  /\ LineInv'
         /\ tokenizer'.token = "NEED_MORE_INPUT" =>
              parser'.state = parser.state /\ (Waiting(parser) => Waiting(parser'))
         /\ parser.state = "PARSE_HEADER" =>
              parser'.state = IF tokenizer'.token = "FRAME_HEADER" THEN "PARSE_KEY"
                              ELSE "PARSE_HEADER"
         /\ parser.state # "PARSE_HEADER" /\ tokenizer'.token = "FRAME_HEADER" =>
              parser'.state = "PARSE_HEADER"
         /\ tokenizer'.token = "KEY" /\ (parser.state = "PARSE_KEY" \/ Waiting(parser)) =>
              parser'.state = "PARSE_VALUES"
         /\ tokenizer'.token = "VALUE" /\ parser.state = "PARSE_VALUES" => Waiting(parser')
         /\ tokenizer'.token = "FRAME_FOOTER" =>
              /\ parser'.state = "PARSE_HEADER"
              /\ Waiting(parser) => parser'.last_frame # NoFrame
<1>1. PICK key \in Keys \cup {NoKey}, text \in AnyText :
       /\ parser' = sm_parser_parse_ch(parser, tokenizer', key, text)
       /\ tokenizer'.token = "VALUE" /\ parser.state = "PARSE_VALUES" =>
            Conforms(parser.active_key, parser.value_idx, text)
  BY DEF Received
<1>2. IsParser(parser) /\ tokenizer' \in TokenizerType
  BY TokenizerTypeKept DEF LineInv, Received
<1>3. LineInv'
  BY <1>1, <1>2, ParserKept DEF LineInv
<1>4. tokenizer'.token = "NEED_MORE_INPUT" =>
        parser'.state = parser.state /\ (Waiting(parser) => Waiting(parser'))
  BY <1>1, <1>2, NoToken DEF Waiting
<1>5. parser.state = "PARSE_HEADER" =>
        parser'.state = IF tokenizer'.token = "FRAME_HEADER" THEN "PARSE_KEY"
                        ELSE "PARSE_HEADER"
  BY <1>1, <1>2, WithoutHeader
<1>6. parser.state # "PARSE_HEADER" /\ tokenizer'.token = "FRAME_HEADER" =>
        parser'.state = "PARSE_HEADER"
  BY <1>1, <1>2, Unexpected
<1>7. tokenizer'.token = "KEY" /\ (parser.state = "PARSE_KEY" \/ Waiting(parser)) =>
        parser'.state = "PARSE_VALUES"
  BY <1>1, <1>2, KeyToken
<1>8. tokenizer'.token = "VALUE" /\ parser.state = "PARSE_VALUES" => Waiting(parser')
  BY <1>1, <1>2, ValueToken
<1>9. tokenizer'.token = "FRAME_FOOTER" =>
        /\ parser'.state = "PARSE_HEADER"
        /\ Waiting(parser) => parser'.last_frame # NoFrame
  BY <1>1, <1>2, FooterToken
<1> QED BY <1>3, <1>4, <1>5, <1>6, <1>7, <1>8, <1>9

LEMMA SendsAt ==
  /\ line = "noise" => Sends[line] = {<<"/", "id">>}
  /\ line = "gap" => Sends[line] = {<<Newline, "gap">>, <<"/", "id">>}
  /\ line = "id" => Sends[line] = {<<"other", "id">>, <<"\\", "id">>, <<Newline, "start">>}
  /\ line = "start" => Sends[line] = {<<Newline, "start">>, <<"digit", "key">>}
  /\ line = "key" => Sends[line] = {<<"other", "key">>, <<"(", "value">>}
  /\ line = "value" =>
       Sends[line] = {<<"digit", "value">>, <<"other", "value">>, <<")", "more">>}
  /\ line = "more" => Sends[line] = {<<"(", "value">>, <<Newline, "lines">>}
  /\ line = "lines" =>
       Sends[line] = {<<Newline, "lines">>, <<"digit", "key">>, <<"!", "crc">>}
  /\ line = "crc" =>
       Sends[line] = {<<"digit", "crc">>, <<"other", "crc">>, <<Newline, "gap">>}
BY Zenon DEF Sends, Positions

\* One character of a telegram further.
Advanced ==
  /\ line' \in Positions /\ TokenizerAt' /\ ParserAt' /\ CleanAt'
  /\ line = "crc" /\ line' = "gap" /\ clean => reported'

\* The tokenizer's part of it.
LEMMA Moved ==
  ASSUME NEW ch, NEW next, Received(ch, next), NEW state, NEW token,
         Gives(tokenizer, ch, state, token)
  PROVE  /\ tokenizer'.state = state /\ tokenizer'.token = token /\ line' = next
         /\ reported' <=> (ch # "/" /\ (reported \/ parser'.last_frame # NoFrame))
         /\ clean' <=> (clean \/ (line = "crc" /\ next = "gap"))
BY Zenon DEF Received, Gives

LEMMA FromGap ==
  ASSUME PositionInv, NEW send \in Sends[line], Received(send[1], send[2]),
         line \in {"noise", "gap"}
  PROVE  Advanced
<1>1. /\ LineInv /\ TokenizerAt /\ ParserAt /\ CleanAt /\ tokenizer \in TokenizerType
  BY DEF PositionInv, LineInv
<1>2. CASE send = <<"/", "id">>
  <2>1. Received("/", "id")
    BY <1>2
  <2>2. PICK token \in {"NEED_MORE_INPUT", "ERROR", "FRAME_FOOTER"} :
          Gives(tokenizer, "/", "PARSE_FRAME_HEADER", token)
    BY <1>1, SlashGives
  <2>3. /\ tokenizer'.state = "PARSE_FRAME_HEADER" /\ tokenizer'.token = token
        /\ line' = "id" /\ (clean' <=> clean)
    BY <2>1, <2>2, Moved
  <2>4. parser.state = "PARSE_HEADER" => parser'.state = "PARSE_HEADER"
    BY <1>1, <2>1, <2>3, ReceivedFacts
  <2>5. clean => parser.state = "PARSE_HEADER"
    BY <1>1 DEF CleanAt, Reading
  <2> QED
    BY <2>3, <2>4, <2>5 DEF Advanced, TokenizerAt, ParserAt, CleanAt, Positions
<1>3. CASE line = "gap" /\ send = <<Newline, "gap">>
  <2>1. Received(Newline, "gap")
    BY <1>3
  <2>2. tokenizer.state \in {"PARSE_END_OF_FRAME", "DEFAULT"} /\ parser.state = "PARSE_HEADER"
    BY <1>1, <1>3 DEF TokenizerAt, ParserAt, Reading
  <2>3. PICK token \in {"NEED_MORE_INPUT", "FRAME_FOOTER"} :
          Gives(tokenizer, Newline, tokenizer.state, token)
    BY <1>1, <2>2, NoStateGives, FooterGives
  <2>4. /\ tokenizer'.state = tokenizer.state /\ tokenizer'.token = token
        /\ line' = "gap" /\ (clean' <=> clean)
    BY <1>3, <2>1, <2>3, Moved
  <2>5. parser'.state = "PARSE_HEADER"
    BY <1>1, <2>1, <2>2, <2>4, ReceivedFacts
  <2> QED
    BY <1>3, <2>2, <2>4, <2>5 DEF Advanced, TokenizerAt, ParserAt, CleanAt, Positions
<1> QED BY <1>2, <1>3, SendsAt

LEMMA FromId ==
  ASSUME PositionInv, NEW send \in Sends[line], Received(send[1], send[2]),
         line = "id"
  PROVE  Advanced
<1>1. /\ LineInv /\ TokenizerAt /\ ParserAt /\ CleanAt /\ tokenizer \in TokenizerType
  BY DEF PositionInv, LineInv
<1>2. tokenizer.state = "PARSE_FRAME_HEADER"
  BY <1>1 DEF TokenizerAt
<1>3. CASE send \in {<<"other", "id">>, <<"\\", "id">>}
  <2>1. PICK ch \in {"other", "\\"} : Received(ch, "id")
    BY <1>3
  <2>2. Gives(tokenizer, ch, "PARSE_FRAME_HEADER", "NEED_MORE_INPUT")
    BY <1>1, <1>2, HeaderGives
  <2>3. /\ tokenizer'.state = "PARSE_FRAME_HEADER" /\ tokenizer'.token = "NEED_MORE_INPUT"
        /\ line' = "id" /\ (clean' <=> clean)
    BY <2>1, <2>2, Moved
  <2>4. /\ parser'.state = parser.state /\ (Waiting(parser) => Waiting(parser'))
    BY <1>1, <2>1, <2>3, ReceivedFacts
  <2> QED
    BY <1>1, <2>3, <2>4 DEF Advanced, TokenizerAt, ParserAt, CleanAt, Reading, Positions
<1>4. CASE send = <<Newline, "start">>
  <2>1. Received(Newline, "start")
    BY <1>4
  <2>2. Gives(tokenizer, Newline, "DEFAULT", "FRAME_HEADER")
    BY <1>1, <1>2, HeaderGives
  <2>3. /\ tokenizer'.state = "DEFAULT" /\ tokenizer'.token = "FRAME_HEADER"
        /\ line' = "start" /\ (clean' <=> clean)
    BY <2>1, <2>2, Moved
  <2>4. parser'.state = IF parser.state = "PARSE_HEADER" THEN "PARSE_KEY"
                        ELSE "PARSE_HEADER"
    BY <1>1, <2>1, <2>3, ReceivedFacts
  <2> QED
    BY <1>1, <2>3, <2>4 DEF Advanced, TokenizerAt, ParserAt, CleanAt, Reading, Positions
<1> QED BY <1>3, <1>4, SendsAt

LEMMA FromStart ==
  ASSUME PositionInv, NEW send \in Sends[line], Received(send[1], send[2]),
         line = "start"
  PROVE  Advanced
<1>1. /\ LineInv /\ TokenizerAt /\ ParserAt /\ CleanAt /\ tokenizer \in TokenizerType
  BY DEF PositionInv, LineInv
<1>2. tokenizer.state = "DEFAULT"
  BY <1>1 DEF TokenizerAt
<1>3. CASE send = <<Newline, "start">>
  <2>1. Received(Newline, "start")
    BY <1>3
  <2>2. Gives(tokenizer, Newline, "DEFAULT", "NEED_MORE_INPUT")
    BY <1>1, <1>2, NoStateGives
  <2>3. /\ tokenizer'.state = "DEFAULT" /\ tokenizer'.token = "NEED_MORE_INPUT"
        /\ line' = "start" /\ (clean' <=> clean)
    BY <2>1, <2>2, Moved
  <2>4. /\ parser'.state = parser.state /\ (Waiting(parser) => Waiting(parser'))
    BY <1>1, <2>1, <2>3, ReceivedFacts
  <2> QED
    BY <1>1, <2>3, <2>4 DEF Advanced, TokenizerAt, ParserAt, CleanAt, Reading, Positions
<1>4. CASE send = <<"digit", "key">>
  <2>1. Received("digit", "key")
    BY <1>4
  <2>2. Gives(tokenizer, "digit", "PARSE_KEY", "NEED_MORE_INPUT")
    BY <1>1, <1>2, NoStateGives
  <2>3. /\ tokenizer'.state = "PARSE_KEY" /\ tokenizer'.token = "NEED_MORE_INPUT"
        /\ line' = "key" /\ (clean' <=> clean)
    BY <2>1, <2>2, Moved
  <2>4. /\ parser'.state = parser.state /\ (Waiting(parser) => Waiting(parser'))
    BY <1>1, <2>1, <2>3, ReceivedFacts
  <2> QED
    BY <1>1, <2>3, <2>4 DEF Advanced, TokenizerAt, ParserAt, CleanAt, Reading, Positions
<1> QED BY <1>3, <1>4, SendsAt

LEMMA FromKey ==
  ASSUME PositionInv, NEW send \in Sends[line], Received(send[1], send[2]),
         line = "key"
  PROVE  Advanced
<1>1. /\ LineInv /\ TokenizerAt /\ ParserAt /\ CleanAt /\ tokenizer \in TokenizerType
  BY DEF PositionInv, LineInv
<1>2. tokenizer.state = "PARSE_KEY"
  BY <1>1 DEF TokenizerAt
<1>3. CASE send = <<"other", "key">>
  <2>1. Received("other", "key")
    BY <1>3
  <2>2. Gives(tokenizer, "other", "PARSE_KEY", "NEED_MORE_INPUT")
    BY <1>1, <1>2, KeyGives
  <2>3. /\ tokenizer'.state = "PARSE_KEY" /\ tokenizer'.token = "NEED_MORE_INPUT"
        /\ line' = "key" /\ (clean' <=> clean)
    BY <2>1, <2>2, Moved
  <2>4. /\ parser'.state = parser.state /\ (Waiting(parser) => Waiting(parser'))
    BY <1>1, <2>1, <2>3, ReceivedFacts
  <2> QED
    BY <1>1, <2>3, <2>4 DEF Advanced, TokenizerAt, ParserAt, CleanAt, Reading, Positions
<1>4. CASE send = <<"(", "value">>
  <2>1. Received("(", "value")
    BY <1>4
  <2>2. Gives(tokenizer, "(", "PARSE_VALUE", "KEY")
    BY <1>1, <1>2, KeyGives
  <2>3. /\ tokenizer'.state = "PARSE_VALUE" /\ tokenizer'.token = "KEY"
        /\ line' = "value" /\ (clean' <=> clean)
    BY <2>1, <2>2, Moved
  <2>4. /\ parser.state = "PARSE_HEADER" => parser'.state = "PARSE_HEADER"
        /\ parser.state = "PARSE_KEY" \/ Waiting(parser) => parser'.state = "PARSE_VALUES"
    BY <1>1, <2>1, <2>3, ReceivedFacts
  <2> QED
    BY <1>1, <2>3, <2>4 DEF Advanced, TokenizerAt, ParserAt, CleanAt, Reading, Positions
<1> QED BY <1>3, <1>4, SendsAt

LEMMA FromValue ==
  ASSUME PositionInv, NEW send \in Sends[line], Received(send[1], send[2]),
         line = "value"
  PROVE  Advanced
<1>1. /\ LineInv /\ TokenizerAt /\ ParserAt /\ CleanAt /\ tokenizer \in TokenizerType
  BY DEF PositionInv, LineInv
<1>2. tokenizer.state = "PARSE_VALUE"
  BY <1>1 DEF TokenizerAt
<1>3. CASE send \in {<<"digit", "value">>, <<"other", "value">>}
  <2>1. PICK ch \in {"digit", "other"} : Received(ch, "value")
    BY <1>3
  <2>2. Gives(tokenizer, ch, "PARSE_VALUE", "NEED_MORE_INPUT")
    BY <1>1, <1>2, ValueGives
  <2>3. /\ tokenizer'.state = "PARSE_VALUE" /\ tokenizer'.token = "NEED_MORE_INPUT"
        /\ line' = "value" /\ (clean' <=> clean)
    BY <2>1, <2>2, Moved
  <2>4. /\ parser'.state = parser.state /\ (Waiting(parser) => Waiting(parser'))
    BY <1>1, <2>1, <2>3, ReceivedFacts
  <2> QED
    BY <1>1, <2>3, <2>4 DEF Advanced, TokenizerAt, ParserAt, CleanAt, Reading, Positions
<1>4. CASE send = <<")", "more">>
  <2>1. Received(")", "more")
    BY <1>4
  <2>2. Gives(tokenizer, ")", "DEFAULT", "VALUE")
    BY <1>1, <1>2, ValueGives
  <2>3. /\ tokenizer'.state = "DEFAULT" /\ tokenizer'.token = "VALUE"
        /\ line' = "more" /\ (clean' <=> clean)
    BY <2>1, <2>2, Moved
  <2>4. /\ parser.state = "PARSE_HEADER" => parser'.state = "PARSE_HEADER"
        /\ parser.state = "PARSE_VALUES" => Waiting(parser')
    BY <1>1, <2>1, <2>3, ReceivedFacts
  <2> QED
    BY <1>1, <2>3, <2>4 DEF Advanced, TokenizerAt, ParserAt, CleanAt, Reading, Positions
<1> QED BY <1>3, <1>4, SendsAt

LEMMA FromMore ==
  ASSUME PositionInv, NEW send \in Sends[line], Received(send[1], send[2]),
         line = "more"
  PROVE  Advanced
<1>1. /\ LineInv /\ TokenizerAt /\ ParserAt /\ CleanAt /\ tokenizer \in TokenizerType
  BY DEF PositionInv, LineInv
<1>2. tokenizer.state = "DEFAULT"
  BY <1>1 DEF TokenizerAt
<1>3. CASE send = <<"(", "value">>
  <2>1. Received("(", "value")
    BY <1>3
  <2>2. Gives(tokenizer, "(", "PARSE_VALUE", "NEED_MORE_INPUT")
    BY <1>1, <1>2, NoStateGives
  <2>3. /\ tokenizer'.state = "PARSE_VALUE" /\ tokenizer'.token = "NEED_MORE_INPUT"
        /\ line' = "value" /\ (clean' <=> clean)
    BY <2>1, <2>2, Moved
  <2>4. /\ parser'.state = parser.state /\ (Waiting(parser) => Waiting(parser'))
    BY <1>1, <2>1, <2>3, ReceivedFacts
  <2> QED
    BY <1>1, <2>3, <2>4 DEF Advanced, TokenizerAt, ParserAt, CleanAt, Reading, Positions, Waiting
<1>4. CASE send = <<Newline, "lines">>
  <2>1. Received(Newline, "lines")
    BY <1>4
  <2>2. Gives(tokenizer, Newline, "DEFAULT", "NEED_MORE_INPUT")
    BY <1>1, <1>2, NoStateGives
  <2>3. /\ tokenizer'.state = "DEFAULT" /\ tokenizer'.token = "NEED_MORE_INPUT"
        /\ line' = "lines" /\ (clean' <=> clean)
    BY <2>1, <2>2, Moved
  <2>4. /\ parser'.state = parser.state /\ (Waiting(parser) => Waiting(parser'))
    BY <1>1, <2>1, <2>3, ReceivedFacts
  <2> QED
    BY <1>1, <2>3, <2>4 DEF Advanced, TokenizerAt, ParserAt, CleanAt, Reading, Positions, Waiting
<1> QED BY <1>3, <1>4, SendsAt

LEMMA FromLines ==
  ASSUME PositionInv, NEW send \in Sends[line], Received(send[1], send[2]),
         line = "lines"
  PROVE  Advanced
<1>1. /\ LineInv /\ TokenizerAt /\ ParserAt /\ CleanAt /\ tokenizer \in TokenizerType
  BY DEF PositionInv, LineInv
<1>2. tokenizer.state = "DEFAULT"
  BY <1>1 DEF TokenizerAt
<1>3. CASE send = <<Newline, "lines">>
  <2>1. Received(Newline, "lines")
    BY <1>3
  <2>2. Gives(tokenizer, Newline, "DEFAULT", "NEED_MORE_INPUT")
    BY <1>1, <1>2, NoStateGives
  <2>3. /\ tokenizer'.state = "DEFAULT" /\ tokenizer'.token = "NEED_MORE_INPUT"
        /\ line' = "lines" /\ (clean' <=> clean)
    BY <2>1, <2>2, Moved
  <2>4. /\ parser'.state = parser.state /\ (Waiting(parser) => Waiting(parser'))
    BY <1>1, <2>1, <2>3, ReceivedFacts
  <2> QED
    BY <1>1, <2>3, <2>4 DEF Advanced, TokenizerAt, ParserAt, CleanAt, Reading, Positions
<1>4. CASE send = <<"digit", "key">>
  <2>1. Received("digit", "key")
    BY <1>4
  <2>2. Gives(tokenizer, "digit", "PARSE_KEY", "NEED_MORE_INPUT")
    BY <1>1, <1>2, NoStateGives
  <2>3. /\ tokenizer'.state = "PARSE_KEY" /\ tokenizer'.token = "NEED_MORE_INPUT"
        /\ line' = "key" /\ (clean' <=> clean)
    BY <2>1, <2>2, Moved
  <2>4. /\ parser'.state = parser.state /\ (Waiting(parser) => Waiting(parser'))
    BY <1>1, <2>1, <2>3, ReceivedFacts
  <2> QED
    BY <1>1, <2>3, <2>4 DEF Advanced, TokenizerAt, ParserAt, CleanAt, Reading, Positions
<1>5. CASE send = <<"!", "crc">>
  <2>1. Received("!", "crc")
    BY <1>5
  <2>2. Gives(tokenizer, "!", "PARSE_END_OF_FRAME", "NEED_MORE_INPUT")
    BY <1>1, <1>2, NoStateGives
  <2>3. /\ tokenizer'.state = "PARSE_END_OF_FRAME" /\ tokenizer'.token = "NEED_MORE_INPUT"
        /\ line' = "crc" /\ (clean' <=> clean)
    BY <2>1, <2>2, Moved
  <2>4. /\ parser'.state = parser.state /\ (Waiting(parser) => Waiting(parser'))
    BY <1>1, <2>1, <2>3, ReceivedFacts
  <2> QED
    BY <1>1, <2>3, <2>4 DEF Advanced, TokenizerAt, ParserAt, CleanAt, Reading, Positions
<1> QED BY <1>3, <1>4, <1>5, SendsAt

\* The footer is reported by the character behind it at the latest, and only then
\* does the parser stop reading.
LEMMA FromCrc ==
  ASSUME PositionInv, NEW send \in Sends[line], Received(send[1], send[2]),
         line = "crc"
  PROVE  Advanced
<1>1. /\ LineInv /\ TokenizerAt /\ ParserAt /\ CleanAt /\ tokenizer \in TokenizerType
  BY DEF PositionInv, LineInv
<1>2. PICK ch \in {"digit", "other", Newline} :
        Received(ch, send[2]) /\ send[2] = (IF ch = Newline THEN "gap" ELSE "crc")
  BY SendsAt DEF Newline
<1>3. /\ line' = (IF ch = Newline THEN "gap" ELSE "crc")
      /\ reported' <=> (reported \/ parser'.last_frame # NoFrame)
      /\ clean' <=> (clean \/ ch = Newline)
      /\ tokenizer' = sm_tokenizer_parse_ch(tokenizer, ch)
  BY <1>2 DEF Received, Newline
<1>4. /\ \/ parser.state = "PARSE_HEADER"
         \/ Waiting(parser) /\ tokenizer.state = "PARSE_END_OF_FRAME"
      /\ clean => reported \/ (Waiting(parser) /\ tokenizer.state = "PARSE_END_OF_FRAME")
  BY <1>1 DEF ParserAt, CleanAt, Reading
<1>5. CASE tokenizer.state = "PARSE_KEY"
  <2>1. /\ tokenizer'.token \in {"NEED_MORE_INPUT", "KEY"}
        /\ tokenizer'.state = (IF ch = Newline THEN "DEFAULT" ELSE "PARSE_KEY")
    BY <1>1, <1>3, <1>5, KeyGives DEF Gives, Newline
  <2>2. parser'.state = "PARSE_HEADER"
    BY <1>1, <1>2, <1>4, <1>5, <2>1, ReceivedFacts
  <2>3. clean => reported'
    BY <1>3, <1>4, <1>5
  <2> QED
    BY <1>3, <2>1, <2>2, <2>3 DEF Advanced, TokenizerAt, ParserAt, CleanAt, Positions
<1>6. CASE tokenizer.state = "PARSE_END_OF_FRAME" /\ tokenizer'.token = "FRAME_FOOTER"
  <2>1. /\ ch # Newline => tokenizer'.state \in {"PARSE_KEY", "PARSE_END_OF_FRAME"}
        /\ ch = Newline => tokenizer'.state = "PARSE_END_OF_FRAME"
    BY <1>1, <1>3, <1>6, FooterGives DEF Gives
  <2>2. parser'.state = "PARSE_HEADER" /\ (Waiting(parser) => parser'.last_frame # NoFrame)
    BY <1>1, <1>2, <1>6, ReceivedFacts
  <2>3. clean => reported'
    BY <1>3, <1>4, <2>2
  <2> QED
    BY <1>3, <2>1, <2>2, <2>3 DEF Advanced, TokenizerAt, ParserAt, CleanAt, Positions
<1>7. CASE tokenizer.state = "PARSE_END_OF_FRAME" /\ tokenizer'.token # "FRAME_FOOTER"
  <2>1. /\ ch # Newline /\ tokenizer'.state = "PARSE_END_OF_FRAME"
        /\ tokenizer'.token = "NEED_MORE_INPUT"
    BY <1>1, <1>2, <1>3, <1>7, FooterGives DEF Gives
  <2>2. parser'.state = parser.state /\ (Waiting(parser) => Waiting(parser'))
    BY <1>1, <1>2, <2>1, ReceivedFacts
  <2> QED
    BY <1>3, <1>4, <2>1, <2>2 DEF Advanced, TokenizerAt, ParserAt, CleanAt, Reading, Positions
<1>8. tokenizer.state \in {"PARSE_END_OF_FRAME", "PARSE_KEY"}
  BY <1>1 DEF TokenizerAt
<1> QED BY <1>5, <1>6, <1>7, <1>8

LEMMA ArrivesStep ==
  ASSUME PositionInv, Arrives
  PROVE  PositionInv' /\ Advanced
<1>1. LineInv /\ line \in Positions
  BY DEF PositionInv
<1>2. PICK send \in Sends[line] : Received(send[1], send[2])
  BY <1>1, ArrivesFacts
<1>3. Advanced
  BY <1>1, <1>2, FromGap, FromId, FromStart, FromKey, FromValue, FromMore, FromLines, FromCrc
     DEF Positions
<1>4. LineInv'
  BY <1>1, <1>2, ReceivedFacts
<1> QED BY <1>3, <1>4 DEF PositionInv, Advanced

\* Noise says nothing about the place in a telegram.
LEMMA NoiseStep ==
  ASSUME PositionInv, Noise
  PROVE  PositionInv' /\ Advanced
<1>1. line' = "noise" /\ clean' = FALSE
  BY DEF Noise
<1>2. LineInv'
  BY NextLine DEF PositionInv, Next
<1>3. line' \in Positions /\ TokenizerAt' /\ ParserAt' /\ CleanAt'
  BY <1>1 DEF Positions, TokenizerAt, ParserAt, CleanAt
<1> QED BY <1>1, <1>2, <1>3 DEF PositionInv, Advanced

LEMMA PositionStep == PositionInv /\ [Next]_vars => PositionInv' /\ [Advanced]_vars
<1> SUFFICES ASSUME PositionInv, [Next]_vars PROVE PositionInv' /\ [Advanced]_vars
  OBVIOUS
<1>1. CASE Arrives
  BY <1>1, ArrivesStep
<1>2. CASE Noise
  BY <1>2, NoiseStep
<1>3. CASE UNCHANGED vars
  BY <1>3 DEF vars, PositionInv, LineInv, TokenizerAt, ParserAt, CleanAt, Reading
<1> QED BY <1>1, <1>2, <1>3 DEF Next, Spins

LEMMA PositionInit == Init => PositionInv
<1> SUFFICES ASSUME Init PROVE PositionInv
  OBVIOUS
<1>1. line = "noise" /\ clean = FALSE
  BY DEF Init
<1>2. TokenizerAt /\ ParserAt /\ CleanAt /\ line \in Positions
  BY <1>1 DEF Positions, TokenizerAt, ParserAt, CleanAt
<1> QED BY <1>2, InitLine DEF PositionInv

\* For every buffer, counter, set of keys and set of values, and from whatever
\* state noise has left tokenizer and parser in, at most one undisturbed telegram
\* is lost: sm_parser_parse_ch reports each later one before the next begins.
THEOREM ParserRecovers == Spec => LosesAtMostOne
<1>1. Advanced => (line = "crc" /\ line' = "gap" /\ clean => reported')
  BY DEF Advanced
<1>2. PositionInv /\ [Next]_vars =>
        PositionInv' /\ [line = "crc" /\ line' = "gap" /\ clean => reported']_vars
  BY <1>1, PositionStep
<1> QED BY <1>2, PositionInit, PTL DEF Spec, LosesAtMostOne
=============================================================================
