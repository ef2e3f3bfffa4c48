# TLA+ models of the smart meter reader

The firmware (ESP32, Arduino) reads a DSMR smart meter over a UART, reads the
meter of an EV charger over Modbus/TCP, and writes to the charger the current
the house's fuse has left. Everything runs in one thread: `loop()` in
`smartmeterreader.ino` calls the `loop()` of every component in turn and then
`delay(5)`. Nothing blocks; each component is a state machine driven by
`millis()`, and components talk by calls and callbacks. What is hard is the
order of things: partial transfers, replies that are late, lost or doubled,
timeouts that race them, telegrams that stop, a 32-bit clock that wraps, and
caches that must agree with what was sent.

## Inventory

| Component | State | Operations | Talks to | What makes it correct |
|---|---|---|---|---|
| `ModbusTcpClient` | connection state, entry time, socket, active request, frame id, buffer indices | `send_request`, `loop` | lwip; callback to its user | one callback per accepted request; only the request's own reply counts; no access outside the buffer; no leaked socket; bounded waiting; reconnects |
| `ChargeController` | cycle state, last telegram and its time, charger measurement, cached limit and register word, connected flag | `loop`, `on_smart_meter_frame`, request callback | client; connected callback to the HMI; frame callback to the network | the limit leaves the house its share; a silent smart meter stops charging; the register word is the limit; every cycle ends; outages are reported |
| `SmartMeter` | connected flag, time of the last telegram, parser | `loop` | UART, parser; callbacks to the application | connected exactly while telegrams arrive |
| `sm_parser` | tokenizer state, parser state, values collected so far | `parse_ch`, `parse_str`, `reset` | callback to `SmartMeter` | a reported telegram is one telegram; recovery after garbage; no overrun of the token buffer |
| `sm_common` | none | timestamp conversions | parser, JSON | agrees with the calendar |
| `ConnectionManager` | WiFi state, connected flag | `loop`, `broadcast` | WiFi; callback to the application | reconnects; flag agrees with the reports |
| `Hmi` | active errors, pattern state, blinks left | `loop`, `set_error` | LED | every active error is shown in the end |
| `NetworkLog` | line buffer, start time | `write`, `loop` | callback to the network | bytes leave in order, in bounded time |
| `util`, `Config.h`, `utils/` | none | formatting, constants, listeners on a PC | - | - |

The hazards, each at its line with the properties that would catch it, are in
`PROJECT.json`.

## Modules

| Module | Models |
|---|---|
| `Millis` | `millis()` and unsigned time differences, modulo `ClockMod` (2^32) |
| `RequestService` | what `ModbusTcpClient` promises its user: the abstract specification |
| `ModbusTcpClient` | `ModbusTcpClient.cpp`, with lwip and the server as environment |
| `ChargeController` | `ChargeController.cpp`, with any client |
| `ChargerSystem` | one pass of the main loop: telegram, client (by `RequestService`), controller, delay; and the charger |
| `Hmi` | `Hmi.cpp`, with errors set and cleared at any time |
| `ConnectionManager` | `ConnectionManager.cpp`, with the WiFi driver's task as environment |
| `SmartMeter` | `SmartMeter.cpp` without its parser |
| `SmParser` | `sm_parser.c`: the operators of the tokenizer and the parser |
| `MeterLine` | the serial line: a meter that sends telegrams, a line that disturbs them, and the parser behind it |
| `NetworkLog` | `NetworkLog.cpp` and the datagram `emit_log_frame` makes of its buffer |
| `SmDatetime` | the date conversions of `sm_common.c`, against the calendar |
| `FirmwareApp` | the callbacks of `smartmeterreader.ino`: WiFi, smart meter and charger reports, the LED's errors, the log's output |
| `ModbusTcpClientProofs`, `ChargeControllerProofs`, `ChargerSystemProofs`, `HmiProofs`, `NetworkLogProofs`, `FirmwareAppProofs`, `MeterLineProofs`, `SmDatetimeProofs` | the theorems about the module each is named after |
| `MC*` | instances for TLC |

`ChargerSystem` uses the contract, not the client; that the client implements
the contract is checked (`ImplementsService`) and, for safety, proved
(`Refinement`).

### ModbusTcpClient

`client` is a record of the member variables. Each private method is an operator
from the object before the call to the object after it, so that nested calls
(`process_response` calling `complete_request`, `set_state` calling `tcp_close`
and `complete_request`) compose as in the code; each branch of `loop()` is an
action. `calls` lists the callbacks the last operation made. A transfer moves
any number of the bytes asked for, would block, or fails. The buffer is
represented by its indices and by the reply it holds: id, `pdu_size`, and the
unit, function and payload-size bytes behind the header. A reply too short for
one of those leaves what `serialize_request` had put there (`RxUnit`,
`RxFunction`, `RxPayloadSize`). `read_data` may take the header and the body of
a reply in pieces, but not more than `_frame_size` asks for, as in the code.

The server answers the last request it has received on the connection, any
number of times and at any time, with any member of `Reply` and with that
request's id. Closing the socket drops what is in flight. `fresh` (in a reply)
and `current` (in `srv`) are ghosts that say whether the reply was sent for the
request that is now active; `waited` is a ghost clock.

`send_request` is an action when it is accepted; `send_result` is what it
returns in each state. The model lets a user call it at any moment between two
calls of `loop()`, but not from inside the callback: the only user,
`ChargeController`, does not.

`_frame_id` and `millis()` wrap. `Tick` needs `loop()` to have run since the
last tick: a unit of time is at least one pass of the main loop.

### ChargeController

`cc` is a record of the member variables. Of a measurement only the currents
are kept. Register words are converted both ways (`swap_b16`); `OnTheWire` is
what the client copies to the buffer for given register contents. `loop(rc)`
takes the result of the `send_request` it may make. `_limit_ma` is -1 until the
first limit, `_modbus_rc` is `MODBUS_OK` (static storage), and at `begin()` the
last telegram counts as `SmTimeout` old.

### ChargerSystem

`turn` is the position in the pass. A telegram arrives in the meter's turn, the
client connects, completes or waits in its turn, the controller runs in its
own. `delay(5)` lets one unit of time pass or less than that. The charger takes
the request off the wire at any time, also after the client has given up on it;
it may refuse a limit. The client gives up a connection with a plain
`close(fd)`, after which lwip goes on retransmitting: a limit that is still in
flight when the client reconnects is lost or becomes `late`, and a late limit
reaches the charger at any later time, in any order and behind any number of
newer ones (`ChargerHandlesLate`). `overtaken` is a ghost that says that the
limit in force came that way. Environment assumption: a request that ends with
the connection still up has been handled by the charger, since its reply was
read.

### Hmi, ConnectionManager, SmartMeter, FirmwareApp

`Hmi` keeps the error bits as a set, the pattern state machine as a record and
the LED as a field of it; `select_error_to_show` is the least number of steps
round the table that reaches an active error. `flashes` is a ghost that counts
the blinks of the present pattern.

`ConnectionManager` is driven by a WiFi driver with a task of its own: the link
comes up after `WiFi.begin` or not, drops at any time, and `disconnectAsync`
takes effect later, possibly after the next `WiFi.begin`, which it may undo. The
two reads of the link in one call of `loop()` may differ (`LinkLater`). After
`disconnectAsync(true, true)` the driver does not come back by itself. The
statuses other than `WL_CONNECTED` are not told apart.

`SmartMeter` takes what a poll yields (a read error, nothing, a telegram) as its
input. `FirmwareApp` starts at time 0, starts the network late, and runs
network, meter and charger in the order of the main loop; a component's callback
runs inside its turn. The LED's state machine only reads the errors and is
checked on its own in `Hmi`; the charger's flag takes any value in its turn.

### SmParser, MeterLine

Every C function of tokenizer and parser is an operator from the object before
the call to the object after it. A character is its class: each character the
code tests for, digits, and the rest. A token's text is its length, which is
what the token buffer limits, and what it means: a key is a row of the table or
none, a value is a number with its decimals, its unit and the count of leading
pairs of digits (for a timestamp). The unit tests of the code are kept as they
are: `strstr` finds `*W` in `*Wh`, each handler takes so many decimals, the
fields of a timestamp are stored one by one. `value_idx` wraps as a `uint8_t`.
A call that does not return has the result `"hang"`.

In `MeterLine` a character either arrives as the meter's grammar (`Sends`,
`Conforms`) has it, or it is noise: any character at all. Since a telegram may
break off anywhere, noise covers loss, change and insertion. A carriage return
and a line feed are both `Newline`: one or more of them end the header, a line
and the telegram. The ghost
`telegram` collects the values of known keys between a `/` and the next `!` and is
given up when the parser reports a frame or an error. `Says` states what the
frame of such a telegram is as a whole: sums over its lines, the last of the
values that overwrite each other, the total power when no phase was given. The
code does not verify the checksum; a value changed on the line into another
legal value is reported as such, and no property says otherwise.

### NetworkLog

`write(buffer, size)` is the call and one step for each iteration of its loop.
`emit_log_frame` passes the buffer on as a C string and ignores the length, so
the datagram is what stands before the first zero: what was written, and then
what longer datagrams have left behind it. Once the buffer has been full it has
no zero, and the string goes on into the next member, `_w_idx`: `Memory` is the
buffer with the bytes of that index behind it, least significant first, and
`ByteMod` is the number of values of a byte. The index never needs its third
byte, so the string ends there at the latest. `unsent` and `waited` are ghosts.

### SmDatetime

The two loops that search for the year and the month are steps, the rest is
operators; a behaviour is one conversion. `dt->year` is narrowed to 16 bits and
month and day to 8, as the struct has them. Nothing in the firmware calls these
functions; they are part of the parser's library.

## Runs

| Run | Instance | Shows |
|---|---|---|
| `client` | four requests (read, write, one without a function code, one too large for the buffer), six kinds of reply, two replies in the socket, timeouts of 1, clock modulo 3, two ids, a 16-byte buffer, fairness | `TypeOK`, `PendingWhileBusy`, `BufferBounds`, `OneSocket`, `RequestDeadline`, `AcceptedReplyIsFresh`, `KeepsReconnecting`, `ImplementsService` |
| `exception_reply` | as `client`, with an exception among the replies | violated: an exception reply succeeds |
| `controller` | three phases, any client | `ControllerTypeOK`, `LimitEncoded`, `LimitSharesFuse` |
| `system` | one phase, limits of 3 A and 0 A, one late limit, clock modulo 4, fairness | `PendingIsAwaited`, `NeverBusy`, `StaleMeterStopsCharging`, `ConnectedMeansApplied`, `CycleEnds`, `OutageReported`, `OvertakenLimitRepaired` |
| `hmi` | the three errors with 1, 2 and 3 blinks, delays of 1 to 3, clock modulo 5, fairness | `HmiTypeOK`, `PatternCounts`, `EveryErrorShown`, `EndsDark` |
| `app` | timeouts of 2 and 3, clock modulo 5, fairness | `StatusAgrees`, `MeterFlagExact`, `KeepsTrying`, `WifiRecovers`, `WifiLossReported` |
| `parser` | a key for each handler, seven values, two values of known keys in a telegram and any number of others, a buffer of 4, `value_idx` modulo 3 | `ParserTypeOK`, `FrameIsTelegram`, `LosesAtMostOne` |
| `parser_hang` | as `parser` | violated: `parse_flt` does not return |
| `netlog` | a buffer of 4, bytes modulo 2, texts of up to 5 of two characters, an interval of 2, clock modulo 5 | `LogTypeOK`, `LogInOrder`, `FlushInTime` |
| `stale_log` | as `netlog` | violated: old text and the index follow the new text in a datagram |
| `calendar` | every day of 1999 to 2101 | `RoundTrip`, `CommonDateIsCalendar`, `ConversionEnds` |
| `leap_year` | as `calendar` | violated: 29 February is converted to 1 March |

**Bounds.** Two ids are the hardest case for the id check: every second request
reuses an id. Two replies in the socket are an old one in front of a new one.
The buffer holds the requests that are legal, the smallest
reply that it does not hold exists, and `MaxPayload` is chosen, as 255
against 272, such that the largest payload byte still fits behind the header.
Timeouts of one unit let a phase end on time, just before and just after it. The
clock wraps every few units, so every comparison meets the wrap. Currents are in
units of which two make an ampere, so that division truncates; for the
controller mains currents reach from nothing to an overload and charger currents
from none over one phase to all. For the system two limits suffice, the fuse's
while telegrams arrive and 0 in a silence, since what counts there is which one
is in force; one late limit (`MaxLate`) can overtake as many newer ones as there
are. A token buffer of 4 is the least in which a checksum is complete, and is
overrun by tokens of five characters; two values in a telegram are any two of
the keys, so that values meet others of their own key, of the other direction
and of another phase. Values of keys the parser does not know are not counted by
`MaxLines`, so that on a disturbed line `value_idx` does wrap, at its third
value. The log's texts are longer than its buffer, and a full buffer makes the
low byte of `_w_idx` zero, as 4096 does, while shorter texts make it zero or
not. The years contain a century that is a leap year and one that is not.

**Fairness.** `loop()` of the client runs again and again and time passes,
because the main loop never blocks and `millis()` counts. In `ChargerSystem`
every turn is taken, time passes again and again although single passes may be
shorter than a unit, and the client answers every request it has accepted:
strong fairness on completion stands for `ImplementsService`, since completion
is possible only in the client's turn. In `FirmwareApp` the driver is also
assumed to carry out `disconnectAsync` in the end. No fairness is assumed of the network,
the server, the access point, the smart meter or the charger. A date conversion
runs on, being a loop in a function.

**Finding: exception replies.** `process_response` masks the function code with
`0x7F` and then tests the masked value for `0x80`. The branch for exceptions is
dead: a write the charger refuses is reported as `MODBUS_EXCEPTION_NONE`. This
is why `ConnectedMeansApplied` has to except a refusal.

**Late limits.** A limit of a closed connection may arrive behind a newer one, and
nothing in the code can prevent it. `ConnectedMeansApplied` therefore excepts
the time in which such a limit is in force, and `OvertakenLimitRepaired` says that
it passes: the controller writes the limit in every cycle, also when it is the
cached one. Without the exception the run finds the old limit in force.

**Finding: endless loop.** In `parse_flt` the loop over the digits behind the
point means to skip those it has no use for, but its `continue` does not advance
the pointer. A current with any decimal, a potential with two, a power or an
energy with four never returns, and with it the whole firmware. The meter's
grammar in `MeterLine` therefore sends as many decimals as the handlers take;
the values with more of them come as noise, and the run `parser` ends there.

**Stale timestamps.** A telegram without a timestamp is reported with the time of
an earlier one, since `handle_frame_start` leaves it: `FrameIsTelegram` speaks of
the time only where the telegram has one.

**Finding: leap years.** `is_leap_year` takes each remainder of the one before and
not of the year, so it answers `false` for every year, although one of its lines
returns `true` and `month2days` has a case for it. `DateIsCalendar` is violated
on 29 February 2000, which becomes 1 March; the last day of a leap year becomes
the first of a thirteenth month. `CommonDateIsCalendar` says what is right
nevertheless, and `RoundTrip` holds on all days.

**Finding: old text in the log.** `emit_log_frame` gets the length of the text and
does not use it, and nothing terminates the text in the buffer. `DatagramIsText`
is violated by any text shorter than one sent or dropped before it, and after a
full buffer the string is read past its end. What holds is `LogInOrder`: the new
text comes first and complete.

**Clock wrap.** `StaleMeterStopsCharging` holds for silences shorter than one
round of `millis()` (49.7 days). After that the unsigned age of the last
telegram starts again at 0 and for `s_poll_interval_ms` the telegram counts as
recent.

**What the limit means.** `LimitSharesFuse` is about the measurements the
controller has when it writes. They may be a poll interval apart, and phases
the charger does not draw from are left out as soon as it draws from one; that
the house stays below its fuse does not follow.

## Proofs

`ModbusTcpClientProofs` proves, for all requests, replies, buffer sizes, ids,
timeouts and clocks that the assumptions in `Millis` and `ModbusTcpClient`
allow:

- `TypeCorrect`, `Pending`, `Bounds`, `Sockets`: the invariants `TypeOK`,
  `PendingWhileBusy`, `BufferBounds`, `OneSocket`;
- `Deadlines`: `RequestDeadline`;
- `Freshness`: `AcceptedReplyIsFresh`;
- `Refinement`: `Spec => Service!Spec`, the safety part of `ImplementsService`.

The assumptions that matter: the buffer holds the header, three bytes and the
largest payload (272 >= 6 + 3 + 255); a read's register number leaves in the
buffer a byte no larger than that payload; descriptors are positive; a timeout
fits the clock with a unit to spare.

The argument: one lemma per method says what the object is after the call
(`CompleteFacts` to `ProcessHeaderFacts`). The inductive invariant `ClientInv`
adds to the four invariants that the header state reads exactly the header and
is left with its last byte (without it `process_header` could start from a frame
of any size) and that a connecting socket is open or -1 (without it the
connected states could have no socket). One lemma per branch of `loop()`
shows that it preserves `ClientInv` and what the user sees of it (`QuietOutcome`,
`BusyOutcome`); the refinement needs nothing else. For the deadline, `TimeInv`
bounds the waiting time by the phases that are over plus the time in the
present one, and needs that after each call of `loop()` the present phase is
within its timeout.

For the freshness of replies, `FreshInv` says that in the socket a reply is fresh
exactly if it carries the present id and that no stale reply is behind a fresh
one (`InOrder`); once the id has matched, and whenever no request is pending,
nothing stale is left (`AllFresh`). The second half is why two ids are enough:
before `send_request` takes the next id every reply in the socket has the present
one.

`ChargeControllerProofs` proves `ControllerTypeOK`, `LimitEncoded` and the action
property `LimitSharesFuse` (`ControllerTypeCorrect`, `LimitIsEncoded`,
`FuseIsShared`) for every finite set of phases, every fuse whose amperes fit a
register, all currents and any client. `ControllerInv` is the types and
`LimitEncoded`; it needs that `swap_b16` is its own inverse on 16-bit words
(`SwapFacts`), since the buffer is left alone when the limit is the cached one.
`LimitFacts` is the arithmetic: the minimum over the considered phases
(`MinFacts`) of what the fuse leaves, cut off at 0 and at the fuse. Each
state's part of `loop()` has a lemma; `LimitSharesFuse` needs of them that a
limit is sent only in the call that has computed it.

`ChargerSystemProofs` proves `PendingIsAwaited`, `NeverBusy`,
`StaleMeterStopsCharging` and `ConnectedMeansApplied` (`CallbackIsExpected`,
`ClientIsFree`, `SilenceStopsCharging`, `ConnectedIsApplied`) from the same
assumptions, with the client replaced by its contract. None of the four is
inductive. `WireInv` says that the wire has the pending request, with the
buffer as it still is, or nothing; `AppliedInv` follows a limit from the
charger over the callback to the report that the charger is connected; `AgeInv`
says that the unsigned age of the last telegram is the real one until the clock
has gone round. `AppliedInv` has the same exceptions as the property, a refusal
and a late limit, for any number of limits under way. The proofs rest on the
environment assumption stated for `ChargerSystem` above.

`HmiProofs` proves `HmiTypeOK` (`HmiTypeCorrect`) and `PatternCounts`
(`PatternsCount`) for every number of errors, every table of one to 255 blinks
and all delays that fit the clock. The invariant `Account` says that blinks
shown and blinks left add up to the table's entry; that a step round the table
finds an error whenever one is active (`FurtherOnto`) and that the least such
step exists (`MinFacts`, from the well-foundedness of the naturals) give the
start of a pattern.

`NetworkLogProofs` proves `LogTypeOK`, `LogInOrder` and `FlushInTime`
(`LogTypeCorrect`, `LogOrdered`, `FlushedInTime`) for every size of the buffer,
every interval that fits the clock with a unit to spare and texts of any length.
`OrderInv` says that the buffer begins with what is unsent, none of which is
zero, so that the first zero is behind it, within the buffer or in the bytes of
`_w_idx` (`CStringFacts`). `FlushInv` is about
stale start times: once a tick has passed, the age by the clock is at least the
time waited less one, since a stale age can wrap only on the first tick;
after that `loop()` has flushed what is too old.

`FirmwareAppProofs` proves `StatusAgrees` and `MeterFlagExact` (`StatusCorrect`,
`MeterFlagCorrect`) for all timeouts that fit the clock. `AppInv` adds that while
the meter counts as connected, the clock's age of the last telegram is the real
one and, behind the meter's turn, below the timeout: this is why the wrap does
not matter.

`MeterLineProofs` proves `ParserTypeOK` and the action property `LosesAtMostOne`
(`ParserTypeCorrect`, `ParserRecovers`) for every size of the token buffer from 4
on, every modulus of `value_idx` from 2 on and any keys and values, with no bound
on the telegrams other than `MaxLines`. One lemma per function says that it
leaves a tokenizer or a parser; `IsParser` keeps the members together that
`ParserTypeOK` does not speak of. For the recovery, `PositionInv` relates the
meter's place in the telegram to both state machines: from the `/` on the
tokenizer is where the meter is (`TokenizerAt`), whatever it was doing before, and
behind the checksum further line ends find it in one of two states that no line
end leaves;
from the end of the header on the parser is reading the telegram or passing it
over as a whole (`ParserAt`); and behind one whole telegram it is not passing
over (`CleanAt`). The second state machine's part is why one telegram can be
lost: a header that finds the parser within a telegram is an error. That a value
of the meter is never an error (`ConformingValue`) uses the meter's grammar in
`Conforms`: with more decimals `parse_flt` does not return.

`SmDatetimeProofs` proves `RoundTrip` and `CommonDateIsCalendar`
(`ConversionIsInverted`, `CommonDatesAreRight`) for every range of years from 1
to 65535, the last that `dt->year` holds (`YearNarrowed`). `year2days` has the
length of each year right (`YearLength`), so that `YearStart`, which counts leap
years, is `year2days` (`YearStarts`, by induction in the form that there is no
first exception). The loop for the year starts in the right year or a later one
(`FirstEstimate`), never corrects to an earlier one and stands still only when
less than a year too late (`YearCorrection`); the estimate of the month is right
or one too late and stands still at once (`MonthSettled`). `NeverLeap` is the
leap year error: `is_leap_year` is false of every year; up to 28 February the
months of leap and common years begin on the same days (`LeapMonthStarts`).
`DateInv` says this of the variables of the loop that is running.

Only model-checked:

- liveness (`KeepsReconnecting`, the fairness of `ImplementsService`,
  `CycleEnds`, `OutageReported`, `OvertakenLimitRepaired`, `EveryErrorShown`,
  `EndsDark`, `KeepsTrying`, `WifiRecovers`, `WifiLossReported`,
  `ConversionEnds`), which is out of the prover's reach;
- `FrameIsTelegram`: its sums over a telegram's lines are folds over sequences,
  and what a fold of a longer sequence is needs an induction theorem with an
  operator as its parameter.

## Not modelled

`util` (log formatting, hex dumps) and the JSON text of broadcasts with its
frame counter are output only; `Config.h` and the build files are constants; the
programs under `utils/` print the broadcasts on a PC. Of the parser the name in
the header and signs of values are left out, of `sm_common` the time of day and
the shift to the UNIX epoch, which are divisions and an addition. The callback
pointers are set once in `setup()` and are taken as set.

`SmartMeter` and `MeterLine` are not composed into one module: they meet at the
outcome of a poll (`Polls`), a telegram or none, and composing them would only
multiply their states.

## Plan

1. Done: `Millis`, `RequestService`, `ModbusTcpClient`, `ChargeController`,
   `ChargerSystem`, `Hmi`, `ConnectionManager`, `SmartMeter`, `FirmwareApp`,
   `SmParser`, `MeterLine`, `NetworkLog`, `SmDatetime`; the proofs of every
   invariant the runs check and of the action properties except
   `FrameIsTelegram`.
2. Proofs: `FrameIsTelegram`, in so far as it can be said without folds (what a
   frame holds of the values that overwrite each other, and that nothing is left
   of an earlier telegram).
3. A load model behind `ChargerSystem`: how long and by how much the fuse can be
   exceeded when the load changes between two polls.
