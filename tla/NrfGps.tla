--------------------------------- MODULE NrfGps --------------------------------
(***************************************************************************)
(* The stream of the nRF54's GPS receiver (edgez_gps.c): the UART's driver *)
(* fills a buffer, gps_uart_callback moves it to a ring of fixed size,     *)
(* also in the middle of the main loop, and edgez_gps_poll makes lines of  *)
(* it and takes positions from those whose checksum fits.  Reception stops *)
(* at errors and when GPS is turned off; bytes are lost then, and when the *)
(* ring is full.  A sentence is a few units and its line feed; a checksum  *)
(* is taken to fit only a line that is one sentence.  What becomes of the  *)
(* fix is in NrfSensors.                                                   *)
(***************************************************************************)
EXTENDS Naturals, Sequences

CONSTANTS
  SentenceUnits,   \* of a sentence, without its line feed
  WithPosition,    \* sentences from which a position can be taken
  BufferUnits,     \* GPS_ASYNC_BUFFER_SIZE
  RingUnits,       \* GPS_RING_BUFFER_SIZE
  LineUnits,       \* sizeof(line_buf) - 1
  MaxSentences, MaxUartFaults   \* bounds

ASSUME GpsAssumption ==
  /\ {SentenceUnits, BufferUnits, LineUnits} \subseteq Nat \ {0}
  /\ {RingUnits, MaxSentences, MaxUartFaults} \subseteq Nat
  /\ SentenceUnits <= LineUnits     \* 82 and 127 bytes

VARIABLES
  enabled,      \* device_gps_enabled, with the IMU ready and the beacon sent
  gpsReady,     \* gps_ready
  uart,         \* reception: off, on, told to stop, stopped by an error, or not
                \* started again after one
  next,         \* what the receiver sends next
  buffer,       \* async_rx_buffer, as far as it is filled
  ring,         \* gps_rx_ring
  line,         \* line_buf[0 .. line_len)
  position,     \* latest_fix: the sentence it is from
  recent,       \* fix_reported, and published less than a minute ago
  since,        \* the sentence that was being sent when GPS was started
  parsed,       \* sentences whose checksum fitted since then
  lost,         \* units that were lost since then
  uartFaults

gpsVars == <<enabled, gpsReady, uart, next, buffer, ring, line, position, recent, since,
             parsed, lost, uartFaults>>

LineFeed == SentenceUnits + 1
NoPosition == 0
Unit == [of : 1..MaxSentences, part : 1..LineFeed]
Sentence(n) == [i \in 1..SentenceUnits |-> [of |-> n, part |-> i]]
In(units) == {units[i] : i \in DOMAIN units}

GpsInit ==
  /\ enabled \in BOOLEAN
  /\ gpsReady = FALSE /\ uart = "off"
  /\ next = [of |-> 1, part |-> 1]
  /\ buffer = <<>> /\ ring = <<>> /\ line = <<>>
  /\ position = NoPosition /\ recent = FALSE
  /\ since = 1 /\ parsed = {} /\ lost = {}
  /\ uartFaults = 0

\* ------------------------------------------------------------------ receiver

Lose(units) == IF gpsReady THEN lost \cup units ELSE lost
AfterUnit(unit) == IF unit.part < LineFeed THEN [unit EXCEPT !.part = @ + 1]
                   ELSE [of |-> unit.of + 1, part |-> 1]

\* The receiver sends the next unit, which is lost while reception is off. The
\* driver's buffer never overflows: its interrupt comes first.
SendUnit ==
  /\ next.of <= MaxSentences
  /\ uart = "on" => Len(buffer) < BufferUnits
  /\ next' = AfterUnit(next)
  /\ IF uart = "on" THEN buffer' = Append(buffer, next) /\ UNCHANGED lost
     ELSE UNCHANGED buffer /\ lost' = Lose({next})
  /\ UNCHANGED <<enabled, gpsReady, uart, ring, line, position, recent, since, parsed,
                uartFaults>>

\* ------------------------------------------------- interrupts, gps_uart_callback

\* UART_RX_RDY: what the ring has no room for is dropped.
Room == RingUnits - Len(ring)
ReceptionReady ==
  /\ buffer # <<>>
  /\ LET fits == IF Len(buffer) <= Room THEN Len(buffer) ELSE Room
     IN /\ ring' = ring \o SubSeq(buffer, 1, fits)
        /\ lost' = Lose(In(SubSeq(buffer, fits + 1, Len(buffer))))
  /\ buffer' = <<>>
  /\ UNCHANGED <<enabled, gpsReady, uart, next, line, position, recent, since, parsed,
                uartFaults>>

\* UART_RX_STOPPED after an error on the line, or no next buffer for the driver.
ReceptionStops ==
  /\ uart = "on" /\ uartFaults < MaxUartFaults
  /\ uart' = "stopped" /\ uartFaults' = uartFaults + 1
  /\ UNCHANGED <<enabled, gpsReady, next, buffer, ring, line, position, recent, since,
                parsed, lost>>

\* UART_RX_DISABLED, after what was received: reception is started again unless
\* GPS was turned off. If that fails, nothing tries again.
ReceptionDisabled ==
  /\ uart \in {"stopping", "stopped"} /\ buffer = <<>>
  /\ IF ~gpsReady THEN uart' = "off" /\ UNCHANGED uartFaults
     ELSE \/ uart' = "on" /\ UNCHANGED uartFaults
          \/ /\ uartFaults < MaxUartFaults /\ uartFaults' = uartFaults + 1
             /\ uart' = "failed"
  /\ UNCHANGED <<enabled, gpsReady, next, buffer, ring, line, position, recent, since,
                parsed, lost>>

\* ----------------------------------------------------------------- main loop

ChangeWish ==
  /\ enabled' = ~enabled
  /\ UNCHANGED <<gpsReady, uart, next, buffer, ring, line, position, recent, since, parsed,
                lost, uartFaults>>

\* edgez_gps_stop: the driver stops later, with an event. What is in the ring stays.
StopStream ==
  /\ ~enabled
  /\ gpsReady' = FALSE
  /\ uart' = CASE ~gpsReady -> uart
               [] uart = "failed" -> "off"
               [] OTHER -> "stopping"
  /\ line' = <<>> /\ position' = NoPosition
  /\ UNCHANGED <<enabled, next, buffer, ring, recent, since, parsed, lost, uartFaults>>

\* edgez_gps_init, 1 s after GPS may be started: reception has stopped by then.
RingKept == ring
EmptyRing == <<>>
InitStream ==
  /\ enabled /\ ~gpsReady /\ uart = "off"
  /\ line' = <<>> /\ ring' = EmptyRing /\ recent' = FALSE
  /\ \/ gpsReady' = TRUE /\ uart' = "on" /\ UNCHANGED uartFaults
     \/ /\ uartFaults < MaxUartFaults /\ uartFaults' = uartFaults + 1
        /\ UNCHANGED <<gpsReady, uart>>
  /\ since' = next.of /\ parsed' = {}
  /\ lost' = {u \in Unit : u.of = next.of /\ u.part < next.part}
  /\ UNCHANGED <<enabled, next, buffer, position>>

\* parse_sentence, publish_fix: a position at most every minute.
Fits(text) == \E n \in 1..MaxSentences : text = Sentence(n)
ParseSentence(text) ==
  IF ~Fits(text) THEN UNCHANGED <<parsed, position, recent>>
  ELSE LET n == text[1].of
       IN /\ parsed' = parsed \cup {n}
          /\ IF n \in WithPosition /\ ~recent THEN position' = n /\ recent' = TRUE
             ELSE UNCHANGED <<position, recent>>

\* edgez_gps_poll, a byte at a time: a line that grows too long is given up with
\* the byte that is too many, and what follows is taken for the next one.
LineWith(unit) == IF Len(line) < LineUnits THEN Append(line, unit) ELSE <<>>
PollUnit ==
  /\ gpsReady /\ ring # <<>>
  /\ ring' = Tail(ring)
  /\ IF Head(ring).part = LineFeed THEN line' = <<>> /\ ParseSentence(line)
     ELSE line' = LineWith(Head(ring)) /\ UNCHANGED <<parsed, position, recent>>
  /\ UNCHANGED <<enabled, gpsReady, uart, next, buffer, since, lost, uartFaults>>

MinutePasses ==
  /\ recent /\ recent' = FALSE
  /\ UNCHANGED <<enabled, gpsReady, uart, next, buffer, ring, line, position, since, parsed,
                lost, uartFaults>>

\* ------------------------------------------------------------- specification

GpsNext ==
  \/ SendUnit \/ ReceptionReady \/ ReceptionStops \/ ReceptionDisabled
  \/ ChangeWish \/ StopStream \/ InitStream \/ PollUnit \/ MinutePasses

GpsSpec == GpsInit /\ [][GpsNext]_gpsVars

\* --------------------------------------------------------------- properties
\* The stream keeps its types; neither ring nor line outgrows its memory.
GpsTypeOK ==
  /\ enabled \in BOOLEAN /\ gpsReady \in BOOLEAN /\ recent \in BOOLEAN
  /\ uart \in {"off", "on", "stopping", "stopped", "failed"}
  /\ next \in [of : 1..MaxSentences + 1, part : 1..LineFeed]
  /\ buffer \in Seq(Unit) /\ Len(buffer) <= BufferUnits
  /\ ring \in Seq(Unit) /\ Len(ring) <= RingUnits
  /\ line \in Seq(Unit) /\ Len(line) <= LineUnits
  /\ position \in 0..MaxSentences /\ since \in 1..MaxSentences + 1
  /\ parsed \subseteq 1..MaxSentences /\ lost \subseteq Unit
  /\ uartFaults \in 0..MaxUartFaults

\* A position is from a sentence sent since GPS was last turned on: nothing of
\* an earlier stream comes out of the buffers.
PositionIsNew ==
  /\ position # NoPosition => position \in parsed
  /\ \A n \in parsed : n >= since

\* A lost unit costs the sentence it is of, a lost line feed the next one, too:
\* every other sentence sent since GPS was turned on is parsed as soon as
\* edgez_gps_poll is through with it, also after lines that were too long.
Damaged(n) == \E u \in lost : u.of = n \/ u = [of |-> n - 1, part |-> LineFeed]
Behind(n) == \A u \in In(ring) \cup In(buffer) : u.of > n
NothingElseMissed ==
  gpsReady => \A n \in since .. next.of - 1 : Behind(n) => n \in parsed \/ Damaged(n)

\* GPS that is turned on receives, or is about to, or could not be started again.
Receives == gpsReady <=> uart \in {"on", "stopped", "failed"}

\* What is taken from the GPS stream, with interrupts at any moment, full
\* buffers, errors on the line, and GPS turned off and on.
FixIsReceived == PositionIsNew /\ NothingElseMissed /\ Receives
================================================================================
