--------------------------------- MODULE NrfBle --------------------------------
(***************************************************************************)
(* The Bluetooth services of the nRF54 node (edgez_ble.c). A client writes *)
(* a stream of framed requests to FFF1, cut wherever its writes end, and   *)
(* is notified of the answers on FFF2; or it uploads an mqtt-config        *)
(* document in chunks and reads its status. Writes are callbacks of the    *)
(* Bluetooth thread, answers are notified by the work queue, and the link  *)
(* may be lost at any moment, also while a callback waits for the flash.   *)
(* What NrfNode does with a document in one step is here done chunk by     *)
(* chunk; the effects of requests and documents are NrfNode's. A unit of   *)
(* the stream is two bytes of a header or a piece of a payload.            *)
(***************************************************************************)
EXTENDS Naturals, Sequences

CONSTANTS
  MaxPayload,      \* EDGEZ_FRAME_MAX_PAYLOAD, in units
  MaxWrite,        \* the longest write of a client, in units
  MaxDocument,     \* MQTT_CONFIG_MAX_LEN, in chunks
  NotifyRetries,   \* EDGEZ_BLE_NOTIFY_MAX_RETRIES
  MaxClients, MaxAsked, MaxUploads, MaxRadioFaults   \* bounds

ASSUME BleAssumption ==
  /\ {MaxPayload, MaxWrite, MaxDocument} \subseteq Nat \ {0}
  /\ MaxWrite <= MaxPayload      \* both are 512 bytes
  /\ {NotifyRetries, MaxClients, MaxAsked, MaxUploads, MaxRadioFaults} \subseteq Nat

VARIABLES
  air,        \* bt_ready, provisioning_enabled, advertising, restart_advertising_work
  client,     \* current_conn, tx_notify_enabled
  stream,     \* what the client has asked on this link and has yet to write
  rxBuffer,   \* rx_buffer[0 .. rx_length)
  callback,   \* the write callback that runs
  reply,      \* pending_response, its link and its retries
  handled,    \* the requests of this link that were handled
  answered,   \* the answers the client was notified of, and their links
  upload,     \* the document the client uploads
  document,   \* mqtt_config_buffer, mqtt_config_received, mqtt_config_expected
  report,     \* mqtt_config_status
  confirmed,  \* every document handed to livestock_config_apply_json was an upload
  linkCount, radioFaults   \* for the bounds and the properties

gattVars == <<air, client, stream, rxBuffer, callback, reply, handled, answered,
             upload, document, report, confirmed, linkCount, radioFaults>>
serving == <<rxBuffer, callback, reply, handled, answered>>
uploading == <<upload, document, report, confirmed>>

HeaderUnits == 2
Capacity == 2 * (HeaderUnits + MaxPayload)
Sizes == 0 .. MaxPayload + 1       \* the last one stands for every one too long
DocumentSizes == 1 .. MaxDocument + 1

\* A request as the client writes it.
Frame(id, size) ==
  <<[id |-> id, part |-> "magic"], [id |-> id, part |-> "length"]>>
    \o [i \in 1 .. size |-> [id |-> id, part |-> "payload"]]

Nobody == [link |-> 0, notify |-> FALSE]
NothingAsked == [sizes |-> <<>>, toWrite |-> <<>>]
NoReply == [link |-> 0, id |-> 0, retries |-> 0]
NoUpload == [number |-> 0, size |-> 0, next |-> 1]
NothingReceived == [expected |-> 0, chunks |-> <<>>]
NoReport == [at |-> "pending", link |-> 0]

BleInit ==
  /\ air = [ready |-> FALSE, enabled |-> FALSE, advertising |-> FALSE, due |-> FALSE,
            failed |-> FALSE]
  /\ client = Nobody /\ stream = NothingAsked
  /\ rxBuffer = <<>> /\ callback = "idle" /\ reply = NoReply
  /\ handled = <<>> /\ answered = <<>>
  /\ upload = NoUpload /\ document = NothingReceived /\ report = NoReport
  /\ confirmed = TRUE
  /\ linkCount = 0 /\ radioFaults = 0

\* ---------------------------------------------------------------- advertising

\* start_advertising on an air as given: bt_le_adv_start may fail, and is not
\* called when there is nothing to advertise for.
Advertises(a) ==
  IF ~a.ready \/ ~a.enabled \/ a.advertising \/ client.link # 0
  THEN air' = a /\ UNCHANGED radioFaults
  ELSE \/ air' = [a EXCEPT !.advertising = TRUE, !.failed = FALSE] /\ UNCHANGED radioFaults
       \/ /\ radioFaults < MaxRadioFaults
          /\ radioFaults' = radioFaults + 1
          /\ air' = [a EXCEPT !.failed = TRUE]

\* edgez_ble_start, at boot without a profile or by the button while disabled:
\* the stack is enabled first, and calls back.
EnableBle ==
  /\ ~air.enabled /\ client.link = 0
  /\ Advertises([air EXCEPT !.enabled = TRUE])
  /\ UNCHANGED <<client, stream, serving, uploading, linkCount>>

StackReady ==
  /\ air.enabled /\ ~air.ready
  /\ Advertises([air EXCEPT !.ready = TRUE])
  /\ UNCHANGED <<client, stream, serving, uploading, linkCount>>

RestartWork ==
  /\ air.due
  /\ Advertises([air EXCEPT !.due = FALSE])
  /\ UNCHANGED <<client, stream, serving, uploading, linkCount>>

\* ---------------------------------------------------------------------- links

\* What connected and disconnected forget of the client before.
Forgets ==
  /\ rxBuffer' = <<>> /\ reply' = NoReply
  /\ document' = [document EXCEPT !.expected = 0, !.chunks = <<>>]

\* connected, in the thread of the callbacks. The client asks anew on a new link,
\* but may go on with an upload of the one before.
ClientConnects ==
  /\ air.advertising /\ callback = "idle" /\ linkCount < MaxClients
  /\ linkCount' = linkCount + 1
  /\ client' = [link |-> linkCount + 1, notify |-> FALSE]
  /\ air' = [air EXCEPT !.advertising = FALSE]
  /\ Forgets
  /\ report' = NoReport
  /\ stream' = NothingAsked /\ handled' = <<>> /\ answered' = <<>>
  /\ UNCHANGED <<callback, upload, confirmed, radioFaults>>

\* connected, with an error.
ConnectingFails ==
  /\ air.advertising /\ radioFaults < MaxRadioFaults
  /\ radioFaults' = radioFaults + 1
  /\ air' = [air EXCEPT !.advertising = FALSE, !.due = TRUE]
  /\ UNCHANGED <<client, stream, serving, uploading, linkCount>>

\* disconnected, also while a callback is at work.
ClientDisconnects ==
  /\ client.link # 0
  /\ client' = Nobody
  /\ air' = [air EXCEPT !.advertising = FALSE, !.due = TRUE]
  /\ Forgets
  /\ stream' = NothingAsked /\ handled' = <<>> /\ answered' = <<>>
  /\ UNCHANGED <<callback, upload, report, confirmed, linkCount, radioFaults>>

\* tx_ccc_changed.
ClientSubscribes(on) ==
  /\ client.link # 0 /\ callback = "idle"
  /\ client' = [client EXCEPT !.notify = on]
  /\ UNCHANGED <<air, stream, serving, uploading, linkCount, radioFaults>>

\* ------------------------------------------------------- the stream of requests

ClientAsks(size) ==
  /\ client.link # 0
  /\ Len(stream.sizes) < MaxAsked
  /\ LET id == Len(stream.sizes) + 1 IN
     stream' = [sizes |-> Append(stream.sizes, size),
                toWrite |-> stream.toWrite \o Frame(id, size)]
  /\ UNCHANGED <<air, client, serving, uploading, linkCount, radioFaults>>

\* write_control: the write is buffered, or nothing of it and of what was there.
WriteControl(n) ==
  /\ client.link # 0 /\ callback = "idle"
  /\ n <= Len(stream.toWrite)
  /\ stream' = [stream EXCEPT !.toWrite = SubSeq(@, n + 1, Len(@))]
  /\ IF n > Capacity - Len(rxBuffer)
     THEN rxBuffer' = <<>> /\ UNCHANGED callback
     ELSE /\ rxBuffer' = rxBuffer \o SubSeq(stream.toWrite, 1, n)
          /\ callback' = "frames"
  /\ UNCHANGED <<air, client, reply, handled, answered, uploading, linkCount, radioFaults>>

SizeOfFirst == stream.sizes[rxBuffer[2].id]
Garbled == rxBuffer[1].part # "magic" \/ SizeOfFirst > MaxPayload
Incomplete == Len(rxBuffer) < HeaderUnits + SizeOfFirst

\* process_rx_frames: its loop ends, with what is not a frame thrown away, or
\* meets a whole frame.
LookAtFrame ==
  /\ callback = "frames"
  /\ IF Len(rxBuffer) < HeaderUnits THEN callback' = "idle" /\ UNCHANGED rxBuffer
     ELSE IF Garbled THEN callback' = "idle" /\ rxBuffer' = <<>>
     ELSE /\ callback' = IF Incomplete THEN "idle" ELSE "packet"
          /\ UNCHANGED rxBuffer
  /\ UNCHANGED <<air, client, stream, reply, handled, answered, uploading, linkCount,
                radioFaults>>

\* The frame is taken out of the buffer.
Rest == SubSeq(rxBuffer, HeaderUnits + SizeOfFirst + 1, Len(rxBuffer))

\* queue_response: one answer at a time.
QueuesReply(id) ==
  reply' = IF reply = NoReply THEN [link |-> client.link, id |-> id, retries |-> 0]
           ELSE reply

\* edgez_config_handle_packet has returned: with an answer, or an error.
PacketHandled ==
  /\ callback = "packet" /\ rxBuffer # <<>>
  /\ LET id == rxBuffer[1].id IN
     /\ QueuesReply(id) \/ UNCHANGED reply
     /\ handled' = Append(handled, id)
  /\ rxBuffer' = Rest
  /\ callback' = "frames"
  /\ UNCHANGED <<air, client, stream, answered, uploading, linkCount, radioFaults>>

\* The same after disconnected has set rx_length to 0: rx_length - frame_len
\* wraps around, memmove leaves the memory, and the board starts again.
PacketHandledTooLate ==
  /\ callback = "packet" /\ rxBuffer = <<>>
  /\ air' = [air EXCEPT !.ready = FALSE, !.advertising = FALSE, !.due = FALSE,
                        !.failed = FALSE]
  /\ client' = Nobody /\ callback' = "idle"
  /\ Forgets
  /\ report' = NoReport
  /\ UNCHANGED <<stream, handled, answered, upload, confirmed, linkCount, radioFaults>>

\* response_notify_work_handler: a busy stack is tried again, all else ends it.
NotifyReply ==
  /\ reply # NoReply
  /\ \/ /\ client.link # 0 /\ client.notify
        /\ answered' = Append(answered, [id |-> reply.id, link |-> reply.link])
        /\ reply' = NoReply
     \/ /\ client.link # 0 /\ client.notify
        /\ reply' = IF reply.retries < NotifyRetries
                    THEN [reply EXCEPT !.retries = @ + 1] ELSE NoReply
        /\ UNCHANGED answered
     \/ reply' = NoReply /\ UNCHANGED answered    \* no client, no CCC, another error
  /\ UNCHANGED <<air, client, stream, rxBuffer, callback, handled, uploading, linkCount,
                radioFaults>>

\* --------------------------------------------------------- mqtt-config in chunks

Chunks(u, n) == [i \in 1 .. n |-> [number |-> u.number, index |-> u.next + i - 1]]

\* The client has sent all, or gives up.
Ended(u) == [u EXCEPT !.size = 0, !.next = 1]

WholeUpload(u) == [i \in 1 .. u.size |-> [number |-> u.number, index |-> i]]

\* write_mqtt_config with chunks that are added to those received; when all are
\* there, the document is handed to livestock_config_apply_json.
Takes(d, u, n) ==
  LET received == d.chunks \o Chunks(u, n) IN
  /\ document' = [d EXCEPT !.chunks = received]
  /\ IF Len(received) = d.expected
     THEN /\ callback' = "apply"
          /\ upload' = Ended(u)
          /\ confirmed' = (confirmed /\ received = WholeUpload(u))
     ELSE upload' = [u EXCEPT !.next = @ + n] /\ UNCHANGED <<callback, confirmed>>

\* As if a start did not throw away what was received of the upload before.
StartsOver(size) == [document EXCEPT !.expected = size]

\* A start forgets every chunk received before it.
Starts(size) == [expected |-> size, chunks |-> <<>>]

\* The first write, with the length; a client may start over at any time, and
\* gives up what is too long.
ClientUploads(size, n) ==
  /\ client.link # 0 /\ callback = "idle"
  /\ upload.number < MaxUploads /\ n <= size
  /\ LET u == [number |-> upload.number + 1, size |-> size, next |-> 1] IN
     IF size > MaxDocument
     THEN /\ document' = Starts(size)
          /\ report' = [at |-> "failed", link |-> client.link]
          /\ upload' = Ended(u)
          /\ UNCHANGED <<callback, confirmed>>
     ELSE Takes(Starts(size), u, n) /\ report' = NoReport
  /\ UNCHANGED <<air, client, stream, rxBuffer, reply, handled, answered, linkCount,
                radioFaults>>

\* The next one.  A client that goes on after its link was lost is refused.
ClientContinues(n) ==
  /\ client.link # 0 /\ callback = "idle"
  /\ upload.next + n - 1 <= upload.size
  /\ IF document.expected # 0 /\ Len(document.chunks) + n <= document.expected
     THEN Takes(document, upload, n) /\ UNCHANGED report
     ELSE /\ upload' = Ended(upload)
          /\ report' = IF document.expected = 0 THEN report
                       ELSE [at |-> "failed", link |-> client.link]
          /\ UNCHANGED <<document, callback, confirmed>>
  /\ UNCHANGED <<air, client, stream, rxBuffer, reply, handled, answered, linkCount,
                radioFaults>>

\* livestock_config_apply_json has returned.
DocumentApplied(ok) ==
  /\ callback = "apply"
  /\ callback' = "idle"
  /\ report' = [at |-> IF ok THEN "ok" ELSE "failed", link |-> client.link]
  /\ air' = [air EXCEPT !.enabled = @ /\ ~ok]
  /\ document' = NothingReceived
  /\ UNCHANGED <<client, stream, rxBuffer, reply, handled, answered, upload, confirmed,
                linkCount, radioFaults>>

BleNext ==
  \/ EnableBle \/ StackReady \/ RestartWork
  \/ ClientConnects \/ ConnectingFails \/ ClientDisconnects
  \/ \E on \in BOOLEAN : ClientSubscribes(on)
  \/ \E size \in Sizes : ClientAsks(size)
  \/ \E n \in 1 .. MaxWrite : WriteControl(n)
  \/ LookAtFrame \/ PacketHandled \/ PacketHandledTooLate \/ NotifyReply
  \/ \E size \in DocumentSizes, n \in 1 .. MaxDocument : ClientUploads(size, n)
  \/ \E n \in 1 .. MaxDocument : ClientContinues(n)
  \/ \E ok \in BOOLEAN : DocumentApplied(ok)

BleSpec == BleInit /\ [][BleNext]_gattVars

\* ----------------------------------------------------------------- properties

AllInOrder(s) == \A i, j \in 1 .. Len(s) : i < j => s[i] < s[j]
TooLong(id) == stream.sizes[id] > MaxPayload

\* However the writes cut the stream, requests are handled in their order and
\* once, and one is left out only after a frame that is too long.
HandledInOrder ==
  /\ AllInOrder(handled)
  /\ \A id \in 1 .. Len(stream.sizes) :
       \/ \E i \in 1 .. Len(handled) : handled[i] = id
       \/ \E unit \in 1 .. Len(stream.toWrite) : stream.toWrite[unit].id = id
       \/ \E unit \in 1 .. Len(rxBuffer) : rxBuffer[unit].id = id
       \/ \E long \in 1 .. id : TooLong(long)

\* A write of what the client may write always finds room beside what waits.
WritesFit ==
  client.link # 0 /\ callback = "idle" => Len(rxBuffer) + MaxWrite <= Capacity

\* A client is notified of answers to what it asked on this link, in order and
\* once each.
AnswersAreIts ==
  /\ AllInOrder([i \in 1 .. Len(answered) |-> answered[i].id])
  /\ \A i \in 1 .. Len(answered) :
       /\ answered[i].link = client.link
       /\ \E j \in 1 .. Len(handled) : handled[j] = answered[i].id

\* A document that is applied is one upload, complete and in its order, also
\* after uploads that were given up or lost their link.
DocumentWhole == confirmed

\* A client reads a result only of a document of its own link.
ReportIsIts == client.link # 0 => report.link \in {0, client.link}

\* While provisioning is enabled the node can be found or has a client, or will
\* advertise after 500 ms, unless starting to advertise failed: the code does
\* not try that again.
CanBeFound ==
  air.ready /\ air.enabled
    => client.link # 0 \/ air.advertising \/ air.due \/ air.failed

\* What a client of the Bluetooth services relies on, through every cut of its
\* writes, lost link, slow notification and upload given up.
ClientIsServed ==
  /\ HandledInOrder /\ WritesFit /\ AnswersAreIts
  /\ DocumentWhole /\ ReportIsIts /\ CanBeFound
===============================================================================
