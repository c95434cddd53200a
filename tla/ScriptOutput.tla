----------------------------- MODULE ScriptOutput ----------------------------
(***************************************************************************)
(* The global buffer of the sensor scripts (firmware/src/sensor_script.cpp)*)
(* and the messages it is published in (publish_script_blob, main.cpp).    *)
(* One buffer serves every run: only its length is reset, and memory that  *)
(* was not written keeps what earlier runs left, or malloc gave.           *)
(***************************************************************************)
EXTENDS Integers, Sequences

CONSTANTS
  BufferSize,      \* kGlobalBufferMaxSize, which is the default size as well
  ChunkSize,       \* kRawChunkSize
  MaxWriteSize,    \* bound: bytes of a write
  MaxWrites,       \* bound: writes of all runs; each writes a byte of its own
  MaxExecutions,   \* bound: runs between resets
  MaxBoots         \* bound: resets

ASSUME OutputAssumption ==
  /\ BufferSize \in Nat \ {0} /\ ChunkSize \in Nat \ {0}
  /\ MaxWriteSize \in Nat \ {0}
  /\ MaxWrites \in Nat /\ MaxExecutions \in Nat /\ MaxBoots \in Nat

VARIABLES
  buffer,      \* global_buffer, as long as global_buffer_capacity
  length,      \* global_buffer_length
  runner,      \* what execute_script does, and the chunk that is next
  execution,   \* execution_counter
  boots,       \* resets so far
  writes,      \* writes so far
  meant,       \* what this run wrote, for a program that knows no buffer
  blobs,       \* what every run that published had written
  messages     \* the chunks that went out

outputVars == <<buffer, length, runner, execution, boots, writes, meant, blobs, messages>>

NoBuffer == <<>>
Zero == 0
Unwritten == MaxWrites + 1   \* a byte of malloc's
Allocated(capacity) == [i \in 1..capacity |-> Unwritten]
Bytes(n) == [i \in 1..n |-> writes + 1]
NoRun == [at |-> "idle", chunk |-> 0]

OutputInit ==
  /\ buffer = NoBuffer /\ length = 0
  /\ runner = NoRun /\ execution = 0 /\ boots = 0
  /\ writes = 0 /\ meant = <<>> /\ blobs = {} /\ messages = {}

\* execute_script.  A Lua state that cannot be created ends the run at once.
BeginRun ==
  /\ runner = NoRun /\ execution < MaxExecutions
  /\ length' = 0 /\ execution' = execution + 1
  /\ runner' = [NoRun EXCEPT !.at = "run"]
  /\ meant' = <<>>
  /\ UNCHANGED <<buffer, boots, writes, blobs, messages>>

\* ensure_global_buffer: a buffer of this capacity is kept; otherwise a new one,
\* empty, replaces it, or there is no memory and nothing changes.
Ensured(capacity) ==
  IF Len(buffer) = capacity THEN {[cells |-> buffer, length |-> length]}
  ELSE {[cells |-> Allocated(capacity), length |-> 0]}

InitBuffer(capacity) ==
  /\ runner.at = "run"
  /\ \E b \in Ensured(capacity) : buffer' = b.cells
  /\ length' = 0 /\ meant' = <<>>
  /\ UNCHANGED <<runner, execution, boots, writes, blobs, messages>>

\* The buffer a write finds: the first one gets a buffer of the default size.
ForWrite ==
  IF buffer = NoBuffer THEN Ensured(BufferSize)
  ELSE {[cells |-> buffer, length |-> length]}

Put(cells, offset, data) ==
  [i \in DOMAIN cells |-> IF i \in offset + 1 .. offset + Len(data)
                          THEN data[i - offset] ELSE cells[i]]

Write == runner.at = "run" /\ writes < MaxWrites /\ writes' = writes + 1

AppendBytes(n) ==
  /\ Write
  /\ \E b \in ForWrite :
       /\ n <= Len(b.cells) - b.length
       /\ buffer' = Put(b.cells, b.length, Bytes(n))
       /\ length' = b.length + n
  /\ meant' = meant \o Bytes(n)
  /\ UNCHANGED <<runner, execution, boots, blobs, messages>>

\* As if a gap were left as it is.
Untouched(b, offset) == b.cells

\* What lies between the end and a write behind it is zeroed.
ZeroFilled(b, offset) ==
  [i \in DOMAIN b.cells |-> IF i \in b.length + 1 .. offset THEN Zero ELSE b.cells[i]]

\* util_write_global_buffer_at; for the program, bytes nobody wrote are zero.
Overlaid(offset, data) ==
  [i \in 1 .. IF offset + Len(data) > Len(meant) THEN offset + Len(data) ELSE Len(meant)
     |-> IF i \in offset + 1 .. offset + Len(data) THEN data[i - offset]
         ELSE IF i <= Len(meant) THEN meant[i] ELSE Zero]

WriteAt(offset, n) ==
  /\ Write
  /\ \E b \in ForWrite :
       /\ offset < Len(b.cells) /\ n <= Len(b.cells) - offset
       /\ buffer' = Put(ZeroFilled(b, offset), offset, Bytes(n))
       /\ length' = IF offset + n > b.length THEN offset + n ELSE b.length
  /\ meant' = Overlaid(offset, Bytes(n))
  /\ UNCHANGED <<runner, execution, boots, blobs, messages>>

\* An error in the program: its values and its bytes are dropped.
RunFails ==
  /\ runner.at = "run"
  /\ runner' = NoRun
  /\ UNCHANGED <<buffer, length, execution, boots, writes, meant, blobs, messages>>

\* The program returned; bytes are published if there is a session.
RunReturns ==
  /\ runner.at = "run"
  /\ \/ /\ length > 0
        /\ runner' = [at |-> "publish", chunk |-> 0]
        /\ blobs' = blobs \cup {[boot |-> boots, id |-> execution, blob |-> meant]}
     \/ runner' = NoRun /\ UNCHANGED blobs
  /\ UNCHANGED <<buffer, length, execution, boots, writes, meant, messages>>

\* ------------------------------------------------------ publish_script_blob
ChunkCount == (length + ChunkSize - 1) \div ChunkSize
Chunk(index) ==
  LET end == (index + 1) * ChunkSize
  IN [boot |-> boots, id |-> execution, index |-> index, count |-> ChunkCount,
      data |-> SubSeq(buffer, index * ChunkSize + 1, IF end > length THEN length ELSE end)]

NextChunk ==
  runner' = IF runner.chunk + 1 = ChunkCount THEN NoRun ELSE [runner EXCEPT !.chunk = @ + 1]

\* A chunk goes out, or none does for want of memory for its text.
PublishChunk ==
  /\ runner.at = "publish"
  /\ NextChunk
  /\ \/ messages' = messages \cup {Chunk(runner.chunk)}
     \/ UNCHANGED messages
  /\ UNCHANGED <<buffer, length, execution, boots, writes, meant, blobs>>

\* The session is lost, or there is no memory: the other chunks are left out.
StopPublishing ==
  /\ runner.at = "publish"
  /\ runner' = NoRun
  /\ UNCHANGED <<buffer, length, execution, boots, writes, meant, blobs, messages>>

ResetOutput ==
  /\ boots < MaxBoots
  /\ boots' = boots + 1
  /\ buffer' = NoBuffer /\ length' = 0
  /\ runner' = NoRun /\ execution' = 0 /\ meant' = <<>>
  /\ UNCHANGED <<writes, blobs, messages>>

OutputNext ==
  \/ BeginRun \/ RunFails \/ RunReturns
  \/ \E capacity \in 1..BufferSize : InitBuffer(capacity)
  \/ \E n \in 1..MaxWriteSize :
       AppendBytes(n) \/ \E offset \in 0 .. BufferSize - 1 : WriteAt(offset, n)
  \/ PublishChunk \/ StopPublishing \/ ResetOutput

OutputSpec == OutputInit /\ [][OutputNext]_outputVars

\* --------------------------------------------------------------- properties
\* The buffer and what goes out of it keep their types and sizes.
Blob == Seq(0 .. MaxWrites + 1)
OutputTypeOK ==
  /\ buffer \in Blob /\ Len(buffer) <= BufferSize
  /\ length \in 0..Len(buffer)
  /\ runner \in [at : {"idle", "run", "publish"}, chunk : 0..BufferSize]
  /\ execution \in 0..MaxExecutions /\ boots \in 0..MaxBoots
  /\ writes \in 0..MaxWrites
  /\ meant \in Blob
  /\ \A b \in blobs : b.blob \in Blob
  /\ \A m \in messages : m.data \in Blob /\ Len(m.data) \in 1..ChunkSize

\* A part of a blob, and how many there are.
Piece(blob, index) ==
  LET end == (index + 1) * ChunkSize
  IN SubSeq(blob, index * ChunkSize + 1, IF end > Len(blob) THEN Len(blob) ELSE end)
Pieces(blob) == (Len(blob) + ChunkSize - 1) \div ChunkSize

\* While a run writes and publishes, the buffer holds what this run wrote, with
\* zeros where it wrote nothing: no byte of an earlier run or of free memory.
ContentIsMeant == runner # NoRun => SubSeq(buffer, 1, length) = meant

\* Between two resets the executionId is enough to tell blobs apart.
OneBlobEach == \A a, b \in blobs : a.boot = b.boot /\ a.id = b.id => a = b

\* What was published is what was meant, chunk by chunk: each one that goes out
\* is that piece of the only blob of the run it names, whatever was written in
\* other runs and whichever chunks were left out, so that a server that has as
\* many as they say has the blob.
BlobIsOfItsRun ==
  /\ ContentIsMeant /\ OneBlobEach
  /\ \A m \in messages : \E b \in blobs :
       /\ m.boot = b.boot /\ m.id = b.id
       /\ m.data = Piece(b.blob, m.index) /\ m.count = Pieces(b.blob)
===============================================================================
