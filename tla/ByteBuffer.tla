----------------------------- MODULE ByteBuffer -----------------------------
(***************************************************************************)
(* ByteBuffer of libpublic: values are put behind each other in the bytes  *)
(* of a std::vector, and read back from position 0.                        *)
(*                                                                         *)
(* The constructors only reserve memory, so that the vector's size stays 0 *)
(* while m_nCapacity is what was reserved; append writes behind the size   *)
(* and lets the vector resize when m_nCapacity is passed.  Elements that   *)
(* resize adds to the vector are 0, whatever was written there before.     *)
(* Memory that nobody has written holds Junk.                              *)
(*                                                                         *)
(* A value is the sequence of its bytes, the lowest first, as the machine  *)
(* stores it.  A 32-bit value has Half bytes and a 64-bit value twice as   *)
(* many: widths are scaled down.  Of the values of each width the model    *)
(* puts a few; 16-bit values are treated like those of 32 bits.            *)
(***************************************************************************)
EXTENDS Integers, SequencesExt

CONSTANTS
  Capacities,   \* arguments of the constructor and of Resize
  Half,         \* the bytes of a uint32_t
  Junk,
  MaxPuts,      \* bound: values that are put before the buffer is emptied
  MaxEmpties    \* bound: calls of Clear and Resize

\* Sizes are unsigned, and a 32-bit value has more than one byte.
ASSUME BufferAssumption ==
  /\ Half \in Nat /\ Half >= 2
  /\ Capacities \subseteq Nat

VARIABLES
  memory,       \* what the vector's memory holds
  size,         \* m_vecBuffer.size()
  m_nPosition, m_nLimit, m_nCapacity,
  bigEndian,    \* m_nByteOrder
  put,          \* history: the values put since the buffer was empty
  reads,        \* how many were read since SetPosition(0), or -1 before it
  got,          \* the value read last
  lost,         \* history: how what was behind size was lost, if it was:
                \* "no", "grown" or "copied"
  empties       \* calls of Clear and Resize

buffer == <<memory, size, m_nPosition, m_nLimit, m_nCapacity>>
bufferVars == <<buffer, bigEndian, put, reads, got, lost, empties>>

BufferInit ==
  /\ \E n \in Capacities : m_nCapacity = n /\ memory = [i \in 1 .. n |-> Junk]
  /\ size = 0
  /\ m_nPosition = 0
  /\ m_nLimit = 0
  /\ bigEndian = FALSE
  /\ put = <<>>
  /\ reads = -1
  /\ got = <<>>
  /\ lost = "no"
  /\ empties = 0

-----------------------------------------------------------------------------
(* Byte order, on a little-endian machine.                                 *)

Zeros(n) == [i \in 1 .. n |-> 0]

\* htons, htonl and ntohl, which take what fits in 32 bits of their argument.
Swapped(v) ==
  IF Len(v) <= Half THEN Reverse(v)
  ELSE Reverse(SubSeq(v, 1, Half)) \o Zeros(Len(v) - Half)

HostToNet(v) == IF bigEndian THEN Swapped(v) ELSE v

\* Mutant: the order of the bytes is forgotten by the reader.
NetToHostPlain(v) == v

NetToHost(v) == IF bigEndian THEN Swapped(v) ELSE v

-----------------------------------------------------------------------------
(* What std::vector does.                                                  *)

\* The memory of a vector of this size after resize(n).
Resized(n) ==
  [i \in 1 .. Max({n, Len(memory)}) |->
     IF i > size /\ i <= n THEN 0 ELSE memory[i]]

\* bytes are copied over those behind position p.  What a copy of the buffer
\* writes outside its memory is not modelled: it reads back as Junk.
Written(mem, p, bytes) ==
  [i \in DOMAIN mem |->
     IF i - p \in DOMAIN bytes THEN bytes[i - p] ELSE mem[i]]

-----------------------------------------------------------------------------
Empty == m_nLimit = 0

\* A user sets the byte order before anything is put.
SetByteOrder ==
  /\ Empty
  /\ bigEndian' = ~bigEndian
  /\ UNCHANGED <<buffer, put, reads, got, lost, empties>>

\* The bytes are copied behind m_nPosition, which is m_nLimit for a writer.
append(bytes) ==
  LET end == m_nLimit + Len(bytes)
      grows == m_nCapacity < end
  IN
  /\ memory' = Written(IF grows THEN Resized(end) ELSE memory, m_nPosition, bytes)
  /\ size' = IF grows THEN end ELSE size
  /\ m_nCapacity' = IF grows THEN end ELSE m_nCapacity
  /\ lost' = IF grows /\ size < m_nLimit THEN "grown" ELSE lost
  /\ m_nPosition' = m_nPosition + Len(bytes)
  /\ m_nLimit' = end

\* PutUint16, PutUint32, PutUint64, and PutByte for one byte.
Put(v) ==
  /\ reads = -1
  /\ Len(put) < MaxPuts
  /\ append(HostToNet(v))
  /\ put' = Append(put, v)
  /\ UNCHANGED <<bigEndian, reads, got, empties>>

\* SetPosition(0), to read.
Rewind ==
  /\ reads = -1
  /\ m_nPosition' = 0
  /\ reads' = 0
  /\ UNCHANGED <<memory, size, m_nLimit, m_nCapacity, bigEndian, put, got, lost,
                 empties>>

\* GetByte, GetUint16, GetUInt32, GetUInt64 and the signed ones: the next
\* value, with the width it was put with; 0 behind m_nLimit.
Get ==
  /\ reads \in 0 .. Len(put) - 1
  /\ LET len == Len(put[reads + 1]) IN
     IF m_nPosition + len > m_nLimit
     THEN got' = Zeros(len) /\ UNCHANGED m_nPosition
     ELSE /\ got' = NetToHost([i \in 1 .. len |->
                      IF m_nPosition + i \in DOMAIN memory
                      THEN memory[m_nPosition + i] ELSE Junk])
          /\ m_nPosition' = m_nPosition + len
  /\ reads' = reads + 1
  /\ UNCHANGED <<memory, size, m_nLimit, m_nCapacity, bigEndian, put, lost, empties>>

\* What the history says once the buffer is empty again.
Forget ==
  /\ empties < MaxEmpties
  /\ empties' = empties + 1
  /\ put' = <<>>
  /\ reads' = -1
  /\ got' = <<>>
  /\ lost' = "no"

Clear ==
  /\ size' = 0
  /\ m_nPosition' = 0
  /\ m_nLimit' = 0
  /\ m_nCapacity' = 0
  /\ Forget
  /\ UNCHANGED <<memory, bigEndian>>

Resize(n) ==
  /\ memory' = Resized(n)
  /\ size' = n
  /\ m_nPosition' = 0
  /\ m_nLimit' = 0
  /\ m_nCapacity' = n
  /\ Forget
  /\ UNCHANGED bigEndian

\* The copy constructor, whose result replaces the buffer: the copy of the
\* vector has its elements, and no memory behind them.
Copy ==
  /\ reads = -1
  /\ memory' = SubSeq(memory, 1, size)
  /\ lost' = IF size < m_nCapacity THEN "copied" ELSE lost
  /\ UNCHANGED <<size, m_nPosition, m_nLimit, m_nCapacity, bigEndian, put,
                 reads, got, empties>>

\* A byte, a 32-bit value, and 64-bit values that fit in 32 bits or do not.
Samples ==
  LET low == [i \in 1 .. Half |-> i]
  IN {<<7>>, low, low \o Zeros(Half), low \o low}

BufferNext ==
  \/ \E v \in Samples : Put(v)
  \/ \E n \in Capacities : Resize(n)
  \/ SetByteOrder \/ Rewind \/ Get \/ Clear \/ Copy

BufferSpec == BufferInit /\ [][BufferNext]_bufferVars

-----------------------------------------------------------------------------
\* A 64-bit value that htonl cuts.
Cut(v) == bigEndian /\ \E i \in Half + 1 .. Len(v) : v[i] # 0

\* The value that the last Get was to read.
Expected == put[reads]

(* What was put is read back, one value after the other, in either byte    *)
(* order and across growing, clearing and resizing, except for the high    *)
(* half of 64-bit values in big-endian order, and as long as the buffer    *)
(* does not lose what it holds behind the vector's size: when it grows for *)
(* the first time after it was constructed, or is copied before.           *)
RoundTrip ==
  reads > 0 /\ lost = "no" /\ ~Cut(Expected) => got = Expected

(* What the comment at Compact says: a writer sets neither limit nor       *)
(* position.  So whoever only puts values, and sets the position to 0 to   *)
(* read, gets them back in the default byte order, unless it is read from  *)
(* a copy.                                                                 *)
PutsAreKept ==
  reads > 0 /\ ~bigEndian /\ lost # "copied" => got = Expected
=============================================================================
