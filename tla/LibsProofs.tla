----------------------------- MODULE LibsProofs -----------------------------
(***************************************************************************)
(* Proofs about the components that MCLibs puts into one model:            *)
(* ByteBuffer reads back what was put; Sync::RWMutex and tcp::RWLock keep  *)
(* readers and writers apart, for any finite number of threads: their      *)
(* counters are exact, and both implement RWLockSpec; a connection of      *)
(* TcpServer has one owner, for any connections, descriptors, workers and  *)
(* sizes of the pipes.                                                     *)
(***************************************************************************)
EXTENDS MCLibs, FiniteSetTheorems, SequenceTheorems, TLAPS

-----------------------------------------------------------------------------
(* ByteBuffer.  A value is a sequence of at least one byte.                *)

Bytes == Nat \cup {Junk}

LEMMA SampleFacts ==
  ASSUME NEW v \in Samples
  PROVE  v \in Seq(Nat) /\ Len(v) \in Nat /\ Len(v) > 0
<1>1. PICK low : low = [i \in 1 .. Half |-> i]
  OBVIOUS
<1>2. PICK zeros : zeros = Zeros(Half)
  OBVIOUS
<1>3. low \in Seq(Nat) /\ Len(low) = Half /\ zeros \in Seq(Nat) /\ Len(zeros) = Half
  BY <1>1, <1>2, BufferAssumption DEF Zeros
<1>4. v = <<7>> \/ v = low \/ v = low \o zeros \/ v = low \o low
  BY <1>1, <1>2 DEF Samples
<1>5. /\ low \o zeros \in Seq(Nat) /\ Len(low \o zeros) = Half + Half
      /\ low \o low \in Seq(Nat) /\ Len(low \o low) = Half + Half
  <2>1. low \o zeros \in Seq(Nat) /\ Len(low \o zeros) = Half + Half
    BY <1>3, ConcatProperties
  <2>2. low \o low \in Seq(Nat) /\ Len(low \o low) = Half + Half
    BY <1>3, ConcatProperties
  <2> QED BY <2>1, <2>2
<1>6. PICK one : one = <<7>>
  OBVIOUS
<1>7. one \in Seq(Nat) /\ Len(one) = 1
  BY <1>6
<1>8. Half \in Nat /\ Half > 0 /\ Half + Half \in Nat /\ Half + Half > 0
  BY BufferAssumption
<1>9. PICK a : a = low \o zeros
  OBVIOUS
<1>10. PICK b : b = low \o low
  OBVIOUS
<1>11. v \in {one, low, a, b}
  BY <1>4, <1>6, <1>9, <1>10
<1>12. a \in Seq(Nat) /\ b \in Seq(Nat) /\ Len(a) = Half + Half /\ Len(b) = Half + Half
  BY <1>5, <1>9, <1>10
<1>13. CASE v = one
  BY <1>7, <1>13
<1>14. CASE v = low
  BY <1>3, <1>8, <1>14
<1>15. CASE v = a
  BY <1>8, <1>12, <1>15
<1>16. CASE v = b
  BY <1>8, <1>12, <1>16
<1> QED BY <1>11, <1>13, <1>14, <1>15, <1>16

\* Byte i of the swapped value: the lowest Half bytes are reversed, the others
\* are 0.
LEMMA SwappedFacts ==
  ASSUME NEW v \in Seq(Nat), Len(v) > 0
  PROVE  /\ Swapped(v) \in Seq(Nat) /\ Len(Swapped(v)) = Len(v)
         /\ \A i \in 1 .. Len(v) :
              Swapped(v)[i] =
                IF Len(v) <= Half THEN v[Len(v) - i + 1]
                ELSE IF i <= Half THEN v[Half - i + 1] ELSE 0
<1> DEFINE n == Len(v)
<1>1. n \in Nat /\ Half \in Nat /\ DOMAIN v = 1 .. n /\ \A i \in 1 .. n : v[i] \in Nat
  BY BufferAssumption
<1>2. CASE n <= Half
  <2>1. Swapped(v) = [i \in 1 .. n |-> v[n - i + 1]]
    BY <1>1, <1>2 DEF Swapped, Reverse
  <2>2. \A i \in 1 .. n : v[n - i + 1] \in Nat
    BY <1>1
  <2> QED BY <1>1, <1>2, <2>1, <2>2
<1>3. CASE n > Half
  <2>1. PICK low : low = SubSeq(v, 1, Half)
    OBVIOUS
  <2>2. low \in Seq(Nat) /\ Len(low) = Half /\ \A i \in 1 .. Half : low[i] = v[i]
    BY <1>1, <1>3, <2>1, SubSeqProperties
  <2>3. PICK r : r = Reverse(low)
    OBVIOUS
  <2>4. r = [i \in 1 .. Half |-> low[Half - i + 1]]
    BY <2>2, <2>3 DEF Reverse
  <2>5. \A i \in 1 .. Half : Half - i + 1 \in 1 .. Half
    BY <1>1
  <2>6. r \in Seq(Nat) /\ Len(r) = Half /\ \A i \in 1 .. Half : r[i] = v[Half - i + 1]
    BY <1>1, <2>2, <2>4, <2>5
  <2>7. PICK z : z = Zeros(n - Half)
    OBVIOUS
  <2>8. z \in Seq(Nat) /\ Len(z) = n - Half /\ \A i \in 1 .. n - Half : z[i] = 0
    BY <1>1, <1>3, <2>7 DEF Zeros
  <2>9. Swapped(v) = r \o z
    BY <1>1, <1>3, <2>1, <2>3, <2>7 DEF Swapped
  <2>10. PICK s : s = r \o z
    OBVIOUS
  <2>11. /\ s \in Seq(Nat) /\ Len(s) = n
         /\ \A i \in 1 .. n : s[i] = IF i <= Half THEN r[i] ELSE z[i - Half]
    <3>1. Half + (n - Half) = n
      BY <1>1
    <3>2. /\ s \in Seq(Nat) /\ Len(s) = Len(r) + Len(z)
          /\ \A i \in 1 .. Len(r) + Len(z) : s[i] = IF i <= Len(r) THEN r[i] ELSE z[i - Len(r)]
      BY <2>6, <2>8, <2>10, ConcatProperties
    <3> QED BY <2>6, <2>8, <3>1, <3>2
  <2>12. \A i \in 1 .. n : s[i] = IF i <= Half THEN v[Half - i + 1] ELSE 0
    <3> SUFFICES ASSUME NEW i \in 1 .. n PROVE s[i] = IF i <= Half THEN v[Half - i + 1] ELSE 0
      OBVIOUS
    <3>1. CASE i <= Half
      <4>1. i \in 1 .. Half
        BY <1>1, <3>1
      <4> QED BY <2>6, <2>11, <3>1, <4>1
    <3>2. CASE ~(i <= Half)
      <4>1. i - Half \in 1 .. n - Half
        BY <1>1, <3>2
      <4> QED BY <2>8, <2>11, <3>2, <4>1
    <3> QED BY <3>1, <3>2
  <2>13. s = Swapped(v) /\ ~(n <= Half)
    BY <1>1, <1>3, <2>9, <2>10
  <2>14. \A i \in 1 .. n : s[i] = IF n <= Half THEN v[n - i + 1]
                                  ELSE IF i <= Half THEN v[Half - i + 1] ELSE 0
    BY <2>12, <2>13
  <2> QED BY <2>11, <2>13, <2>14
<1> QED BY <1>1, <1>2, <1>3

\* Swapping twice gives the value back, unless it was cut.
LEMMA SwappedTwice ==
  ASSUME NEW v \in Seq(Nat), Len(v) > 0, \A i \in Half + 1 .. Len(v) : v[i] = 0
  PROVE  Swapped(Swapped(v)) = v
<1> DEFINE n == Len(v)
<1>1. PICK w : w = Swapped(v)
  OBVIOUS
<1>2. /\ w \in Seq(Nat) /\ Len(w) = n /\ n \in Nat /\ Half \in Nat
      /\ \A i \in 1 .. n : w[i] = IF n <= Half THEN v[n - i + 1]
                                  ELSE IF i <= Half THEN v[Half - i + 1] ELSE 0
  <2>1. n \in Nat /\ Half \in Nat
    BY BufferAssumption
  <2> QED BY <1>1, <2>1, SwappedFacts
<1>3. PICK x : x = Swapped(w)
  OBVIOUS
<1>4. /\ x \in Seq(Nat) /\ Len(x) = n
      /\ \A i \in 1 .. n : x[i] = IF n <= Half THEN w[n - i + 1]
                                  ELSE IF i <= Half THEN w[Half - i + 1] ELSE 0
  BY <1>2, <1>3, SwappedFacts
<1>5. ASSUME NEW i \in 1 .. n PROVE x[i] = v[i]
  <2>1. CASE n <= Half
    <3>1. n - i + 1 \in 1 .. n /\ n - (n - i + 1) + 1 = i
      BY <1>2
    <3> QED BY <1>2, <1>4, <2>1, <3>1
  <2>2. CASE n > Half /\ i <= Half
    <3>1. Half - i + 1 \in 1 .. n /\ Half - i + 1 <= Half /\ Half - (Half - i + 1) + 1 = i
          /\ ~(n <= Half)
      BY <1>2, <2>2
    <3> QED BY <1>2, <1>4, <2>2, <3>1
  <2>3. CASE n > Half /\ i > Half
    <3>1. i \in Half + 1 .. n /\ ~(n <= Half) /\ ~(i <= Half)
      BY <1>2, <2>3
    <3> QED BY <1>4, <3>1
  <2> QED BY <1>2, <2>1, <2>2, <2>3
<1>6. x = v
  BY <1>2, <1>4, <1>5, SeqEqual
<1> QED BY <1>1, <1>3, <1>6

LEMMA NetFacts ==
  ASSUME NEW v \in Seq(Nat), Len(v) > 0, bigEndian \in BOOLEAN
  PROVE  /\ HostToNet(v) \in Seq(Nat) /\ Len(HostToNet(v)) = Len(v)
         /\ ~Cut(v) => NetToHost(HostToNet(v)) = v
<1>1. CASE bigEndian
  <2>1. HostToNet(v) = Swapped(v) /\ NetToHost(HostToNet(v)) = Swapped(Swapped(v))
    BY <1>1 DEF HostToNet, NetToHost
  <2>2. ~Cut(v) => \A i \in Half + 1 .. Len(v) : v[i] = 0
    BY <1>1 DEF Cut
  <2> QED BY <2>1, <2>2, SwappedFacts, SwappedTwice
<1>2. CASE ~bigEndian
  BY <1>2 DEF HostToNet, NetToHost
<1> QED BY <1>1, <1>2

(* The inductive invariant.  There are places in the buffer, one behind    *)
(* the other, where the values put are: a reader that has read some of     *)
(* them is at the place of the next one, and, as long as nothing was lost, *)
(* the bytes there are those of the value.  They are in the vector's       *)
(* memory, though not always among its elements.                           *)

\* The bytes of the value v in the byte order that is set.
Net(big, v) == IF big THEN Swapped(v) ELSE v

Laid(starts) ==
  /\ starts[1] = 0
  /\ starts[Len(put) + 1] = m_nLimit
  /\ \A k \in 1 .. Len(put) : starts[k + 1] = starts[k] + Len(put[k])
  /\ reads # -1 => m_nPosition = starts[reads + 1]

Stored(starts) ==
  \A k \in 1 .. Len(put) : \A i \in 1 .. Len(put[k]) :
    memory[starts[k] + i] = Net(bigEndian, put[k])[i]

BufferType ==
  /\ memory \in Seq(Bytes)
  /\ size \in 0 .. Len(memory)
  /\ m_nCapacity \in Nat
  /\ m_nLimit \in 0 .. m_nCapacity
  /\ m_nPosition \in Nat
  /\ bigEndian \in BOOLEAN
  /\ put \in Seq(Samples)
  /\ reads \in -1 .. Len(put)
  /\ reads = -1 => m_nPosition = m_nLimit
  /\ lost = "no" => m_nCapacity <= Len(memory)

BufferInv ==
  /\ BufferType
  /\ \E starts \in [1 .. Len(put) + 1 -> 0 .. m_nLimit] :
       Laid(starts) /\ (lost = "no" => Stored(starts))
  /\ RoundTrip

LEMMA IsNet == \A v : HostToNet(v) = Net(bigEndian, v)
  BY DEF HostToNet, Net

LEMMA MaxOfTwo ==
  ASSUME NEW a \in Nat, NEW b \in Nat
  PROVE  Max({a, b}) \in {a, b} /\ Max({a, b}) >= a /\ Max({a, b}) >= b
<1>1. \E x \in {a, b} : \A y \in {a, b} : x >= y
  OBVIOUS
<1> QED BY <1>1 DEF Max

\* What resize does to the memory.
LEMMA ResizedFacts ==
  ASSUME memory \in Seq(Bytes), size \in 0 .. Len(memory), NEW n \in Nat
  PROVE  /\ Resized(n) \in Seq(Bytes)
         /\ n <= Len(Resized(n)) /\ Len(memory) <= Len(Resized(n))
         /\ \A i \in 1 .. size : Resized(n)[i] = memory[i]
<1>1. PICK m : m = Max({n, Len(memory)})
  OBVIOUS
<1>2. Len(memory) \in Nat /\ \A i \in 1 .. Len(memory) : memory[i] \in Bytes
  OBVIOUS
<1>3. m \in {n, Len(memory)} /\ m \in Nat /\ n <= m /\ Len(memory) <= m
  BY <1>1, <1>2, MaxOfTwo
<1>4. Resized(n) = [i \in 1 .. m |-> IF i > size /\ i <= n THEN 0 ELSE memory[i]]
  BY <1>1 DEF Resized
<1>5. 0 \in Bytes
  BY DEF Bytes
<1>6. \A i \in 1 .. m : (IF i > size /\ i <= n THEN 0 ELSE memory[i]) \in Bytes
  <2> SUFFICES ASSUME NEW i \in 1 .. m, ~(i > size /\ i <= n) PROVE i \in 1 .. Len(memory)
    BY <1>2, <1>5
  <2> QED BY <1>2, <1>3
<1>7. Resized(n) \in Seq(Bytes) /\ Len(Resized(n)) = m
  BY <1>3, <1>4, <1>6
<1>8. \A i \in 1 .. size : Resized(n)[i] = memory[i]
  BY <1>2, <1>3, <1>4
<1> QED BY <1>3, <1>7, <1>8

LEMMA WrittenType ==
  ASSUME NEW mem \in Seq(Bytes), NEW p \in Nat, NEW bytes \in Seq(Nat)
  PROVE  Written(mem, p, bytes) \in Seq(Bytes) /\ Len(Written(mem, p, bytes)) = Len(mem)
<1>1. /\ Len(mem) \in Nat /\ DOMAIN mem = 1 .. Len(mem) /\ \A i \in 1 .. Len(mem) : mem[i] \in Bytes
      /\ Len(bytes) \in Nat /\ DOMAIN bytes = 1 .. Len(bytes)
      /\ \A j \in 1 .. Len(bytes) : bytes[j] \in Nat
  OBVIOUS
<1>2. Written(mem, p, bytes) =
        [i \in 1 .. Len(mem) |-> IF i - p \in 1 .. Len(bytes) THEN bytes[i - p] ELSE mem[i]]
  BY <1>1 DEF Written
<1>3. \A i \in 1 .. Len(mem) :
        (IF i - p \in 1 .. Len(bytes) THEN bytes[i - p] ELSE mem[i]) \in Bytes
  BY <1>1 DEF Bytes
<1> QED BY <1>1, <1>2, <1>3

LEMMA WrittenAt ==
  ASSUME NEW mem \in Seq(Bytes), NEW p \in Nat, NEW bytes \in Seq(Nat)
  PROVE  /\ \A i \in DOMAIN mem : i <= p => Written(mem, p, bytes)[i] = mem[i]
         /\ \A j \in DOMAIN bytes : p + j \in DOMAIN mem => Written(mem, p, bytes)[p + j] = bytes[j]
<1>1. /\ DOMAIN mem = 1 .. Len(mem) /\ Len(mem) \in Nat
      /\ Len(bytes) \in Nat /\ DOMAIN bytes = 1 .. Len(bytes)
  OBVIOUS
<1>2. \A i \in DOMAIN mem : i <= p => Written(mem, p, bytes)[i] = mem[i]
  BY <1>1 DEF Written
<1>3. ASSUME NEW j \in DOMAIN bytes, p + j \in DOMAIN mem
      PROVE  Written(mem, p, bytes)[p + j] = bytes[j]
  <2>1. p + j - p = j
    BY <1>1
  <2> QED BY <1>3, <2>1 DEF Written
<1> QED BY <1>2, <1>3

\* append leaves what was put where it is, and writes the bytes behind it.
LEMMA PutMemory ==
  ASSUME BufferInv, NEW v \in Samples, Put(v)
  PROVE  /\ memory' \in Seq(Bytes) /\ size' \in 0 .. Len(memory')
         /\ m_nLimit' = m_nLimit + Len(v) /\ m_nPosition' = m_nLimit'
         /\ m_nCapacity' \in Nat /\ m_nLimit' <= m_nCapacity'
         /\ lost' = "no" =>
              /\ lost = "no" /\ m_nCapacity' <= Len(memory')
              /\ \A i \in 1 .. m_nLimit : memory'[i] = memory[i]
              /\ \A j \in 1 .. Len(v) : memory'[m_nLimit + j] = Net(bigEndian, v)[j]
<1>1. /\ memory \in Seq(Bytes) /\ size \in 0 .. Len(memory) /\ bigEndian \in BOOLEAN
      /\ m_nCapacity \in Nat /\ m_nLimit \in Nat /\ m_nLimit <= m_nCapacity
      /\ m_nPosition = m_nLimit
      /\ lost = "no" => m_nCapacity <= Len(memory)
      /\ Len(memory) \in Nat
  BY DEF BufferInv, BufferType, Put
<1>2. PICK bytes : bytes = Net(bigEndian, v)
  OBVIOUS
<1>3. bytes \in Seq(Nat) /\ Len(bytes) = Len(v) /\ Len(v) \in Nat
  BY <1>1, <1>2, IsNet, NetFacts, SampleFacts
<1>4. PICK end \in Nat : end = m_nLimit + Len(v)
  BY <1>1, <1>3
<1>5. PICK grows \in BOOLEAN : grows <=> m_nCapacity < end
  <2>1. (m_nCapacity < end) \in BOOLEAN
    OBVIOUS
  <2> QED BY <2>1
<1>6. PICK mem : mem = IF grows THEN Resized(end) ELSE memory
  OBVIOUS
<1>7. /\ memory' = Written(mem, m_nLimit, bytes)
      /\ size' = IF grows THEN end ELSE size
      /\ m_nCapacity' = IF grows THEN end ELSE m_nCapacity
      /\ lost' = IF grows /\ size < m_nLimit THEN "grown" ELSE lost
      /\ m_nPosition' = end /\ m_nLimit' = end
  BY <1>1, <1>2, <1>3, <1>4, <1>5, <1>6, IsNet DEF Put, append
<1>8. /\ mem \in Seq(Bytes) /\ Len(memory) <= Len(mem)
      /\ grows => end <= Len(mem)
      /\ ~grows \/ size >= m_nLimit => \A i \in 1 .. m_nLimit : i <= Len(memory) => mem[i] = memory[i]
  <2>1. CASE grows
    <3>1. /\ mem \in Seq(Bytes) /\ end <= Len(mem) /\ Len(memory) <= Len(mem)
          /\ \A i \in 1 .. size : mem[i] = memory[i]
      BY <1>1, <1>6, <2>1, ResizedFacts
    <3> QED BY <1>1, <2>1, <3>1
  <2>2. CASE ~grows
    BY <1>1, <1>6, <2>2
  <2> QED BY <2>1, <2>2
<1>9. PICK out : out = memory'
  OBVIOUS
<1>10. /\ out \in Seq(Bytes) /\ Len(out) = Len(mem) /\ Len(mem) \in Nat
       /\ \A i \in 1 .. m_nLimit : i <= Len(mem) => out[i] = mem[i]
       /\ \A j \in 1 .. Len(v) : m_nLimit + j <= Len(mem) => out[m_nLimit + j] = bytes[j]
  <2>1. PICK p \in Nat : p = m_nLimit
    BY <1>1
  <2>2. out = Written(mem, p, bytes)
    BY <1>7, <1>9, <2>1
  <2>3. mem \in Seq(Bytes) /\ Len(mem) \in Nat
    BY <1>8
  <2>4. /\ out \in Seq(Bytes) /\ Len(out) = Len(mem)
        /\ \A i \in 1 .. p : i <= Len(mem) => out[i] = mem[i]
        /\ \A j \in 1 .. Len(bytes) : p + j <= Len(mem) => out[p + j] = bytes[j]
    <3>1. bytes \in Seq(Nat)
      BY <1>3
    <3>2. mem \in Seq(Bytes)
      BY <1>8
    <3>3. out \in Seq(Bytes) /\ Len(out) = Len(mem)
      BY <2>2, <3>1, <3>2, WrittenType
    <3>4. \A i \in DOMAIN mem : i <= p => out[i] = mem[i]
      BY <2>2, <3>1, <3>2, WrittenAt
    <3>5. \A j \in DOMAIN bytes : p + j \in DOMAIN mem => out[p + j] = bytes[j]
      BY <2>2, <3>1, <3>2, WrittenAt
    <3>6. /\ DOMAIN mem = 1 .. Len(mem) /\ Len(mem) \in Nat
          /\ Len(bytes) \in Nat /\ DOMAIN bytes = 1 .. Len(bytes)
      BY <3>1, <3>2
    <3>7. \A i \in 1 .. p : i <= Len(mem) => i \in DOMAIN mem /\ i <= p
      BY <3>6
    <3>8. \A j \in 1 .. Len(bytes) : p + j <= Len(mem) => j \in DOMAIN bytes /\ p + j \in DOMAIN mem
      BY <3>6
    <3>9. \A i \in 1 .. p : i <= Len(mem) => out[i] = mem[i]
      BY <3>4, <3>7
    <3>10. \A j \in 1 .. Len(bytes) : p + j <= Len(mem) => out[p + j] = bytes[j]
      BY <3>5, <3>8
    <3> QED BY <3>3, <3>9, <3>10
  <2> QED BY <1>3, <2>1, <2>3, <2>4
<1>11. size' \in 0 .. Len(out)
  <2>1. CASE grows
    BY <1>7, <1>8, <1>10, <2>1
  <2>2. CASE ~grows
    BY <1>1, <1>7, <1>8, <1>10, <2>2
  <2> QED BY <2>1, <2>2
<1>12. m_nCapacity' \in Nat /\ end <= m_nCapacity'
  BY <1>1, <1>5, <1>7
<1>13. ASSUME lost' = "no"
       PROVE  /\ lost = "no" /\ m_nCapacity' <= Len(out)
              /\ \A i \in 1 .. m_nLimit : out[i] = memory[i]
              /\ \A j \in 1 .. Len(v) : out[m_nLimit + j] = bytes[j]
  <2>1. lost = "no" /\ ~(grows /\ size < m_nLimit)
    BY <1>7, <1>13
  <2>2. ~grows \/ size >= m_nLimit
    BY <1>1, <2>1
  <2>3. m_nCapacity <= Len(memory)
    BY <1>1, <2>1
  <2>4. m_nCapacity' <= Len(out)
    <3>1. CASE grows
      BY <1>7, <1>8, <1>10, <3>1
    <3>2. CASE ~grows
      BY <1>1, <1>7, <1>8, <1>10, <2>3, <3>2
    <3> QED BY <3>1, <3>2
  <2>5. \A i \in 1 .. m_nLimit : out[i] = memory[i]
    <3>1. \A i \in 1 .. m_nLimit : i <= Len(memory) /\ i <= Len(mem)
      BY <1>1, <1>8, <1>10, <2>3
    <3> QED BY <1>8, <1>10, <2>2, <3>1
  <2>6. \A j \in 1 .. Len(v) : m_nLimit + j <= Len(mem)
    BY <1>1, <1>3, <1>4, <1>10, <1>12, <2>4
  <2> QED BY <1>10, <2>1, <2>4, <2>5, <2>6
<1> QED BY <1>2, <1>4, <1>7, <1>9, <1>10, <1>11, <1>12, <1>13

LEMMA PutInv ==
  ASSUME BufferInv, NEW v \in Samples, Put(v)
  PROVE  BufferInv'
<1>1. /\ memory' \in Seq(Bytes) /\ size' \in 0 .. Len(memory')
      /\ m_nLimit' = m_nLimit + Len(v) /\ m_nPosition' = m_nLimit'
      /\ m_nCapacity' \in Nat /\ m_nLimit' <= m_nCapacity'
      /\ lost' = "no" =>
           /\ lost = "no" /\ m_nCapacity' <= Len(memory')
           /\ \A i \in 1 .. m_nLimit : memory'[i] = memory[i]
           /\ \A j \in 1 .. Len(v) : memory'[m_nLimit + j] = Net(bigEndian, v)[j]
  BY PutMemory
<1>2. Len(v) \in Nat /\ Len(v) > 0 /\ m_nLimit \in Nat /\ put \in Seq(Samples)
      /\ bigEndian \in BOOLEAN
  BY SampleFacts DEF BufferInv, BufferType
<1>3. PICK n \in Nat : n = Len(put)
  BY <1>2
<1>4. /\ put' \in Seq(Samples) /\ Len(put') = n + 1 /\ put'[n + 1] = v
      /\ \A k \in 1 .. n : put'[k] = put[k]
  BY <1>2, <1>3 DEF Put
<1>5. reads = -1 /\ reads' = -1 /\ UNCHANGED bigEndian
  BY DEF Put
<1>6. BufferType'
  <2>1. m_nLimit' \in 0 .. m_nCapacity' /\ m_nPosition' \in Nat
    BY <1>1, <1>2
  <2> QED BY <1>1, <1>2, <1>4, <1>5, <2>1 DEF BufferType
<1>7. PICK starts \in [1 .. n + 1 -> 0 .. m_nLimit] : Laid(starts) /\ (lost = "no" => Stored(starts))
  BY <1>3 DEF BufferInv
<1>8. PICK more : more = [k \in 1 .. n + 2 |-> IF k <= n + 1 THEN starts[k] ELSE m_nLimit']
  OBVIOUS
<1>9. /\ \A k \in 1 .. n + 1 : more[k] = starts[k]
      /\ more[n + 2] = m_nLimit'
  BY <1>3, <1>8
<1>10. more \in [1 .. Len(put') + 1 -> 0 .. m_nLimit']
  <2>1. \A k \in 1 .. n + 1 : starts[k] \in 0 .. m_nLimit'
    BY <1>1, <1>2, <1>7
  <2>2. m_nLimit' \in 0 .. m_nLimit'
    BY <1>1, <1>2
  <2>3. \A k \in 1 .. n + 2 : (IF k <= n + 1 THEN starts[k] ELSE m_nLimit') \in 0 .. m_nLimit'
    BY <1>3, <2>1, <2>2
  <2>4. Len(put') + 1 = n + 2
    BY <1>3, <1>4
  <2> QED BY <1>8, <2>3, <2>4
<1>11. Laid(more)'
  <2>1. starts[1] = 0 /\ starts[n + 1] = m_nLimit
        /\ \A k \in 1 .. n : starts[k + 1] = starts[k] + Len(put[k])
    BY <1>3, <1>7 DEF Laid
  <2>2. more[1] = 0
    BY <1>3, <1>9, <2>1
  <2>3. more[Len(put') + 1] = m_nLimit'
    <3>1. Len(put') + 1 = n + 2
      BY <1>3, <1>4
    <3> QED BY <1>9, <3>1
  <2>4. ASSUME NEW k \in 1 .. Len(put')
        PROVE  more[k + 1] = more[k] + Len(put'[k])
    <3>1. CASE k \in 1 .. n
      <4>1. k \in 1 .. n + 1 /\ k + 1 \in 1 .. n + 1
        BY <1>3, <3>1
      <4> QED BY <1>4, <1>9, <2>1, <3>1, <4>1
    <3>2. CASE k = n + 1
      <4>1. k \in 1 .. n + 1 /\ k + 1 = n + 2
        BY <1>3, <3>2
      <4>2. more[k] = m_nLimit /\ more[k + 1] = m_nLimit' /\ put'[k] = v
        BY <1>4, <1>9, <2>1, <3>2, <4>1
      <4> QED BY <1>1, <4>2
    <3> QED BY <1>3, <1>4, <3>1, <3>2
  <2> QED BY <1>5, <2>2, <2>3, <2>4 DEF Laid
<1>12. lost' = "no" => Stored(more)'
  <2> SUFFICES ASSUME lost' = "no", NEW k \in 1 .. Len(put'), NEW i \in 1 .. Len(put'[k])
               PROVE  memory'[more[k] + i] = Net(bigEndian, put'[k])[i]
    BY <1>5 DEF Stored
  <2>1. CASE k \in 1 .. n
    <3>1. k \in 1 .. n + 1 /\ k + 1 \in 1 .. n + 1 /\ put'[k] = put[k] /\ more[k] = starts[k]
      BY <1>3, <1>4, <1>9, <2>1
    <3>2. starts[k + 1] = starts[k] + Len(put[k])
      BY <1>3, <1>7, <2>1 DEF Laid
    <3>3. starts[k] \in 0 .. m_nLimit /\ starts[k + 1] \in 0 .. m_nLimit
      BY <1>7, <3>1
    <3>4. put[k] \in Samples
      BY <1>2, <1>3, <2>1
    <3>5. Len(put[k]) \in Nat /\ i \in 1 .. Len(put[k])
      BY <3>1, <3>4, SampleFacts
    <3>6. starts[k] + i \in 1 .. m_nLimit
      <4>1. PICK x \in Nat : x = starts[k]
        BY <1>2, <3>3
      <4>2. PICK l \in Nat : l = Len(put[k])
        BY <3>5
      <4>3. x + l <= m_nLimit /\ i \in 1 .. l
        BY <1>2, <3>2, <3>3, <3>5, <4>1, <4>2
      <4>4. i \in Nat /\ i > 0 /\ i <= l
        BY <4>3
      <4>5. x + i >= 1 /\ x + i <= m_nLimit /\ x + i \in Int
        BY <1>2, <4>3, <4>4
      <4> QED BY <1>2, <4>1, <4>5
    <3>7. memory[starts[k] + i] = Net(bigEndian, put[k])[i]
      BY <1>1, <1>3, <1>7, <2>1, <3>5 DEF Stored
    <3> QED BY <1>1, <3>1, <3>6, <3>7
  <2>2. CASE k = n + 1
    <3>1. more[k] = m_nLimit /\ put'[k] = v
      <4>1. n + 1 \in 1 .. n + 1
        BY <1>3
      <4> QED BY <1>3, <1>4, <1>7, <1>9, <2>2, <4>1 DEF Laid
    <3> QED BY <1>1, <3>1
  <2> QED BY <1>3, <1>4, <2>1, <2>2
<1>13. RoundTrip'
  BY <1>5 DEF RoundTrip
<1>14. \E s \in [1 .. Len(put') + 1 -> 0 .. m_nLimit'] : Laid(s)' /\ (lost' = "no" => Stored(s)')
  BY <1>10, <1>11, <1>12
<1> QED BY <1>6, <1>13, <1>14 DEF BufferInv

\* A buffer in which nothing was put.
LEMMA EmptyBufferInv ==
  ASSUME memory \in Seq(Bytes), size \in 0 .. Len(memory), m_nCapacity \in Nat,
         m_nCapacity <= Len(memory), m_nLimit = 0, m_nPosition = 0,
         bigEndian \in BOOLEAN, put = <<>>, reads = -1
  PROVE  BufferInv
<1>1. Len(put) = 0 /\ put \in Seq(Samples) /\ \A k \in 1 .. Len(put) : FALSE
  OBVIOUS
<1>2. PICK starts : starts = [k \in 1 .. 1 |-> 0]
  OBVIOUS
<1>3. starts \in [1 .. Len(put) + 1 -> 0 .. m_nLimit] /\ Laid(starts) /\ Stored(starts)
  <2>1. Len(put) + 1 = 1 /\ starts[1] = 0
    BY <1>1, <1>2
  <2>2. starts \in [1 .. Len(put) + 1 -> 0 .. m_nLimit]
    BY <1>2, <2>1
  <2> QED BY <1>1, <2>1, <2>2 DEF Laid, Stored
<1>4. BufferType
  BY <1>1 DEF BufferType
<1>5. RoundTrip
  BY DEF RoundTrip
<1> QED BY <1>3, <1>4, <1>5 DEF BufferInv

LEMMA EmptyBufferInvPrimed ==
  ASSUME memory' \in Seq(Bytes), size' \in 0 .. Len(memory'), m_nCapacity' \in Nat,
         m_nCapacity' <= Len(memory'), m_nLimit' = 0, m_nPosition' = 0,
         bigEndian' \in BOOLEAN, put' = <<>>, reads' = -1
  PROVE  BufferInv'
<1>1. Len(put') = 0 /\ put' \in Seq(Samples) /\ \A k \in 1 .. Len(put') : FALSE
  OBVIOUS
<1>2. PICK starts : starts = [k \in 1 .. 1 |-> 0]
  OBVIOUS
<1>3. starts \in [1 .. Len(put') + 1 -> 0 .. m_nLimit'] /\ Laid(starts)' /\ Stored(starts)'
  <2>1. Len(put') + 1 = 1 /\ starts[1] = 0
    BY <1>1, <1>2
  <2>2. starts \in [1 .. Len(put') + 1 -> 0 .. m_nLimit']
    BY <1>2, <2>1
  <2> QED BY <1>1, <2>1, <2>2 DEF Laid, Stored
<1>4. BufferType'
  BY <1>1 DEF BufferType
<1>5. RoundTrip'
  BY DEF RoundTrip
<1> QED BY <1>3, <1>4, <1>5 DEF BufferInv

LEMMA BufferInvInit == BufferInit => BufferInv
<1> SUFFICES ASSUME BufferInit PROVE BufferInv
  OBVIOUS
<1>1. PICK n \in Capacities : m_nCapacity = n /\ memory = [i \in 1 .. n |-> Junk]
  BY DEF BufferInit
<1>2. n \in Nat /\ Junk \in Bytes
  BY BufferAssumption DEF Bytes
<1>3. memory \in Seq(Bytes) /\ Len(memory) = n
  BY <1>1, <1>2
<1>4. /\ size = 0 /\ m_nLimit = 0 /\ m_nPosition = 0 /\ bigEndian = FALSE
      /\ put = <<>> /\ reads = -1
  BY DEF BufferInit
<1>5. size \in 0 .. Len(memory) /\ m_nCapacity \in Nat /\ m_nCapacity <= Len(memory)
  <2>1. m_nCapacity = n /\ Len(memory) = n /\ size = 0 /\ n \in Nat
    BY <1>1, <1>2, <1>3, <1>4
  <2> QED BY <2>1
<1>6. bigEndian \in BOOLEAN
  BY <1>4
<1> QED BY <1>3, <1>4, <1>5, <1>6, EmptyBufferInv

LEMMA ClearInv ==
  ASSUME BufferInv, Clear
  PROVE  BufferInv'
<1>1. memory \in Seq(Bytes) /\ Len(memory) \in Nat /\ bigEndian \in BOOLEAN
  BY DEF BufferInv, BufferType
<1> QED BY <1>1, EmptyBufferInvPrimed DEF Clear, Forget

LEMMA ResizeBufferInv ==
  ASSUME BufferInv, NEW n \in Capacities, Resize(n)
  PROVE  BufferInv'
<1>1. memory \in Seq(Bytes) /\ size \in 0 .. Len(memory) /\ bigEndian \in BOOLEAN /\ n \in Nat
  BY BufferAssumption DEF BufferInv, BufferType
<1>2. memory' \in Seq(Bytes) /\ n <= Len(memory') /\ Len(memory') \in Nat
  BY <1>1, ResizedFacts DEF Resize
<1>3. /\ size' = n /\ m_nCapacity' = n /\ m_nLimit' = 0 /\ m_nPosition' = 0
      /\ bigEndian' = bigEndian /\ put' = <<>> /\ reads' = -1
  BY DEF Resize, Forget
<1>4. size' \in 0 .. Len(memory') /\ m_nCapacity' \in Nat /\ m_nCapacity' <= Len(memory')
  BY <1>1, <1>2, <1>3
<1> QED BY <1>1, <1>2, <1>3, <1>4, EmptyBufferInvPrimed

\* The values put do not move, nor does what the buffer holds of them.
LEMMA SameLayout ==
  ASSUME BufferInv, UNCHANGED <<put, m_nLimit>>,
         put = <<>> \/ UNCHANGED bigEndian,
         lost' = "no" => lost = "no" /\ \A i \in 1 .. m_nLimit : memory'[i] = memory[i],
         reads' # -1 =>
           \A starts \in [1 .. Len(put) + 1 -> 0 .. m_nLimit] :
             Laid(starts) => m_nPosition' = starts[reads' + 1]
  PROVE  \E starts \in [1 .. Len(put') + 1 -> 0 .. m_nLimit'] :
           Laid(starts)' /\ (lost' = "no" => Stored(starts)')
<1>1. PICK starts \in [1 .. Len(put) + 1 -> 0 .. m_nLimit] :
        Laid(starts) /\ (lost = "no" => Stored(starts))
  BY DEF BufferInv
<1>2. Laid(starts)'
  BY <1>1 DEF Laid
<1>3. put \in Seq(Samples) /\ Len(put) \in Nat /\ m_nLimit \in Nat
  BY DEF BufferInv, BufferType
<1>4. lost' = "no" => Stored(starts)'
  <2> SUFFICES ASSUME lost' = "no", NEW k \in 1 .. Len(put), NEW i \in 1 .. Len(put[k])
               PROVE  memory'[starts[k] + i] = Net(bigEndian', put[k])[i]
    BY DEF Stored
  <2>1. put # <<>>
    BY <1>3
  <2>2. memory[starts[k] + i] = Net(bigEndian, put[k])[i]
    BY <1>1 DEF Stored
  <2>3. starts[k + 1] = starts[k] + Len(put[k])
    BY <1>1 DEF Laid
  <2>4. starts[k] \in 0 .. m_nLimit /\ starts[k + 1] \in 0 .. m_nLimit
    BY <1>1, <1>3
  <2>5. put[k] \in Samples
    BY <1>3
  <2>6. PICK l \in Nat : l = Len(put[k])
    BY <2>5, SampleFacts
  <2>7. PICK x \in Nat : x = starts[k]
    BY <1>3, <2>4
  <2>8. x + l <= m_nLimit
    BY <1>3, <2>3, <2>4, <2>6, <2>7
  <2>9. i \in Nat /\ i > 0 /\ i <= l
    BY <2>6
  <2>10. x + i \in 1 .. m_nLimit
    BY <1>3, <2>8, <2>9
  <2>11. memory'[x + i] = memory[x + i]
    BY <2>10
  <2> QED BY <2>1, <2>2, <2>7, <2>11
<1> QED BY <1>1, <1>2, <1>4

\* An empty buffer has no values.
LEMMA NothingPut ==
  ASSUME BufferInv, m_nLimit = 0
  PROVE  put = <<>>
<1> SUFFICES ASSUME put # <<>> PROVE FALSE
  OBVIOUS
<1>1. put \in Seq(Samples) /\ Len(put) \in Nat /\ Len(put) >= 1
  BY DEF BufferInv, BufferType
<1>2. PICK starts \in [1 .. Len(put) + 1 -> 0 .. m_nLimit] : Laid(starts)
  BY DEF BufferInv
<1>3. 1 \in 1 .. Len(put) /\ 1 \in 1 .. Len(put) + 1 /\ 2 \in 1 .. Len(put) + 1
  BY <1>1
<1>4. starts[1 + 1] = starts[1] + Len(put[1])
  BY <1>2, <1>3 DEF Laid
<1>5. starts[1] = 0 /\ starts[2] = 0
  BY <1>2, <1>3
<1>6. Len(put[1]) \in Nat /\ Len(put[1]) > 0
  BY <1>1, <1>3, SampleFacts
<1> QED BY <1>4, <1>5, <1>6

LEMMA SetByteOrderInv ==
  ASSUME BufferInv, SetByteOrder
  PROVE  BufferInv'
<1>1. put = <<>> /\ UNCHANGED <<memory, size, m_nPosition, m_nLimit, m_nCapacity>>
      /\ UNCHANGED <<put, reads, got, lost>> /\ bigEndian' \in BOOLEAN
  BY NothingPut DEF SetByteOrder, Empty, buffer
<1>2. BufferType'
  BY <1>1 DEF BufferInv, BufferType
<1>3. RoundTrip'
  <2>1. ~(reads > 0)
    BY <1>1 DEF BufferInv, BufferType
  <2> QED BY <1>1, <2>1 DEF RoundTrip
<1>4. \E starts \in [1 .. Len(put') + 1 -> 0 .. m_nLimit'] :
        Laid(starts)' /\ (lost' = "no" => Stored(starts)')
  BY <1>1, SameLayout DEF Laid
<1> QED BY <1>2, <1>3, <1>4 DEF BufferInv

LEMMA RewindInv ==
  ASSUME BufferInv, Rewind
  PROVE  BufferInv'
<1>1. /\ m_nPosition' = 0 /\ reads' = 0
      /\ UNCHANGED <<memory, size, m_nLimit, m_nCapacity, bigEndian, put, got, lost>>
  BY DEF Rewind
<1>2. BufferType'
  BY <1>1 DEF BufferInv, BufferType
<1>3. RoundTrip'
  BY <1>1 DEF RoundTrip
<1>4. \E starts \in [1 .. Len(put') + 1 -> 0 .. m_nLimit'] :
        Laid(starts)' /\ (lost' = "no" => Stored(starts)')
  BY <1>1, SameLayout DEF Laid
<1> QED BY <1>2, <1>3, <1>4 DEF BufferInv

LEMMA CopyInv ==
  ASSUME BufferInv, Copy
  PROVE  BufferInv'
<1>1. /\ memory' = SubSeq(memory, 1, size) /\ reads = -1
      /\ lost' = IF size < m_nCapacity THEN "copied" ELSE lost
      /\ UNCHANGED <<size, m_nPosition, m_nLimit, m_nCapacity, bigEndian, put, reads, got>>
  BY DEF Copy
<1>2. memory \in Seq(Bytes) /\ Len(memory) \in Nat /\ size \in 0 .. Len(memory)
      /\ m_nCapacity \in Nat /\ m_nLimit \in 0 .. m_nCapacity
  BY DEF BufferInv, BufferType
<1>3. /\ memory' \in Seq(Bytes) /\ Len(memory') = size
      /\ \A i \in 1 .. size : memory'[i] = memory[i]
  <2>1. \A i \in 1 .. size : memory[i] \in Bytes
    BY <1>2
  <2>2. SubSeq(memory, 1, size) \in Seq(Bytes) /\ Len(SubSeq(memory, 1, size)) = size
    BY <1>2, <2>1, SubSeqProperties
  <2>3. \A i \in 1 .. size : SubSeq(memory, 1, size)[i] = memory[i]
    BY <1>2, <2>1, SubSeqProperties
  <2> QED BY <1>1, <2>2, <2>3
<1>4. lost' = "no" => lost = "no" /\ m_nCapacity <= size
  BY <1>1, <1>2
<1>5. BufferType'
  BY <1>1, <1>2, <1>3, <1>4 DEF BufferInv, BufferType
<1>6. RoundTrip'
  BY <1>1 DEF RoundTrip
<1>7. \E starts \in [1 .. Len(put') + 1 -> 0 .. m_nLimit'] :
        Laid(starts)' /\ (lost' = "no" => Stored(starts)')
  <2>1. lost' = "no" => \A i \in 1 .. m_nLimit : memory'[i] = memory[i]
    BY <1>2, <1>3, <1>4
  <2> QED BY <1>1, <1>4, <2>1, SameLayout
<1> QED BY <1>5, <1>6, <1>7 DEF BufferInv

LEMMA GetInv ==
  ASSUME BufferInv, Get
  PROVE  BufferInv'
<1>1. /\ put \in Seq(Samples) /\ Len(put) \in Nat /\ memory \in Seq(Bytes)
      /\ m_nLimit \in Nat /\ m_nCapacity \in Nat /\ m_nLimit <= m_nCapacity
      /\ lost = "no" => m_nCapacity <= Len(memory)
      /\ bigEndian \in BOOLEAN
  BY DEF BufferInv, BufferType
<1>2. PICK k \in 1 .. Len(put) : k = reads + 1 /\ reads \in 0 .. Len(put) - 1
  BY <1>1 DEF Get
<1>3. PICK v \in Samples : v = put[k]
  BY <1>1, <1>2
<1>4. v \in Seq(Nat) /\ Len(v) \in Nat /\ Len(v) > 0
  BY SampleFacts
<1>5. ASSUME NEW starts \in [1 .. Len(put) + 1 -> 0 .. m_nLimit], Laid(starts)
      PROVE  /\ m_nPosition = starts[k] /\ starts[k + 1] = starts[k] + Len(v)
             /\ starts[k] \in Nat /\ starts[k] + Len(v) <= m_nLimit
  <2>1. m_nPosition = starts[k] /\ starts[k + 1] = starts[k] + Len(v)
    BY <1>2, <1>3, <1>5 DEF Laid
  <2>2. starts[k] \in 0 .. m_nLimit /\ starts[k + 1] \in 0 .. m_nLimit
    <3>1. k \in 1 .. Len(put) + 1 /\ k + 1 \in 1 .. Len(put) + 1
      BY <1>1, <1>2
    <3> QED BY <3>1
  <2> QED BY <1>1, <1>4, <2>1, <2>2
<1>6. PICK starts \in [1 .. Len(put) + 1 -> 0 .. m_nLimit] :
        Laid(starts) /\ (lost = "no" => Stored(starts))
  BY DEF BufferInv
<1>7. PICK p \in Nat : p = m_nPosition /\ p = starts[k] /\ p + Len(v) <= m_nLimit
  BY <1>5, <1>6
<1>8. PICK net : net = [i \in 1 .. Len(v) |-> IF p + i \in DOMAIN memory
                                              THEN memory[p + i] ELSE Junk]
  OBVIOUS
<1>9. /\ got' = NetToHost(net) /\ m_nPosition' = p + Len(v) /\ reads' = k
      /\ UNCHANGED <<memory, size, m_nLimit, m_nCapacity, bigEndian, put, lost>>
  <2>1. ~(m_nPosition + Len(v) > m_nLimit)
    BY <1>1, <1>4, <1>7
  <2> QED BY <1>2, <1>3, <1>7, <1>8, <2>1 DEF Get
<1>10. BufferType'
  <2>1. p + Len(v) \in Nat /\ reads' \in -1 .. Len(put) /\ reads' # -1
    BY <1>1, <1>2, <1>4, <1>9
  <2> QED BY <1>9, <2>1 DEF BufferInv, BufferType
<1>11. \E s \in [1 .. Len(put') + 1 -> 0 .. m_nLimit'] :
         Laid(s)' /\ (lost' = "no" => Stored(s)')
  <2>1. \A s \in [1 .. Len(put) + 1 -> 0 .. m_nLimit] : Laid(s) => m_nPosition' = s[reads' + 1]
    BY <1>5, <1>7, <1>9
  <2> QED BY <1>9, <2>1, SameLayout
<1>12. RoundTrip'
  <2> SUFFICES ASSUME lost = "no", ~Cut(v) PROVE got' = v
    <3>1. Expected' = v /\ (Cut(Expected)' <=> Cut(v))
      BY <1>3, <1>9 DEF Expected, Cut
    <3> QED BY <1>9, <3>1 DEF RoundTrip
  <2>1. PICK bytes : bytes = HostToNet(v)
    OBVIOUS
  <2>2. bytes \in Seq(Nat) /\ Len(bytes) = Len(v) /\ NetToHost(bytes) = v
    BY <1>1, <1>4, <2>1, NetFacts
  <2>3. ASSUME NEW i \in 1 .. Len(v)
        PROVE  p + i \in DOMAIN memory /\ memory[p + i] = bytes[i]
    <3>1. p + i \in 1 .. Len(memory)
      BY <1>1, <1>4, <1>7
    <3>2. memory[starts[k] + i] = Net(bigEndian, put[k])[i]
      BY <1>3, <1>6 DEF Stored
    <3>3. bytes = Net(bigEndian, put[k])
      BY <1>3, <2>1, IsNet
    <3> QED BY <1>1, <1>7, <3>1, <3>2, <3>3
  <2>4. net = [i \in 1 .. Len(v) |-> bytes[i]]
    BY <1>8, <2>3
  <2>5. bytes = [i \in 1 .. Len(v) |-> bytes[i]]
    BY <2>2
  <2>6. net = bytes
    BY <2>4, <2>5
  <2> QED BY <1>9, <2>2, <2>6
<1> QED BY <1>10, <1>11, <1>12 DEF BufferInv

LEMMA BufferInvNext == BufferInv /\ [BufferNext]_bufferVars => BufferInv'
<1> SUFFICES ASSUME BufferInv, [BufferNext]_bufferVars PROVE BufferInv'
  OBVIOUS
<1>1. ASSUME NEW v \in Samples, Put(v) PROVE BufferInv'
  BY <1>1, PutInv
<1>2. ASSUME NEW n \in Capacities, Resize(n) PROVE BufferInv'
  BY <1>2, ResizeBufferInv
<1>3. CASE SetByteOrder
  BY <1>3, SetByteOrderInv
<1>4. CASE Rewind
  BY <1>4, RewindInv
<1>5. CASE Get
  BY <1>5, GetInv
<1>6. CASE Clear
  BY <1>6, ClearInv
<1>7. CASE Copy
  BY <1>7, CopyInv
<1>8. CASE UNCHANGED bufferVars
  <2>1. UNCHANGED <<memory, size, m_nPosition, m_nLimit, m_nCapacity, bigEndian, put, reads,
                    got, lost>>
    BY <1>8 DEF bufferVars, buffer
  <2>2. BufferType' /\ RoundTrip'
    BY <2>1 DEF BufferInv, BufferType, RoundTrip, Expected, Cut
  <2>3. \E starts \in [1 .. Len(put') + 1 -> 0 .. m_nLimit'] :
          Laid(starts)' /\ (lost' = "no" => Stored(starts)')
    BY <2>1, SameLayout DEF Laid
  <2> QED BY <2>2, <2>3 DEF BufferInv
<1> QED BY <1>1, <1>2, <1>3, <1>4, <1>5, <1>6, <1>7, <1>8 DEF BufferNext

(* What is put into a ByteBuffer is read back, for values of any width and *)
(* buffers of any capacity, in either byte order and however often it      *)
(* grows or is cleared, resized and copied, except the high half of 64-bit *)
(* values in big-endian order, and as long as nothing was lost that the    *)
(* buffer held behind the vector's size (run buffer_grow shows such a      *)
(* loss).                                                                  *)
THEOREM BufferRoundTrip == BufferSpec => []RoundTrip
<1>1. BufferInv => RoundTrip
  BY DEF BufferInv
<1> QED BY BufferInvInit, BufferInvNext, <1>1, PTL DEF BufferSpec

-----------------------------------------------------------------------------
(* Sync::RWMutex, and tcp::RWLock after it.                                *)

USE ThreadsAssumption

Writers == {"wBlocked", "wWoken", "writing"}

\* All threads but t are where they were, up to a wakeup.
OthersStay(t) ==
  \A u \in Threads \ {t} :
    \/ pc'[u] = pc[u]
    \/ pc[u] = "rBlocked" /\ pc'[u] = "rWoken"
    \/ pc[u] = "wBlocked" /\ pc'[u] = "wWoken"

Inv == TypeOK /\ CountersExact

-----------------------------------------------------------------------------
(* What a notify does to the program counters.                             *)

LEMMA WakeWriterFact ==
  ASSUME TypeOK, NEW t \in Threads, pc' \in WakeWriter([pc EXCEPT ![t] = "idle"])
  PROVE  pc' \in [Threads -> PC] /\ pc'[t] = "idle" /\ OthersStay(t)
<1> DEFINE pcs == [pc EXCEPT ![t] = "idle"]
<1>1. /\ pcs \in [Threads -> PC] /\ pcs[t] = "idle"
      /\ \A u \in Threads \ {t} : pcs[u] = pc[u]
  BY DEF TypeOK, PC
<1>2. DOMAIN pcs = Threads
  BY <1>1
<1> HIDE DEF pcs
<1>3. CASE pc' = pcs
  BY <1>1, <1>3 DEF OthersStay
<1>4. ASSUME NEW u \in Threads, pcs[u] = "wBlocked",
             pc' = [pcs EXCEPT ![u] = "wWoken"]
      PROVE  pc' \in [Threads -> PC] /\ pc'[t] = "idle" /\ OthersStay(t)
  BY <1>1, <1>4 DEF OthersStay, PC
<1>5. \/ pc' = pcs
      \/ \E u \in Threads : pcs[u] = "wBlocked" /\ pc' = [pcs EXCEPT ![u] = "wWoken"]
  BY <1>2 DEF WakeWriter, NotifyOne, BlockedAt, pcs
<1> QED BY <1>3, <1>4, <1>5

LEMMA WakeReadersFact ==
  ASSUME TypeOK, NEW t \in Threads, pc' \in WakeReaders([pc EXCEPT ![t] = "idle"])
  PROVE  pc' \in [Threads -> PC] /\ pc'[t] = "idle" /\ OthersStay(t)
<1> DEFINE pcs == [pc EXCEPT ![t] = "idle"]
<1>1. /\ pcs \in [Threads -> PC] /\ pcs[t] = "idle"
      /\ \A u \in Threads \ {t} : pcs[u] = pc[u]
  BY DEF TypeOK, PC
<1>2. pc' = [u \in Threads |-> IF pcs[u] = "rBlocked" THEN "rWoken" ELSE pcs[u]]
  BY <1>1 DEF WakeReaders, NotifyAll
<1> HIDE DEF pcs
<1> QED BY <1>1, <1>2 DEF OthersStay, PC

-----------------------------------------------------------------------------
(* How the step of one thread t changes the sets the counters count.       *)

LEMMA InFinite == ASSUME NEW S PROVE IsFiniteSet(In(S)) /\ Cardinality(In(S)) \in Nat
BY FS_Subset, FS_CardinalityType DEF In

LEMMA InStep ==
  ASSUME TypeOK, NEW t \in Threads, OthersStay(t),
         NEW S, S \in {{"reading"}, {"writing"}, Writers}
  PROVE  /\ pc[t] \in S /\ pc'[t] \in S => In(S)' = In(S)
         /\ pc[t] \notin S /\ pc'[t] \notin S => In(S)' = In(S)
         /\ pc[t] \notin S /\ pc'[t] \in S =>
              In(S)' = In(S) \cup {t} /\ Cardinality(In(S)') = Cardinality(In(S)) + 1
         /\ pc[t] \in S /\ pc'[t] \notin S =>
              In(S)' = In(S) \ {t} /\ Cardinality(In(S)') = Cardinality(In(S)) - 1
<1>1. \A u \in Threads \ {t} : pc'[u] \in S <=> pc[u] \in S
  BY DEF OthersStay, Writers
<1>2. IsFiniteSet(In(S))
  BY InFinite
<1>3. ASSUME pc[t] \in S <=> pc'[t] \in S PROVE In(S)' = In(S)
  BY <1>1, <1>3 DEF In
<1>4. ASSUME pc[t] \notin S, pc'[t] \in S
      PROVE In(S)' = In(S) \cup {t} /\ Cardinality(In(S)') = Cardinality(In(S)) + 1
  <2>1. t \notin In(S) /\ In(S)' = In(S) \cup {t}
    BY <1>1, <1>4 DEF In
  <2> QED BY <1>2, <2>1, FS_AddElement
<1>5. ASSUME pc[t] \in S, pc'[t] \notin S
      PROVE In(S)' = In(S) \ {t} /\ Cardinality(In(S)') = Cardinality(In(S)) - 1
  <2>1. t \in In(S) /\ In(S)' = In(S) \ {t}
    BY <1>1, <1>5 DEF In
  <2> QED BY <1>2, <2>1, FS_RemoveElement
<1> QED BY <1>3, <1>4, <1>5

\* A count of zero is an empty set.
LEMMA InEmpty == ASSUME NEW S PROVE Cardinality(In(S)) = 0 <=> In(S) = {}
BY InFinite, FS_EmptySet

\* A count of one is a singleton.
LEMMA InSingle ==
  ASSUME NEW S, Cardinality(In(S)) = 1, NEW t \in In(S)
  PROVE  In(S) = {t}
<1>1. IsFiniteSet(In(S) \ {t}) /\ Cardinality(In(S) \ {t}) = 0
  BY InFinite, FS_RemoveElement
<1>2. In(S) \ {t} = {}
  BY <1>1, FS_EmptySet
<1> QED BY <1>2

-----------------------------------------------------------------------------
(* One lemma per kind of step: who enters, who leaves, who waits.          *)

LEMMA rLockStep ==
  ASSUME Inv, NEW t \in Threads, rLock(t) PROVE Inv'
<1> USE DEF Inv, CountersExact, TypeOK
<1>1. OthersStay(t) /\ pc' \in [Threads -> PC]
  BY DEF rLock, OthersStay, PC
<1>2. CASE MayRead
  <2>1. pc[t] \in {"idle", "rWoken"} /\ pc'[t] = "reading"
    BY <1>2 DEF rLock
  <2>2. /\ Cardinality(In({"reading"})') = Cardinality(In({"reading"})) + 1
        /\ In({"writing"})' = In({"writing"}) /\ In(Writers)' = In(Writers)
    BY <1>1, <2>1, InStep DEF Writers
  <2>3. In(Writers) = {}
    BY <1>2, InEmpty DEF MayRead, Writers
  <2>4. In({"writing"}) = {}
    BY <2>3 DEF In, Writers
  <2>5. ~m_writing /\ ~m_writing'
    BY <2>4 DEF rLock
  <2>6. m_readCount' = m_readCount + 1 /\ m_writeCount' = m_writeCount
    BY <1>2 DEF rLock
  <2>7. m_readCount' = Cardinality(In({"reading"})')
    BY <2>2, <2>6
  <2>8. m_writeCount' = Cardinality(In(Writers)')
    BY <2>2, <2>6 DEF Writers
  <2>9. TypeOK'
    BY <1>1, <2>6 DEF rLock
  <2>10. (m_writing <=> In({"writing"}) # {})'
    BY <2>2, <2>4, <2>5
  <2> QED BY <2>5, <2>7, <2>8, <2>9, <2>10 DEF Writers
<1>3. CASE ~MayRead
  <2>1. pc[t] \in {"idle", "rWoken"} /\ pc'[t] = "rBlocked"
    BY <1>3 DEF rLock
  <2>2. /\ In({"reading"})' = In({"reading"})
        /\ In({"writing"})' = In({"writing"}) /\ In(Writers)' = In(Writers)
    BY <1>1, <2>1, InStep DEF Writers
  <2>3. UNCHANGED <<m_readCount, m_writeCount, m_writing>>
    BY <1>3 DEF rLock
  <2> QED BY <1>1, <2>2, <2>3 DEF Writers
<1> QED BY <1>2, <1>3

LEMMA rUnLockStep ==
  ASSUME Inv, NEW t \in Threads, rUnLock(t) PROVE Inv'
<1> USE DEF Inv, CountersExact, TypeOK
<1>1. pc[t] = "reading" /\ pc'[t] = "idle" /\ OthersStay(t) /\ pc' \in [Threads -> PC]
  <2>1. CASE m_readCount' = 0 /\ m_writeCount > 0
    BY <2>1, WakeWriterFact DEF rUnLock
  <2>2. CASE ~(m_readCount' = 0 /\ m_writeCount > 0)
    BY <2>2 DEF rUnLock, OthersStay, PC
  <2> QED BY <2>1, <2>2 DEF rUnLock
<1>2. /\ Cardinality(In({"reading"})') = Cardinality(In({"reading"})) - 1
      /\ In({"writing"})' = In({"writing"}) /\ In(Writers)' = In(Writers)
  BY <1>1, InStep DEF Writers
<1>3. m_readCount # 0
  <2>1. In({"reading"}) # {}
    BY <1>1 DEF In
  <2> QED BY <2>1, InEmpty
<1>4. ~m_writing /\ ~m_writing' /\ In({"writing"}) = {}
  BY <1>3 DEF rUnLock
<1>5. m_readCount' = m_readCount - 1 /\ m_writeCount' = m_writeCount
  BY DEF rUnLock
<1>6. TypeOK'
  BY <1>1, <1>3, <1>5 DEF rUnLock
<1>7. m_readCount' = Cardinality(In({"reading"})') /\ m_writeCount' = Cardinality(In(Writers)')
  BY <1>2, <1>5 DEF Writers
<1>8. (m_writing <=> In({"writing"}) # {})'
  BY <1>2, <1>4
<1> QED BY <1>4, <1>6, <1>7, <1>8 DEF Writers

LEMMA EnterStep ==
  ASSUME Inv, NEW t \in Threads, lock(t) \/ lockAgain(t) PROVE Inv'
<1> USE DEF Inv, CountersExact, TypeOK
<1>1. /\ pc[t] \in {"idle", "wWoken"} /\ pc'[t] \in {"wBlocked", "writing"}
      /\ OthersStay(t) /\ pc' \in [Threads -> PC] /\ m_readCount' = m_readCount
  BY DEF lock, lockAgain, EnterOrBlock, OthersStay, PC
<1>2. In({"reading"})' = In({"reading"})
  BY <1>1, InStep
<1>3. m_writeCount' = Cardinality(In(Writers)') /\ m_writeCount' \in Nat
  <2>1. CASE lock(t)
    <3>1. Cardinality(In(Writers)') = Cardinality(In(Writers)) + 1
      BY <1>1, <2>1, InStep DEF Writers, lock
    <3> QED BY <2>1, <3>1 DEF lock, Writers
  <2>2. CASE lockAgain(t)
    <3>1. In(Writers)' = In(Writers)
      BY <1>1, <2>2, InStep DEF Writers, lockAgain
    <3> QED BY <2>2, <3>1 DEF lockAgain, Writers
  <2> QED BY <2>1, <2>2
<1>4. CASE MayWrite
  <2>1. pc'[t] = "writing" /\ m_writing' = TRUE /\ m_readCount = 0 /\ ~m_writing
    BY <1>4 DEF lock, lockAgain, EnterOrBlock, MayWrite
  <2>2. In({"writing"}) = {}
    BY <2>1
  <2>3. In({"writing"})' = {t} /\ Cardinality(In({"writing"})') = 0 + 1
    BY <1>1, <2>1, <2>2, InStep, InEmpty
  <2>4. (m_writing <=> In({"writing"}) # {})'
    BY <2>1, <2>3
  <2> QED BY <1>1, <1>2, <1>3, <2>1, <2>3, <2>4 DEF Writers
<1>5. CASE ~MayWrite
  <2>1. pc'[t] = "wBlocked" /\ m_writing' = m_writing
    BY <1>5 DEF lock, lockAgain, EnterOrBlock
  <2>2. In({"writing"})' = In({"writing"})
    BY <1>1, <2>1, InStep
  <2> QED BY <1>1, <1>2, <1>3, <2>1, <2>2 DEF Writers
<1> QED BY <1>4, <1>5

LEMMA unLockStep ==
  ASSUME Inv, NEW t \in Threads, unLock(t) PROVE Inv'
<1> USE DEF Inv, CountersExact, TypeOK
<1>1. pc[t] = "writing" /\ pc'[t] = "idle" /\ OthersStay(t) /\ pc' \in [Threads -> PC]
  BY WakeWriterFact, WakeReadersFact DEF unLock
<1>2. t \in In({"writing"}) /\ t \in In(Writers)
  BY <1>1 DEF In, Writers
<1>3. m_writing /\ In({"writing"}) = {t}
  BY <1>2, InSingle
<1>4. /\ In({"writing"})' = {} /\ In({"reading"})' = In({"reading"})
      /\ Cardinality(In(Writers)') = Cardinality(In(Writers)) - 1
  BY <1>1, <1>3, InStep DEF Writers
<1>5. m_writeCount # 0
  BY <1>2, InEmpty DEF Writers
<1>6. m_writing' = FALSE /\ m_readCount' = m_readCount /\ m_writeCount' = m_writeCount - 1
  BY DEF unLock
<1>7. TypeOK'
  <2>1. m_writeCount' \in Nat
    BY <1>5, <1>6
  <2>2. m_writing' \in BOOLEAN /\ m_readCount' \in Nat
    BY <1>6
  <2> QED BY <1>1, <2>1, <2>2
<1>8. m_readCount' = Cardinality(In({"reading"})') /\ m_writeCount' = Cardinality(In(Writers)')
  BY <1>4, <1>6 DEF Writers
<1>9. (m_writing <=> In({"writing"}) # {})'
  BY <1>4, <1>6
<1> QED BY <1>6, <1>7, <1>8, <1>9 DEF Writers

LEMMA QuietStep ==
  ASSUME Inv, UNCHANGED <<m_readCount, m_writeCount, m_writing>>,
         \/ pc' = pc
         \/ \E t \in Threads : SpuriousWakeup(t)
  PROVE  Inv'
<1> USE DEF Inv, CountersExact, TypeOK
<1>1. CASE pc' = pc
  BY <1>1 DEF In
<1>2. ASSUME NEW t \in Threads, SpuriousWakeup(t) PROVE Inv'
  <2>1. /\ \/ pc[t] = "rBlocked" /\ pc'[t] = "rWoken"
           \/ pc[t] = "wBlocked" /\ pc'[t] = "wWoken"
        /\ OthersStay(t) /\ pc' \in [Threads -> PC]
    <3>1. CASE pc[t] = "rBlocked" /\ pc' = [pc EXCEPT ![t] = "rWoken"]
      BY <3>1 DEF OthersStay, PC
    <3>2. CASE pc[t] = "wBlocked" /\ pc' = [pc EXCEPT ![t] = "wWoken"]
      BY <3>2 DEF OthersStay, PC
    <3> QED BY <1>2, <3>1, <3>2 DEF SpuriousWakeup
  <2>2. /\ In({"reading"})' = In({"reading"})
        /\ In({"writing"})' = In({"writing"}) /\ In(Writers)' = In(Writers)
    BY <2>1, InStep DEF Writers
  <2> QED BY <2>1, <2>2 DEF Writers
<1> QED BY <1>1, <1>2

LEMMA InvInit == Init => Inv
<1> SUFFICES ASSUME Init PROVE Inv
  OBVIOUS
<1>1. In({"reading"}) = {} /\ In({"writing"}) = {} /\ In(Writers) = {}
  BY DEF Init, In, Writers
<1> QED BY <1>1, FS_EmptySet DEF Init, Inv, TypeOK, CountersExact, PC, Writers

LEMMA InvNext == Inv /\ [Next]_vars => Inv'
BY rLockStep, rUnLockStep, EnterStep, unLockStep, QuietStep
DEF Next, vars, SpuriousWakeup

(* The counters of RWMutex are exact, so its predicates mean what they say *)
(* and a writer is alone inside.                                           *)
THEOREM CountersAreExact == Spec => []CountersExact
<1>1. Inv => CountersExact
  BY DEF Inv
<1> QED BY InvInit, InvNext, <1>1, PTL DEF Spec

-----------------------------------------------------------------------------
(* Refinement.                                                             *)

LEMMA HoldsStep ==
  ASSUME Inv, NEW t \in Threads, OthersStay(t)
  PROVE  /\ pc[t] \notin {"reading", "writing"} /\ pc'[t] = "reading" =>
              Holds[t] = "none" /\ Holds' = [Holds EXCEPT ![t] = "read"]
         /\ pc[t] \notin {"reading", "writing"} /\ pc'[t] = "writing" =>
              Holds' = [Holds EXCEPT ![t] = "write"]
         /\ pc[t] \in {"reading", "writing"} /\ pc'[t] = "idle" =>
              Holds[t] # "none" /\ Holds' = [Holds EXCEPT ![t] = "none"]
         /\ pc[t] \notin {"reading", "writing"} /\ pc'[t] \notin {"reading", "writing"} =>
              Holds' = Holds
BY DEF Inv, TypeOK, OthersStay, Holds

LEMMA NextRefines == Inv /\ [Next]_vars => [RW!Next]_Holds
<1> SUFFICES ASSUME Inv, [Next]_vars PROVE [RW!Next]_Holds
  OBVIOUS
<1>1. ASSUME NEW t \in Threads, rLock(t) PROVE [RW!Next]_Holds
  <2>1. pc[t] \in {"idle", "rWoken"} /\ OthersStay(t)
    BY <1>1 DEF rLock, OthersStay, Inv, TypeOK
  <2>2. CASE MayRead
    <3>1. pc'[t] = "reading"
      BY <1>1, <2>2 DEF rLock, Inv, TypeOK
    <3>2. In(Writers) = {}
      BY <2>2, InEmpty DEF MayRead, Writers, Inv, CountersExact
    <3>3. \A u \in Threads : Holds[u] # "write"
      BY <3>2 DEF In, Writers, Holds
    <3>4. RW!AcquireRead(t)
      BY <2>1, <3>1, <3>3, HoldsStep DEF RW!AcquireRead
    <3> QED BY <3>4 DEF RW!Next
  <2>3. CASE ~MayRead
    <3>1. pc'[t] = "rBlocked"
      BY <1>1, <2>3 DEF rLock, Inv, TypeOK
    <3> QED BY <2>1, <3>1, HoldsStep
  <2> QED BY <2>2, <2>3
<1>2. ASSUME NEW t \in Threads, rUnLock(t) \/ unLock(t) PROVE [RW!Next]_Holds
  <2>1. pc[t] \in {"reading", "writing"} /\ pc'[t] = "idle" /\ OthersStay(t)
    <3>1. TypeOK
      BY DEF Inv
    <3>2. CASE rUnLock(t)
      <4>1. CASE m_readCount' = 0 /\ m_writeCount > 0
        BY <3>1, <3>2, <4>1, WakeWriterFact DEF rUnLock
      <4>2. CASE ~(m_readCount' = 0 /\ m_writeCount > 0)
        BY <3>1, <3>2, <4>2 DEF rUnLock, OthersStay, TypeOK
      <4> QED BY <4>1, <4>2
    <3>3. CASE unLock(t)
      BY <3>1, <3>3, WakeWriterFact, WakeReadersFact DEF unLock
    <3> QED BY <1>2, <3>2, <3>3
  <2>2. RW!Release(t)
    BY <2>1, HoldsStep DEF RW!Release
  <2> QED BY <2>2 DEF RW!Next
<1>3. ASSUME NEW t \in Threads, lock(t) \/ lockAgain(t) PROVE [RW!Next]_Holds
  <2>1. pc[t] \in {"idle", "wWoken"} /\ OthersStay(t)
    BY <1>3 DEF lock, lockAgain, EnterOrBlock, OthersStay, Inv, TypeOK
  <2>2. CASE MayWrite
    <3>1. pc'[t] = "writing"
      BY <1>3, <2>2 DEF lock, lockAgain, EnterOrBlock, Inv, TypeOK
    <3>2. In({"reading"}) = {} /\ In({"writing"}) = {}
      BY <2>2, InEmpty DEF MayWrite, Inv, CountersExact
    <3>3. \A u \in Threads : Holds[u] = "none"
      BY <3>2 DEF In, Holds
    <3>4. RW!AcquireWrite(t)
      BY <2>1, <3>1, <3>3, HoldsStep DEF RW!AcquireWrite
    <3> QED BY <3>4 DEF RW!Next
  <2>3. CASE ~MayWrite
    <3>1. pc'[t] = "wBlocked"
      BY <1>3, <2>3 DEF lock, lockAgain, EnterOrBlock, Inv, TypeOK
    <3> QED BY <2>1, <3>1, HoldsStep
  <2> QED BY <2>2, <2>3
<1>4. ASSUME NEW t \in Threads, SpuriousWakeup(t) PROVE [RW!Next]_Holds
  <2>1. /\ OthersStay(t) /\ pc[t] \notin {"reading", "writing"}
        /\ pc'[t] \notin {"reading", "writing"}
    BY <1>4 DEF SpuriousWakeup, OthersStay, Inv, TypeOK
  <2> QED BY <2>1, HoldsStep
<1>5. CASE UNCHANGED vars
  BY <1>5 DEF vars, Holds
<1> QED BY <1>1, <1>2, <1>3, <1>4, <1>5 DEF Next

(* RWMutex implements the readers-writer lock: mutual exclusion as its     *)
(* users see it.                                                           *)
THEOREM Refinement == Spec => ImplementsRWLock
<1>1. Init => RW!Init
  BY DEF Init, RW!Init, Holds
<1> QED BY InvInit, InvNext, NextRefines, <1>1, PTL
        DEF Spec, ImplementsRWLock, RW!Spec

-----------------------------------------------------------------------------
(* Preference.                                                             *)

(* While a writer waits no reader enters, one that was woken before        *)
(* included: the predicate of rLock looks at m_writeCount, which counts    *)
(* the waiting writers.                                                    *)
THEOREM WritersArePreferred == Spec => WriterPreference
<1>1. ASSUME Inv, [Next]_vars, In({"wBlocked", "wWoken"}) # {}
      PROVE In({"reading"})' \subseteq In({"reading"})
  <2>1. TypeOK /\ In(Writers) # {}
    BY <1>1 DEF Inv, In, Writers
  <2>2. ~MayRead
    BY <1>1, <2>1, InEmpty DEF MayRead, Inv, CountersExact, Writers
  <2>3. ASSUME NEW t \in Threads, OthersStay(t), pc'[t] # "reading"
        PROVE In({"reading"})' \subseteq In({"reading"})
    BY <2>3 DEF In, OthersStay
  <2>4. ASSUME NEW t \in Threads, rLock(t)
        PROVE OthersStay(t) /\ pc'[t] # "reading"
    BY <2>1, <2>2, <2>4 DEF rLock, OthersStay, TypeOK
  <2>5. ASSUME NEW t \in Threads, rUnLock(t)
        PROVE OthersStay(t) /\ pc'[t] # "reading"
    <3>1. CASE m_readCount' = 0 /\ m_writeCount > 0
      BY <2>1, <2>5, <3>1, WakeWriterFact DEF rUnLock
    <3>2. CASE ~(m_readCount' = 0 /\ m_writeCount > 0)
      BY <2>1, <2>5, <3>2 DEF rUnLock, OthersStay, TypeOK
    <3> QED BY <3>1, <3>2
  <2>6. ASSUME NEW t \in Threads, lock(t) \/ lockAgain(t)
        PROVE OthersStay(t) /\ pc'[t] # "reading"
    BY <2>1, <2>6 DEF lock, lockAgain, EnterOrBlock, OthersStay, TypeOK
  <2>7. ASSUME NEW t \in Threads, unLock(t)
        PROVE OthersStay(t) /\ pc'[t] # "reading"
    BY <2>1, <2>7, WakeWriterFact, WakeReadersFact DEF unLock
  <2>8. ASSUME NEW t \in Threads, SpuriousWakeup(t)
        PROVE OthersStay(t) /\ pc'[t] # "reading"
    BY <2>1, <2>8 DEF SpuriousWakeup, OthersStay, TypeOK
  <2>9. CASE UNCHANGED vars
    BY <2>9 DEF vars, In
  <2> QED BY <1>1, <2>3, <2>4, <2>5, <2>6, <2>7, <2>8, <2>9 DEF Next
<1>2. Inv /\ [Next]_vars =>
        [In({"wBlocked", "wWoken"}) # {} => In({"reading"})' \subseteq In({"reading"})]_vars
  BY <1>1
<1> QED BY InvInit, InvNext, <1>2, PTL DEF Spec, WriterPreference

-----------------------------------------------------------------------------
(* tcp::RWLock.                                                            *)

ReadWaiters == {"rBlocked", "rWoken"}
WriteWaiters == {"wBlocked", "wWoken"}

\* All threads but t are where they were, up to a wakeup.
TcpOthersStay(t) ==
  \A u \in Threads \ {t} :
    \/ tcpPc'[u] = tcpPc[u]
    \/ tcpPc[u] = "rBlocked" /\ tcpPc'[u] = "rWoken"
    \/ tcpPc[u] = "wBlocked" /\ tcpPc'[u] = "wWoken"

\* The thread t goes from one place to another, and the rest stays.
TcpMoves(t, from, to) ==
  /\ tcpPc[t] \in from /\ tcpPc'[t] \in to
  /\ TcpOthersStay(t) /\ tcpPc' \in [Threads -> TcpPC]

TcpInv == TcpTypeOK /\ TcpStatusExact

LEMMA TcpInFinite ==
  ASSUME NEW S PROVE IsFiniteSet(TcpIn(S)) /\ Cardinality(TcpIn(S)) \in Nat
BY FS_Subset, FS_CardinalityType DEF TcpIn

LEMMA TcpInEmpty == ASSUME NEW S PROVE Cardinality(TcpIn(S)) = 0 <=> TcpIn(S) = {}
BY TcpInFinite, FS_EmptySet

LEMMA TcpInSingle ==
  ASSUME NEW S, Cardinality(TcpIn(S)) = 1, NEW t \in TcpIn(S)
  PROVE  TcpIn(S) = {t}
<1>1. IsFiniteSet(TcpIn(S) \ {t}) /\ Cardinality(TcpIn(S) \ {t}) = 0
  BY TcpInFinite, FS_RemoveElement
<1>2. TcpIn(S) \ {t} = {}
  BY <1>1, FS_EmptySet
<1> QED BY <1>2

\* How the step of one thread t changes the sets that are counted.
LEMMA TcpInStep ==
  ASSUME NEW t \in Threads, TcpOthersStay(t),
         NEW S, S \in {{"reading"}, {"writing"}, ReadWaiters, WriteWaiters}
  PROVE  /\ (tcpPc[t] \in S <=> tcpPc'[t] \in S) => TcpIn(S)' = TcpIn(S)
         /\ tcpPc[t] \notin S /\ tcpPc'[t] \in S =>
              /\ TcpIn(S)' = TcpIn(S) \cup {t}
              /\ Cardinality(TcpIn(S)') = Cardinality(TcpIn(S)) + 1
         /\ tcpPc[t] \in S /\ tcpPc'[t] \notin S =>
              /\ TcpIn(S)' = TcpIn(S) \ {t}
              /\ Cardinality(TcpIn(S)') = Cardinality(TcpIn(S)) - 1
<1>1. \A u \in Threads \ {t} : tcpPc'[u] \in S <=> tcpPc[u] \in S
  BY DEF TcpOthersStay, ReadWaiters, WriteWaiters
<1>2. IsFiniteSet(TcpIn(S))
  BY TcpInFinite
<1>3. ASSUME tcpPc[t] \in S <=> tcpPc'[t] \in S PROVE TcpIn(S)' = TcpIn(S)
  BY <1>1, <1>3 DEF TcpIn
<1>4. ASSUME tcpPc[t] \notin S, tcpPc'[t] \in S
      PROVE  /\ TcpIn(S)' = TcpIn(S) \cup {t}
             /\ Cardinality(TcpIn(S)') = Cardinality(TcpIn(S)) + 1
  <2>1. t \notin TcpIn(S) /\ TcpIn(S)' = TcpIn(S) \cup {t}
    BY <1>1, <1>4 DEF TcpIn
  <2> QED BY <1>2, <2>1, FS_AddElement
<1>5. ASSUME tcpPc[t] \in S, tcpPc'[t] \notin S
      PROVE  /\ TcpIn(S)' = TcpIn(S) \ {t}
             /\ Cardinality(TcpIn(S)') = Cardinality(TcpIn(S)) - 1
  <2>1. t \in TcpIn(S) /\ TcpIn(S)' = TcpIn(S) \ {t}
    BY <1>1, <1>5 DEF TcpIn
  <2> QED BY <1>2, <2>1, FS_RemoveElement
<1> QED BY <1>3, <1>4, <1>5

\* What unlock's notify does, whichever it is.
LEMMA TcpUnlockMoves ==
  ASSUME TcpTypeOK, NEW t \in Threads, unlock(t)
  PROVE  TcpMoves(t, {"reading", "writing"}, {"idle"})
<1> DEFINE pcs == [tcpPc EXCEPT ![t] = "idle"]
<1>1. /\ pcs \in [Threads -> TcpPC] /\ pcs[t] = "idle" /\ DOMAIN pcs = Threads
      /\ \A u \in Threads \ {t} : pcs[u] = tcpPc[u]
  BY DEF TcpTypeOK, TcpPC
<1>2. tcpPc' \in TcpWakeWriter(pcs) \cup TcpWakeReaders(pcs) \cup {pcs}
  BY DEF unlock
<1>3. tcpPc[t] \in {"reading", "writing"}
  BY DEF unlock
<1> HIDE DEF pcs
<1> USE DEF TcpMoves, TcpOthersStay
<1>4. CASE tcpPc' = pcs
  BY <1>1, <1>3, <1>4
<1>5. ASSUME NEW u \in Threads, pcs[u] = "wBlocked",
             tcpPc' = [pcs EXCEPT ![u] = "wWoken"]
      PROVE  TcpMoves(t, {"reading", "writing"}, {"idle"})
  BY <1>1, <1>3, <1>5 DEF TcpPC
<1>6. ASSUME NEW u \in Threads, pcs[u] = "rBlocked",
             tcpPc' = [pcs EXCEPT ![u] = "rWoken"]
      PROVE  TcpMoves(t, {"reading", "writing"}, {"idle"})
  BY <1>1, <1>3, <1>6 DEF TcpPC
<1>7. CASE tcpPc' = [u \in Threads |-> IF pcs[u] = "rBlocked" THEN "rWoken" ELSE pcs[u]]
  BY <1>1, <1>3, <1>7 DEF TcpPC
<1>8. \/ tcpPc' = pcs
      \/ \E u \in Threads :
           pcs[u] = "wBlocked" /\ tcpPc' = [pcs EXCEPT ![u] = "wWoken"]
      \/ \E u \in Threads :
           pcs[u] = "rBlocked" /\ tcpPc' = [pcs EXCEPT ![u] = "rWoken"]
      \/ tcpPc' = [u \in Threads |-> IF pcs[u] = "rBlocked" THEN "rWoken" ELSE pcs[u]]
  BY <1>1, <1>2
  DEF TcpWakeWriter, TcpWakeReaders, NotifyOne, NotifyAll, BlockedAt
<1> QED BY <1>4, <1>5, <1>6, <1>7, <1>8

\* A thread that enters, blocks or wakes up is the only one to move.
LEMMA TcpMovesAlone ==
  ASSUME TcpTypeOK, NEW t \in Threads, NEW l \in TcpPC,
         tcpPc' = [tcpPc EXCEPT ![t] = l]
  PROVE  TcpMoves(t, {tcpPc[t]}, {l})
BY DEF TcpTypeOK, TcpMoves, TcpOthersStay

-----------------------------------------------------------------------------
(* One lemma per kind of step.  What a lock that is free means comes from  *)
(* the exact status_.                                                      *)

LEMMA TcpFree ==
  ASSUME TcpInv
  PROVE  /\ status_ = 0 => TcpIn({"writing"}) = {} /\ TcpIn({"reading"}) = {}
         /\ ~(status_ < 0) => TcpIn({"writing"}) = {}
         /\ status_ < 0 => TcpIn({"writing"}) # {}
BY TcpInFinite, TcpInEmpty DEF TcpInv, TcpTypeOK, TcpStatusExact

\* A thread waits or goes on waiting.
LEMMA TcpWaitStep ==
  ASSUME TcpInv, NEW t \in Threads, status_' = status_,
         TcpMoves(t, {"idle", "rWoken", "wWoken", "rBlocked", "wBlocked"},
                     ReadWaiters \cup WriteWaiters),
         waiting_readers_' = Cardinality(TcpIn(ReadWaiters)'),
         waiting_writers_' = Cardinality(TcpIn(WriteWaiters)')
  PROVE  TcpInv'
<1>1. /\ TcpIn({"reading"})' = TcpIn({"reading"})
      /\ TcpIn({"writing"})' = TcpIn({"writing"})
  BY TcpInStep DEF TcpMoves, ReadWaiters, WriteWaiters
<1>2. TcpStatusExact'
  BY <1>1 DEF TcpInv, TcpStatusExact, ReadWaiters, WriteWaiters
<1>3. waiting_readers_' \in Nat /\ waiting_writers_' \in Nat
  <2>1. /\ IsFiniteSet(TcpIn(ReadWaiters)') /\ IsFiniteSet(TcpIn(WriteWaiters)')
    BY FS_Subset DEF TcpIn
  <2> QED BY <2>1, FS_CardinalityType
<1>4. TcpTypeOK'
  BY <1>3 DEF TcpInv, TcpTypeOK, TcpMoves
<1> QED BY <1>2, <1>4 DEF TcpInv

LEMMA TcpReadStep ==
  ASSUME TcpInv, NEW t \in Threads, rlock(t) \/ rlockAgain(t)
  PROVE  TcpInv'
<1>a. /\ TcpTypeOK /\ waiting_readers_ = Cardinality(TcpIn(ReadWaiters))
      /\ waiting_writers_ = Cardinality(TcpIn(WriteWaiters))
      /\ waiting_readers_ \in Nat /\ status_ \in Int
  BY DEF TcpInv, TcpTypeOK, TcpStatusExact, ReadWaiters, WriteWaiters
<1>b. tcpPc[t] \in {"idle", "rWoken"} /\ waiting_writers_' = waiting_writers_
  BY DEF rlock, rlockAgain
<1>1. CASE MustNotRead
  <2>1. tcpPc' = [tcpPc EXCEPT ![t] = "rBlocked"] /\ status_' = status_
    BY <1>1 DEF rlock, rlockAgain
  <2>2. TcpMoves(t, {tcpPc[t]}, {"rBlocked"})
    BY <1>a, <2>1, TcpMovesAlone DEF TcpPC
  <2>3. TcpOthersStay(t) /\ tcpPc'[t] = "rBlocked"
    BY <2>2 DEF TcpMoves
  <2>4. TcpIn(WriteWaiters)' = TcpIn(WriteWaiters)
    BY <1>b, <2>3, TcpInStep DEF WriteWaiters
  <2>5. waiting_readers_' = Cardinality(TcpIn(ReadWaiters)')
    <3>1. CASE rlock(t)
      <4>1. tcpPc[t] = "idle" /\ waiting_readers_' = waiting_readers_ + 1
        BY <1>1, <3>1 DEF rlock
      <4>2. Cardinality(TcpIn(ReadWaiters)') = Cardinality(TcpIn(ReadWaiters)) + 1
        BY <2>3, <4>1, TcpInStep DEF ReadWaiters
      <4> QED BY <1>a, <4>1, <4>2
    <3>2. CASE rlockAgain(t)
      <4>1. tcpPc[t] = "rWoken" /\ waiting_readers_' = waiting_readers_
        BY <1>1, <3>2 DEF rlockAgain
      <4>2. TcpIn(ReadWaiters)' = TcpIn(ReadWaiters)
        BY <2>3, <4>1, TcpInStep DEF ReadWaiters
      <4> QED BY <1>a, <4>1, <4>2
    <3> QED BY <3>1, <3>2
  <2>6. TcpMoves(t, {"idle", "rWoken", "wWoken", "rBlocked", "wBlocked"},
                    ReadWaiters \cup WriteWaiters)
    BY <1>b, <2>2 DEF TcpMoves, ReadWaiters
  <2> QED BY <1>a, <1>b, <2>1, <2>4, <2>5, <2>6, TcpWaitStep
<1>2. CASE ~MustNotRead
  <2>1. tcpPc' = [tcpPc EXCEPT ![t] = "reading"] /\ status_' = status_ + 1
    BY <1>2 DEF rlock, rlockAgain
  <2>2. TcpMoves(t, {tcpPc[t]}, {"reading"})
    BY <1>a, <2>1, TcpMovesAlone DEF TcpPC
  <2>3. /\ TcpOthersStay(t) /\ tcpPc'[t] = "reading"
        /\ tcpPc' \in [Threads -> TcpPC]
    BY <2>2 DEF TcpMoves
  <2>4. TcpIn({"writing"}) = {} /\ status_ = Cardinality(TcpIn({"reading"}))
    BY <1>2, TcpFree DEF MustNotRead, TcpInv, TcpStatusExact
  <2>5. /\ TcpIn(WriteWaiters)' = TcpIn(WriteWaiters)
        /\ TcpIn({"writing"})' = {}
        /\ Cardinality(TcpIn({"reading"})') = Cardinality(TcpIn({"reading"})) + 1
    BY <1>b, <2>3, <2>4, TcpInStep DEF WriteWaiters
  <2>6. waiting_readers_' = Cardinality(TcpIn(ReadWaiters)') /\ waiting_readers_' \in Nat
    <3>1. CASE rlock(t)
      <4>1. tcpPc[t] = "idle" /\ waiting_readers_' = waiting_readers_
        BY <1>2, <3>1 DEF rlock
      <4>2. TcpIn(ReadWaiters)' = TcpIn(ReadWaiters)
        BY <2>3, <4>1, TcpInStep DEF ReadWaiters
      <4> QED BY <1>a, <4>1, <4>2
    <3>2. CASE rlockAgain(t)
      <4>1. tcpPc[t] = "rWoken" /\ waiting_readers_' = waiting_readers_ - 1
        BY <1>2, <3>2 DEF rlockAgain
      <4>2. Cardinality(TcpIn(ReadWaiters)') = Cardinality(TcpIn(ReadWaiters)) - 1
        BY <2>3, <4>1, TcpInStep DEF ReadWaiters
      <4>3. TcpIn(ReadWaiters) # {}
        BY <4>1 DEF TcpIn, ReadWaiters
      <4>4. waiting_readers_ # 0
        BY <1>a, <4>3, TcpInEmpty
      <4> QED BY <1>a, <4>1, <4>2, <4>4
    <3> QED BY <3>1, <3>2
  <2>7. status_' = Cardinality(TcpIn({"reading"})') /\ status_' \in Int
    BY <1>a, <2>1, <2>4, <2>5
  <2>8. TcpTypeOK'
    BY <1>a, <1>b, <2>3, <2>6, <2>7 DEF TcpTypeOK
  <2>9. TcpStatusExact'
    BY <1>a, <1>b, <2>5, <2>6, <2>7 DEF TcpStatusExact, ReadWaiters, WriteWaiters
  <2> QED BY <2>8, <2>9 DEF TcpInv
<1> QED BY <1>1, <1>2

LEMMA TcpWriteStep ==
  ASSUME TcpInv, NEW t \in Threads, wlock(t) \/ wlockAgain(t)
  PROVE  TcpInv'
<1>a. /\ TcpTypeOK /\ waiting_readers_ = Cardinality(TcpIn(ReadWaiters))
      /\ waiting_writers_ = Cardinality(TcpIn(WriteWaiters))
      /\ waiting_writers_ \in Nat /\ status_ \in Int
  BY DEF TcpInv, TcpTypeOK, TcpStatusExact, ReadWaiters, WriteWaiters
<1>b. tcpPc[t] \in {"idle", "wWoken"} /\ waiting_readers_' = waiting_readers_
  BY DEF wlock, wlockAgain
<1>1. CASE MustNotWrite
  <2>1. tcpPc' = [tcpPc EXCEPT ![t] = "wBlocked"] /\ status_' = status_
    BY <1>1 DEF wlock, wlockAgain
  <2>2. TcpMoves(t, {tcpPc[t]}, {"wBlocked"})
    BY <1>a, <2>1, TcpMovesAlone DEF TcpPC
  <2>3. TcpOthersStay(t) /\ tcpPc'[t] = "wBlocked"
    BY <2>2 DEF TcpMoves
  <2>4. TcpIn(ReadWaiters)' = TcpIn(ReadWaiters)
    BY <1>b, <2>3, TcpInStep DEF ReadWaiters
  <2>5. waiting_writers_' = Cardinality(TcpIn(WriteWaiters)')
    <3>1. CASE wlock(t)
      <4>1. tcpPc[t] = "idle" /\ waiting_writers_' = waiting_writers_ + 1
        BY <1>1, <3>1 DEF wlock
      <4>2. Cardinality(TcpIn(WriteWaiters)') = Cardinality(TcpIn(WriteWaiters)) + 1
        BY <2>3, <4>1, TcpInStep DEF WriteWaiters
      <4> QED BY <1>a, <4>1, <4>2
    <3>2. CASE wlockAgain(t)
      <4>1. tcpPc[t] = "wWoken" /\ waiting_writers_' = waiting_writers_
        BY <1>1, <3>2 DEF wlockAgain
      <4>2. TcpIn(WriteWaiters)' = TcpIn(WriteWaiters)
        BY <2>3, <4>1, TcpInStep DEF WriteWaiters
      <4> QED BY <1>a, <4>1, <4>2
    <3> QED BY <3>1, <3>2
  <2>6. TcpMoves(t, {"idle", "rWoken", "wWoken", "rBlocked", "wBlocked"},
                    ReadWaiters \cup WriteWaiters)
    BY <1>b, <2>2 DEF TcpMoves, WriteWaiters
  <2> QED BY <1>a, <1>b, <2>1, <2>4, <2>5, <2>6, TcpWaitStep
<1>2. CASE ~MustNotWrite
  <2>1. tcpPc' = [tcpPc EXCEPT ![t] = "writing"] /\ status_ = 0 /\ status_' = -1
    BY <1>2 DEF wlock, wlockAgain, MustNotWrite
  <2>2. TcpMoves(t, {tcpPc[t]}, {"writing"})
    BY <1>a, <2>1, TcpMovesAlone DEF TcpPC
  <2>3. /\ TcpOthersStay(t) /\ tcpPc'[t] = "writing"
        /\ tcpPc' \in [Threads -> TcpPC]
    BY <2>2 DEF TcpMoves
  <2>4. TcpIn({"writing"}) = {} /\ TcpIn({"reading"}) = {}
    BY <2>1, TcpFree
  <2>5. /\ TcpIn(ReadWaiters)' = TcpIn(ReadWaiters) /\ TcpIn({"reading"})' = {}
        /\ TcpIn({"writing"})' = {t} /\ Cardinality(TcpIn({"writing"})') = 0 + 1
    BY <1>b, <2>3, <2>4, TcpInStep, TcpInEmpty DEF ReadWaiters
  <2>6. waiting_writers_' = Cardinality(TcpIn(WriteWaiters)') /\ waiting_writers_' \in Nat
    <3>1. CASE wlock(t)
      <4>1. tcpPc[t] = "idle" /\ waiting_writers_' = waiting_writers_
        BY <1>2, <3>1 DEF wlock
      <4>2. TcpIn(WriteWaiters)' = TcpIn(WriteWaiters)
        BY <2>3, <4>1, TcpInStep DEF WriteWaiters
      <4> QED BY <1>a, <4>1, <4>2
    <3>2. CASE wlockAgain(t)
      <4>1. tcpPc[t] = "wWoken" /\ waiting_writers_' = waiting_writers_ - 1
        BY <1>2, <3>2 DEF wlockAgain
      <4>2. Cardinality(TcpIn(WriteWaiters)') = Cardinality(TcpIn(WriteWaiters)) - 1
        BY <2>3, <4>1, TcpInStep DEF WriteWaiters
      <4>3. TcpIn(WriteWaiters) # {}
        BY <4>1 DEF TcpIn, WriteWaiters
      <4>4. waiting_writers_ # 0
        BY <1>a, <4>3, TcpInEmpty
      <4> QED BY <1>a, <4>1, <4>2, <4>4
    <3> QED BY <3>1, <3>2
  <2>7. TcpTypeOK'
    BY <1>a, <1>b, <2>1, <2>3, <2>6 DEF TcpTypeOK
  <2>8. TcpStatusExact'
    BY <1>a, <1>b, <2>1, <2>5, <2>6 DEF TcpStatusExact, ReadWaiters, WriteWaiters
  <2> QED BY <2>7, <2>8 DEF TcpInv
<1> QED BY <1>1, <1>2

\* unlock looks at the sign of status_ only, and that is enough.
LEMMA TcpUnlockStep ==
  ASSUME TcpInv, NEW t \in Threads, unlock(t)
  PROVE  TcpInv'
<1>a. /\ TcpTypeOK /\ status_ \in Int
      /\ waiting_readers_' = waiting_readers_ /\ waiting_writers_' = waiting_writers_
  BY DEF TcpInv, TcpTypeOK, unlock
<1>1. /\ TcpOthersStay(t) /\ tcpPc[t] \in {"reading", "writing"}
      /\ tcpPc'[t] = "idle" /\ tcpPc' \in [Threads -> TcpPC]
  BY <1>a, TcpUnlockMoves DEF TcpMoves
<1>2. /\ TcpIn(ReadWaiters)' = TcpIn(ReadWaiters)
      /\ TcpIn(WriteWaiters)' = TcpIn(WriteWaiters)
  BY <1>1, TcpInStep DEF ReadWaiters, WriteWaiters
<1>3. CASE tcpPc[t] = "writing"
  <2>1. t \in TcpIn({"writing"})
    BY <1>3 DEF TcpIn
  <2>2. /\ TcpIn({"writing"}) = {t} /\ TcpIn({"reading"}) = {} /\ status_ = -1
    BY <2>1, TcpInSingle DEF TcpInv, TcpStatusExact
  <2>3. TcpIn({"writing"})' = {} /\ TcpIn({"reading"})' = {} /\ status_' = 0
    BY <1>1, <1>3, <2>2, TcpInStep DEF unlock
  <2>4. Cardinality(TcpIn({"reading"})') = 0
    BY <2>3, FS_EmptySet
  <2>5. TcpStatusExact'
    BY <1>a, <1>2, <2>3, <2>4
    DEF TcpInv, TcpStatusExact, ReadWaiters, WriteWaiters
  <2> QED BY <1>a, <1>1, <2>3, <2>5 DEF TcpInv, TcpTypeOK
<1>4. CASE tcpPc[t] = "reading"
  <2>1. TcpIn({"reading"}) # {}
    BY <1>4 DEF TcpIn
  <2>2. /\ TcpIn({"writing"}) = {} /\ status_ = Cardinality(TcpIn({"reading"}))
        /\ status_ # 0 /\ status_ \in Nat
    BY <2>1, TcpInEmpty, TcpInFinite DEF TcpInv, TcpStatusExact
  <2>3. status_' = status_ - 1
    BY <2>2 DEF unlock
  <2>4. /\ TcpIn({"writing"})' = {}
        /\ Cardinality(TcpIn({"reading"})') = Cardinality(TcpIn({"reading"})) - 1
    BY <1>1, <1>4, <2>2, TcpInStep
  <2>5. TcpStatusExact'
    BY <1>a, <1>2, <2>2, <2>3, <2>4
    DEF TcpInv, TcpStatusExact, ReadWaiters, WriteWaiters
  <2> QED BY <1>a, <1>1, <2>2, <2>3, <2>5 DEF TcpInv, TcpTypeOK
<1> QED BY <1>1, <1>3, <1>4

LEMMA TcpWakeupStep ==
  ASSUME TcpInv, NEW t \in Threads, TcpSpuriousWakeup(t)
  PROVE  TcpInv'
<1>1. PICK l \in {"rWoken", "wWoken"} :
        /\ tcpPc' = [tcpPc EXCEPT ![t] = l]
        /\ \/ tcpPc[t] = "rBlocked" /\ l = "rWoken"
           \/ tcpPc[t] = "wBlocked" /\ l = "wWoken"
  BY DEF TcpSpuriousWakeup
<1>2. TcpMoves(t, {tcpPc[t]}, {l})
  BY <1>1, TcpMovesAlone DEF TcpInv, TcpPC
<1>3. TcpOthersStay(t) /\ tcpPc'[t] = l
  BY <1>2 DEF TcpMoves
<1>4. /\ TcpIn(ReadWaiters)' = TcpIn(ReadWaiters)
      /\ TcpIn(WriteWaiters)' = TcpIn(WriteWaiters)
  BY <1>1, <1>3, TcpInStep DEF ReadWaiters, WriteWaiters
<1>5. TcpMoves(t, {"idle", "rWoken", "wWoken", "rBlocked", "wBlocked"},
                  ReadWaiters \cup WriteWaiters)
  BY <1>1, <1>2 DEF TcpMoves, ReadWaiters, WriteWaiters
<1>6. /\ status_' = status_
      /\ waiting_readers_' = Cardinality(TcpIn(ReadWaiters)')
      /\ waiting_writers_' = Cardinality(TcpIn(WriteWaiters)')
  BY <1>4 DEF TcpSpuriousWakeup, TcpInv, TcpStatusExact, ReadWaiters, WriteWaiters
<1> QED BY <1>5, <1>6, TcpWaitStep

LEMMA TcpInvInit == TcpInit => TcpInv
<1> SUFFICES ASSUME TcpInit PROVE TcpInv
  OBVIOUS
<1>1. /\ TcpIn({"reading"}) = {} /\ TcpIn({"writing"}) = {}
      /\ TcpIn(ReadWaiters) = {} /\ TcpIn(WriteWaiters) = {}
  BY DEF TcpInit, TcpIn, ReadWaiters, WriteWaiters
<1> QED BY <1>1, FS_EmptySet
        DEF TcpInit, TcpInv, TcpTypeOK, TcpStatusExact, TcpPC, ReadWaiters,
            WriteWaiters

LEMMA TcpInvNext == TcpInv /\ [TcpNext]_tcpVars => TcpInv'
<1>1. ASSUME TcpInv, UNCHANGED tcpVars PROVE TcpInv'
  BY <1>1 DEF tcpVars, TcpInv, TcpTypeOK, TcpStatusExact, TcpIn
<1> QED
  BY <1>1, TcpReadStep, TcpWriteStep, TcpUnlockStep, TcpWakeupStep DEF TcpNext

(* status_ and the counts of waiting threads of RWLock are exact, so one   *)
(* unlock can serve readers and writers and its sign tells them apart.     *)
THEOREM TcpStatusIsExact == TcpSpec => []TcpStatusExact
<1>1. TcpInv => TcpStatusExact
  BY DEF TcpInv
<1> QED BY TcpInvInit, TcpInvNext, <1>1, PTL DEF TcpSpec

LEMMA TcpHoldsStep ==
  ASSUME TcpInv, NEW t \in Threads, TcpOthersStay(t)
  PROVE  LET inside == {"reading", "writing"} IN
         /\ tcpPc[t] \notin inside /\ tcpPc'[t] = "reading" =>
              TcpHolds[t] = "none" /\ TcpHolds' = [TcpHolds EXCEPT ![t] = "read"]
         /\ tcpPc[t] \notin inside /\ tcpPc'[t] = "writing" =>
              TcpHolds' = [TcpHolds EXCEPT ![t] = "write"]
         /\ tcpPc[t] \in inside /\ tcpPc'[t] = "idle" =>
              TcpHolds[t] # "none" /\ TcpHolds' = [TcpHolds EXCEPT ![t] = "none"]
         /\ tcpPc[t] \notin inside /\ tcpPc'[t] \notin inside =>
              TcpHolds' = TcpHolds
BY DEF TcpInv, TcpTypeOK, TcpOthersStay, TcpHolds

LEMMA TcpNextRefines == TcpInv /\ [TcpNext]_tcpVars => [TcpRW!Next]_TcpHolds
<1> SUFFICES ASSUME TcpInv, [TcpNext]_tcpVars PROVE [TcpRW!Next]_TcpHolds
  OBVIOUS
<1>a. TcpTypeOK
  BY DEF TcpInv
<1>1. ASSUME NEW t \in Threads, rlock(t) \/ rlockAgain(t)
      PROVE [TcpRW!Next]_TcpHolds
  <2>1. tcpPc[t] \in {"idle", "rWoken"}
    BY <1>1 DEF rlock, rlockAgain
  <2>2. CASE ~MustNotRead
    <3>1. TcpMoves(t, {tcpPc[t]}, {"reading"})
      BY <1>a, <1>1, <2>2, TcpMovesAlone DEF rlock, rlockAgain, TcpPC
    <3>2. TcpIn({"writing"}) = {}
      BY <2>2, TcpFree DEF MustNotRead
    <3>3. \A u \in Threads : TcpHolds[u] # "write"
      BY <3>2 DEF TcpIn, TcpHolds
    <3>4. TcpRW!AcquireRead(t)
      BY <2>1, <3>1, <3>3, TcpHoldsStep DEF TcpRW!AcquireRead, TcpMoves
    <3> QED BY <3>4 DEF TcpRW!Next
  <2>3. CASE MustNotRead
    <3>1. TcpMoves(t, {tcpPc[t]}, {"rBlocked"})
      BY <1>a, <1>1, <2>3, TcpMovesAlone DEF rlock, rlockAgain, TcpPC
    <3> QED BY <2>1, <3>1, TcpHoldsStep DEF TcpMoves
  <2> QED BY <2>2, <2>3
<1>2. ASSUME NEW t \in Threads, wlock(t) \/ wlockAgain(t)
      PROVE [TcpRW!Next]_TcpHolds
  <2>1. tcpPc[t] \in {"idle", "wWoken"}
    BY <1>2 DEF wlock, wlockAgain
  <2>2. CASE ~MustNotWrite
    <3>1. TcpMoves(t, {tcpPc[t]}, {"writing"})
      BY <1>a, <1>2, <2>2, TcpMovesAlone DEF wlock, wlockAgain, TcpPC
    <3>2. TcpIn({"writing"}) = {} /\ TcpIn({"reading"}) = {}
      BY <2>2, TcpFree DEF MustNotWrite
    <3>3. \A u \in Threads : TcpHolds[u] = "none"
      BY <3>2 DEF TcpIn, TcpHolds
    <3>4. TcpRW!AcquireWrite(t)
      BY <2>1, <3>1, <3>3, TcpHoldsStep DEF TcpRW!AcquireWrite, TcpMoves
    <3> QED BY <3>4 DEF TcpRW!Next
  <2>3. CASE MustNotWrite
    <3>1. TcpMoves(t, {tcpPc[t]}, {"wBlocked"})
      BY <1>a, <1>2, <2>3, TcpMovesAlone DEF wlock, wlockAgain, TcpPC
    <3> QED BY <2>1, <3>1, TcpHoldsStep DEF TcpMoves
  <2> QED BY <2>2, <2>3
<1>3. ASSUME NEW t \in Threads, unlock(t) PROVE [TcpRW!Next]_TcpHolds
  <2>1. TcpMoves(t, {"reading", "writing"}, {"idle"})
    BY <1>a, <1>3, TcpUnlockMoves
  <2>2. TcpRW!Release(t)
    BY <2>1, TcpHoldsStep DEF TcpRW!Release, TcpMoves
  <2> QED BY <2>2 DEF TcpRW!Next
<1>4. ASSUME NEW t \in Threads, TcpSpuriousWakeup(t) PROVE [TcpRW!Next]_TcpHolds
  <2>1. /\ TcpOthersStay(t) /\ tcpPc[t] \notin {"reading", "writing"}
        /\ tcpPc'[t] \notin {"reading", "writing"}
    BY <1>a, <1>4 DEF TcpSpuriousWakeup, TcpOthersStay, TcpTypeOK
  <2> QED BY <2>1, TcpHoldsStep
<1>5. CASE UNCHANGED tcpVars
  BY <1>5 DEF tcpVars, TcpHolds
<1> QED BY <1>1, <1>2, <1>3, <1>4, <1>5 DEF TcpNext

(* RWLock implements the readers-writer lock: mutual exclusion as the TCP  *)
(* workers and the threads that send see it.                               *)
THEOREM TcpRefinement == TcpSpec => TcpImplementsRWLock
<1>1. TcpInit => TcpRW!Init
  BY DEF TcpInit, TcpRW!Init, TcpHolds
<1> QED BY TcpInvInit, TcpInvNext, TcpNextRefines, <1>1, PTL
        DEF TcpSpec, TcpImplementsRWLock, TcpRW!Spec

-----------------------------------------------------------------------------
(* TcpServer.                                                              *)

USE WorkerCountAssumption, ConnsAssumption
USE DEF connVars, masterVars, workVars

\* m_connMap is used through its domain and its values.
LEMMA ConnMapType ==
  ASSUME NEW f
  PROVE  f \in ConnMap <=> f \in [DOMAIN f -> Conns] /\ DOMAIN f \subseteq Fds
<1>1. ASSUME f \in ConnMap
      PROVE f \in [DOMAIN f -> Conns] /\ DOMAIN f \subseteq Fds
  <2>1. PICK S \in SUBSET Fds : f \in [S -> Conns]
    BY <1>1 DEF ConnMap
  <2> QED BY <2>1
<1>2. ASSUME f \in [DOMAIN f -> Conns], DOMAIN f \subseteq Fds
      PROVE f \in ConnMap
  BY <1>2 DEF ConnMap
<1> QED BY <1>1, <1>2

LEMMA NextThread == m_nLastThread \in Workers =>
                      (m_nLastThread + 1) % WorkerCount \in Workers
BY DEF Workers

\* One place is all there is.
LEMMA OnlyPlace ==
  ASSUME PlaceInv, NEW c \in Conns, NEW place \in Places, NEW w \in Workers,
         IsAt(c, place, w)
  PROVE  /\ state[c] = "open"
         /\ IsOnlyAt(c, place, w)
<1>1. state[c] = "open" /\ \E q \in Places, v \in Workers : IsOnlyAt(c, q, v)
  BY DEF PlaceInv, IsNowhere
<1> QED BY <1>1 DEF IsOnlyAt

\* What the master dispatches.
LEMMA WithMaster ==
  ASSUME ServerTypeOK, ArgInv, PlaceInv, mpc = "dispatch"
  PROVE  /\ marg \in Conns /\ state[marg] = "open"
         /\ IsOnlyAt(marg, "master", m_nLastThread)
<1>1. marg \in Conns /\ m_nLastThread \in Workers
  BY DEF ServerTypeOK, ArgInv
<1>2. IsAt(marg, "master", m_nLastThread) /\ "master" \in Places
  BY DEF IsAt, Places
<1> QED BY <1>1, <1>2, OnlyPlace

\* What a worker registers or frees.
LEMMA InHand ==
  ASSUME ServerTypeOK, ArgInv, PlaceInv, NEW w \in Workers,
         wpc[w] \in {"init", "free"}
  PROVE  /\ warg[w] \in Conns /\ state[warg[w]] = "open"
         /\ IsOnlyAt(warg[w], "worker", w)
<1>1. warg[w] \in Conns
  BY DEF ServerTypeOK, ArgInv
<1>2. IsAt(warg[w], "worker", w) /\ "worker" \in Places
  BY DEF IsAt, Places
<1> QED BY <1>1, <1>2, OnlyPlace

\* What a list or a map holds.
LEMMA InList ==
  ASSUME ServerTypeOK, PlaceInv, NEW w \in Workers,
         NEW i \in 1 .. Len(m_connList[w])
  PROVE  /\ m_connList[w][i] \in Conns /\ state[m_connList[w][i]] = "open"
         /\ IsOnlyAt(m_connList[w][i], "list", w)
<1>1. m_connList[w][i] \in Conns
  BY DEF ServerTypeOK
<1>2. IsAt(m_connList[w][i], "list", w) /\ "list" \in Places
  BY DEF IsAt, Places, Contains
<1> QED BY <1>1, <1>2, OnlyPlace

LEMMA InMap ==
  ASSUME ServerTypeOK, PlaceInv, NEW w \in Workers,
         NEW c \in Range(m_connMap[w])
  PROVE  /\ c \in Conns /\ state[c] = "open"
         /\ IsOnlyAt(c, "map", w)
<1>1. m_connMap[w] \in ConnMap
  BY DEF ServerTypeOK
<1>2. c \in Conns
  BY <1>1, ConnMapType DEF Range
<1>3. IsAt(c, "map", w) /\ "map" \in Places
  BY DEF IsAt, Places
<1> QED BY <1>2, <1>3, OnlyPlace

\* Where libevent is called back.
LEMMA EventArg ==
  ASSUME ServerTypeOK, ArgInv, NEW w \in Workers, ClientTcpEventCb(w)
  PROVE  /\ \E c \in Range(m_connMap[w]) : warg' = [warg EXCEPT ![w] = c]
         /\ warg'[w] \in Conns /\ warg'[w] \in Range(m_connMap[w])
<1>1. m_connMap[w] \in ConnMap
  BY DEF ServerTypeOK
<1>2. Range(m_connMap[w]) \subseteq Conns
  BY <1>1, ConnMapType DEF Range
<1>3. mapTimeout[w] \subseteq Range(m_connMap[w])
  BY DEF ArgInv, ClientTcpEventCb
<1> QED BY <1>2, <1>3 DEF ClientTcpEventCb, ServerTypeOK

-----------------------------------------------------------------------------
LEMMA ServerTypeInit == ServerInit => ServerTypeOK
<1> SUFFICES ASSUME ServerInit PROVE ServerTypeOK
  OBVIOUS
<1>1. 0 \in Workers
  BY DEF Workers
<1>2. <<>> \in Seq(Conns)
  OBVIOUS
<1>3. <<>> \in ConnMap
  <2>1. <<>> \in [{} -> Conns]
    OBVIOUS
  <2> QED BY <2>1 DEF ConnMap
<1> QED BY <1>1, <1>2, <1>3 DEF ServerInit, ServerTypeOK

LEMMA ServerTypeStep == ServerIInv /\ [ServerNext]_serverVars => ServerTypeOK'
<1> SUFFICES ASSUME ServerIInv, [ServerNext]_serverVars PROVE ServerTypeOK'
  OBVIOUS
<1>a. ServerTypeOK
  BY DEF ServerIInv
<1>b. ServerNext => ArgInv /\ FdInv /\ PlaceInv
  BY DEF ServerIInv, ServerNext
<1> USE DEF ServerTypeOK, Run
<1>1. ASSUME NEW c \in Conns, AccepCb(c) PROVE ServerTypeOK'
  BY <1>a, <1>1 DEF AccepCb
<1>2. CASE DispatchFails
  BY <1>a, <1>2, NextThread DEF DispatchFails
<1>3. CASE ServerNext /\ DispatchSfdToWorker
  <2>1. marg \in Conns
    BY <1>a, <1>b, <1>3 DEF DispatchSfdToWorker, ArgInv
  <2>2. m_connList' \in [Workers -> Seq(Conns)]
    BY <1>a, <1>3, <2>1, NextThread DEF DispatchSfdToWorker
  <2> QED BY <1>a, <1>3, <2>2, NextThread DEF DispatchSfdToWorker
<1>4. CASE WritePipe
  BY <1>a, <1>4 DEF WritePipe, Notify
<1>5. CASE WriteFails
  BY <1>a, <1>5 DEF WriteFails
<1>6. ASSUME NEW w \in Workers,
             \/ ReadPipeCb(w) \/ EventCallback(w) \/ EndDrain(w)
      PROVE ServerTypeOK'
  <2>1. CASE ReadPipeCb(w)
    <3>1. pipeNotify[w] - 1 \in Nat
      BY <1>a, <2>1 DEF ReadPipeCb
    <3> QED BY <1>a, <2>1, <3>1 DEF ReadPipeCb
  <2>2. CASE EventCallback(w)
    BY <1>a, <2>2 DEF EventCallback
  <2>3. CASE EndDrain(w)
    BY <1>a, <2>3 DEF EndDrain
  <2> QED BY <1>6, <2>1, <2>2, <2>3
<1>7. ASSUME NEW w \in Workers, TakeHead(w) PROVE ServerTypeOK'
  <2>1. Head(m_connList[w]) \in Conns /\ Tail(m_connList[w]) \in Seq(Conns)
    BY <1>a, <1>7 DEF TakeHead
  <2> QED BY <1>a, <1>7, <2>1 DEF TakeHead, Rest
<1>8. ASSUME ServerNext, NEW w \in Workers, InitNewConn(w) PROVE ServerTypeOK'
  <2>1. warg[w] \in Conns /\ sfd[warg[w]] \in Fds
    BY <1>a, <1>b, <1>8, InHand DEF InitNewConn, FdInv
  <2>2. m_connMap'[w] \in ConnMap
    <3>1. m_connMap'[w] = MapWith(w, sfd[warg[w]], warg[w])
      BY <1>a, <1>8 DEF InitNewConn
    <3>2. m_connMap[w] \in [DOMAIN m_connMap[w] -> Conns]
          /\ DOMAIN m_connMap[w] \subseteq Fds
      BY <1>a, ConnMapType
    <3> QED BY <2>1, <3>1, <3>2, ConnMapType DEF MapWith
  <2> QED BY <1>a, <1>8, <2>2 DEF InitNewConn
<1>9. ASSUME NEW w \in Workers, InitFails(w) PROVE ServerTypeOK'
  BY <1>a, <1>9 DEF InitFails
<1>10. ASSUME NEW w \in Workers, CheckClientKeepaliveCb(w) PROVE ServerTypeOK'
  <2>1. m_connMap[w] \in ConnMap
    BY <1>a
  <2>2. Range(m_connMap[w]) \subseteq Conns
    BY <2>1, ConnMapType DEF Range
  <2>3. PICK S \in SUBSET Range(m_connMap[w]) :
          mapTimeout' = [mapTimeout EXCEPT ![w] = S]
    BY <1>10 DEF CheckClientKeepaliveCb
  <2> QED BY <1>a, <1>10, <2>2, <2>3 DEF CheckClientKeepaliveCb
<1>11. ASSUME ServerNext, NEW w \in Workers, ClientTcpEventCb(w)
       PROVE ServerTypeOK'
  <2>1. warg' \in [Workers -> Conns \cup {None}]
    BY <1>a, <1>b, <1>11, EventArg DEF ClientTcpEventCb
  <2> QED BY <1>a, <1>11, <2>1 DEF ClientTcpEventCb
<1>12. ASSUME NEW w \in Workers, Erase(w) PROVE ServerTypeOK'
  <2>1. m_connMap[w] \in ConnMap
    BY <1>a
  <2>2. MapWithout(w, sfd[warg[w]]) \in ConnMap
    BY <2>1, ConnMapType DEF MapWithout
  <2> QED BY <1>a, <1>12, <2>2 DEF Erase
<1>13. ASSUME NEW w \in Workers, CloseConn(w) PROVE ServerTypeOK'
  BY <1>a, <1>13 DEF CloseConn
<1>14. CASE UNCHANGED serverVars
  BY <1>a, <1>14 DEF serverVars
<1> QED
  BY <1>1, <1>2, <1>3, <1>4, <1>5, <1>6, <1>7, <1>8, <1>9, <1>10, <1>11,
     <1>12, <1>13, <1>14 DEF ServerNext, Master, Worker, Callback

-----------------------------------------------------------------------------
(* The places.                                                             *)

\* A connection that stays where it is.
LEMMA Stays ==
  ASSUME NEW c \in Conns,
         \A q \in Places, v \in Workers : IsAt(c, q, v)' <=> IsAt(c, q, v)
  PROVE  /\ IsNowhere(c) => IsNowhere(c)'
         /\ \A place \in Places, w \in Workers :
              IsOnlyAt(c, place, w) => IsOnlyAt(c, place, w)'
<1>1. IsNowhere(c) => IsNowhere(c)'
  BY DEF IsNowhere, IsAt
<1>2. ASSUME NEW place \in Places, NEW w \in Workers, IsOnlyAt(c, place, w)
      PROVE IsOnlyAt(c, place, w)'
  BY <1>2 DEF IsOnlyAt, IsAt
<1> QED BY <1>1, <1>2

\* A step that leaves every connection where it is.
LEMMA NoneMoves ==
  ASSUME PlaceInv, state' = state,
         \A d \in Conns, q \in Places, v \in Workers :
           IsAt(d, q, v)' <=> IsAt(d, q, v)
  PROVE  PlaceInv'
<1> SUFFICES ASSUME NEW d \in Conns
             PROVE IF state'[d] = "open"
                   THEN \E place \in Places, w \in Workers :
                          IsOnlyAt(d, place, w)'
                   ELSE IsNowhere(d)'
  BY DEF PlaceInv
<1> QED BY Stays DEF PlaceInv

\* A step that brings connection c to one place.
LEMMA OneMoves ==
  ASSUME PlaceInv, NEW c \in Conns, NEW place \in Places, NEW w \in Workers,
         state'[c] = "open", IsOnlyAt(c, place, w)',
         \A d \in Conns \ {c} :
           /\ state'[d] = state[d]
           /\ \A q \in Places, v \in Workers : IsAt(d, q, v)' <=> IsAt(d, q, v)
  PROVE  PlaceInv'
<1> SUFFICES ASSUME NEW d \in Conns
             PROVE IF state'[d] = "open"
                   THEN \E q \in Places, v \in Workers : IsOnlyAt(d, q, v)'
                   ELSE IsNowhere(d)'
  BY DEF PlaceInv
<1>1. CASE d = c
  BY <1>1
<1>2. CASE d # c
  BY <1>2, Stays DEF PlaceInv
<1> QED BY <1>1, <1>2

\* A step that takes connection c away.
LEMMA OneLeaves ==
  ASSUME PlaceInv, NEW c \in Conns, state'[c] # "open", IsNowhere(c)',
         \A d \in Conns \ {c} :
           /\ state'[d] = state[d]
           /\ \A q \in Places, v \in Workers : IsAt(d, q, v)' <=> IsAt(d, q, v)
  PROVE  PlaceInv'
<1> SUFFICES ASSUME NEW d \in Conns
             PROVE IF state'[d] = "open"
                   THEN \E q \in Places, v \in Workers : IsOnlyAt(d, q, v)'
                   ELSE IsNowhere(d)'
  BY DEF PlaceInv
<1>1. CASE d = c
  BY <1>1
<1>2. CASE d # c
  BY <1>2, Stays DEF PlaceInv
<1> QED BY <1>1, <1>2

LEMMA AppendContains ==
  ASSUME NEW S, NEW s \in Seq(S), NEW e \in S, NEW d
  PROVE  Contains(Append(s, e), d) <=> Contains(s, d) \/ d = e
<1>1. /\ Len(Append(s, e)) = Len(s) + 1 /\ Len(s) \in Nat
      /\ \A i \in 1 .. Len(s) : Append(s, e)[i] = s[i]
      /\ Append(s, e)[Len(s) + 1] = e
  OBVIOUS
<1> QED BY <1>1 DEF Contains

LEMMA TailContains ==
  ASSUME NEW S, NEW s \in Seq(S), s # <<>>, NEW d
  PROVE  Contains(s, d) <=> d = Head(s) \/ Contains(Tail(s), d)
<1>1. /\ Len(s) \in Nat \ {0} /\ Len(Tail(s)) = Len(s) - 1
      /\ \A i \in 1 .. Len(s) - 1 : Tail(s)[i] = s[i + 1]
      /\ Head(s) = s[1]
  OBVIOUS
<1>2. ASSUME NEW i \in 1 .. Len(s), s[i] = d
      PROVE d = Head(s) \/ Contains(Tail(s), d)
  <2>1. CASE i = 1
    BY <1>1, <1>2, <2>1
  <2>2. CASE i # 1
    <3>1. i - 1 \in 1 .. Len(Tail(s)) /\ Tail(s)[i - 1] = d
      BY <1>1, <1>2, <2>2
    <3> QED BY <3>1 DEF Contains
  <2> QED BY <2>1, <2>2
<1>3. ASSUME NEW i \in 1 .. Len(Tail(s)), Tail(s)[i] = d PROVE Contains(s, d)
  <2>1. i + 1 \in 1 .. Len(s) /\ s[i + 1] = d
    BY <1>1, <1>3
  <2> QED BY <2>1 DEF Contains
<1>4. ASSUME d = Head(s) PROVE Contains(s, d)
  BY <1>1, <1>4 DEF Contains
<1> QED BY <1>2, <1>3, <1>4 DEF Contains

\* Behind the head of a list without repetitions the head is not found again.
LEMMA HeadIsAlone ==
  ASSUME ServerTypeOK, ListInv, NEW w \in Workers, m_connList[w] # <<>>
  PROVE  ~Contains(Tail(m_connList[w]), Head(m_connList[w]))
<1> DEFINE s == m_connList[w]
<1>1. s \in Seq(Conns)
  BY DEF ServerTypeOK
<1>2. /\ Len(s) \in Nat \ {0} /\ Len(Tail(s)) = Len(s) - 1
      /\ \A i \in 1 .. Len(s) - 1 : Tail(s)[i] = s[i + 1]
      /\ Head(s) = s[1]
  BY <1>1
<1>3. ASSUME NEW i \in 1 .. Len(Tail(s)), Tail(s)[i] = Head(s) PROVE FALSE
  <2>1. i + 1 \in 1 .. Len(s) /\ 1 \in 1 .. Len(s) /\ s[i + 1] = s[1]
    BY <1>2, <1>3
  <2> QED BY <2>1 DEF ListInv
<1> QED BY <1>3 DEF Contains

\* The worker enters the connection it has under a free descriptor: the one
\* that is there could not be open, having the same.
LEMMA Registered ==
  ASSUME ServerTypeOK, ArgInv, FdInv, PlaceInv, NEW w \in Workers, InitNewConn(w)
  PROVE  /\ sfd[warg[w]] \notin DOMAIN m_connMap[w]
         /\ \A d \in Conns, v \in Workers :
              d \in Range(m_connMap'[v]) <=>
                d \in Range(m_connMap[v]) \/ (v = w /\ d = warg[w])
<1> DEFINE fd == sfd[warg[w]]
<1>1. /\ warg[w] \in Conns /\ state[warg[w]] = "open"
      /\ IsOnlyAt(warg[w], "worker", w)
  BY InHand DEF InitNewConn
<1>2. ASSUME fd \in DOMAIN m_connMap[w] PROVE FALSE
  <2>1. m_connMap[w][fd] \in Range(m_connMap[w])
    BY <1>2 DEF Range
  <2>2. /\ m_connMap[w][fd] \in Conns /\ state[m_connMap[w][fd]] = "open"
        /\ IsOnlyAt(m_connMap[w][fd], "map", w)
    BY <2>1, InMap
  <2>3. sfd[m_connMap[w][fd]] = fd
    BY <1>2 DEF FdInv
  <2>4. m_connMap[w][fd] = warg[w]
    BY <1>1, <2>2, <2>3 DEF FdInv
  <2>5. "map" \in Places
    BY DEF Places
  <2> QED BY <1>1, <2>2, <2>4, <2>5 DEF IsOnlyAt
<1>3. m_connMap' = [m_connMap EXCEPT ![w] = MapWith(w, fd, warg[w])]
  BY DEF InitNewConn
<1>4. Range(MapWith(w, fd, warg[w])) = Range(m_connMap[w]) \cup {warg[w]}
  BY <1>2 DEF MapWith, Range
<1> QED BY <1>2, <1>3, <1>4 DEF ServerTypeOK

\* CloseConn erases the connection it closes and no other.
LEMMA Unregistered ==
  ASSUME ServerTypeOK, ArgInv, FdInv, NEW w \in Workers, Erase(w)
  PROVE  \A d \in Conns, v \in Workers :
           d \in Range(m_connMap'[v]) <=>
             d \in Range(m_connMap[v]) /\ ~(v = w /\ d = warg[w])
<1> DEFINE fd == sfd[warg[w]]
<1>1. warg[w] \in Range(m_connMap[w])
  BY DEF Erase, ArgInv
<1>2. fd \in DOMAIN m_connMap[w] /\ m_connMap[w][fd] = warg[w]
  BY <1>1 DEF Range, FdInv
<1>3. m_connMap' = [m_connMap EXCEPT ![w] = MapWithout(w, fd)]
  BY DEF Erase
<1>4. Range(MapWithout(w, fd)) = Range(m_connMap[w]) \ {warg[w]}
  <2>1. \A x \in DOMAIN m_connMap[w] : m_connMap[w][x] = warg[w] => x = fd
    BY DEF FdInv
  <2>2. /\ DOMAIN MapWithout(w, fd) = DOMAIN m_connMap[w] \ {fd}
        /\ \A x \in DOMAIN m_connMap[w] \ {fd} :
             MapWithout(w, fd)[x] = m_connMap[w][x]
    BY DEF MapWithout
  <2> QED BY <1>2, <2>1, <2>2 DEF Range
<1> QED BY <1>3, <1>4 DEF ServerTypeOK

LEMMA PlaceStep == ServerIInv /\ ServerNext /\ ~dangling' => PlaceInv'
<1> SUFFICES ASSUME ServerIInv, ServerNext, ~dangling' PROVE PlaceInv'
  OBVIOUS
<1>a. ServerTypeOK /\ ArgInv /\ FdInv /\ ListInv /\ PlaceInv
  BY DEF ServerIInv, ServerNext
<1>p. /\ "master" \in Places /\ "list" \in Places
      /\ "map" \in Places /\ "worker" \in Places
  BY DEF Places
<1> USE DEF Run
<1>1. ASSUME NEW c \in Conns, AccepCb(c) PROVE PlaceInv'
  <2>1. IsNowhere(c)
    BY <1>a, <1>1 DEF AccepCb, PlaceInv
  <2>2. state'[c] = "open" /\ \A d \in Conns \ {c} : state'[d] = state[d]
    BY <1>a, <1>1 DEF AccepCb, ServerTypeOK
  <2>3. PICK w \in Workers : w = m_nLastThread
    BY <1>a DEF ServerTypeOK
  <2>4. IsOnlyAt(c, "master", w)'
    BY <1>1, <2>1, <2>3 DEF AccepCb, IsOnlyAt, IsNowhere, IsAt, Places
  <2>5. \A d \in Conns \ {c} : \A q \in Places, v \in Workers :
          IsAt(d, q, v)' <=> IsAt(d, q, v)
    BY <1>1 DEF AccepCb, IsAt
  <2> QED BY <1>a, <1>p, <2>2, <2>3, <2>4, <2>5, OneMoves
<1>2. CASE DispatchFails
  <2>1. PICK c \in Conns :
          /\ c = marg
          /\ IsOnlyAt(c, "master", m_nLastThread)
    BY <1>a, <1>2, WithMaster DEF DispatchFails
  <2>2. state'[c] # "open" /\ \A d \in Conns \ {c} : state'[d] = state[d]
    BY <1>a, <1>2, <2>1 DEF DispatchFails, ServerTypeOK
  <2>3. IsNowhere(c)'
    BY <1>p, <1>2, <2>1 DEF DispatchFails, IsOnlyAt, IsNowhere, IsAt
  <2>4. \A d \in Conns \ {c} : \A q \in Places, v \in Workers :
          IsAt(d, q, v)' <=> IsAt(d, q, v)
    BY <1>2, <2>1 DEF DispatchFails, IsAt
  <2> QED BY <1>a, <2>2, <2>3, <2>4, OneLeaves
<1>3. CASE DispatchSfdToWorker
  <2>1. PICK c \in Conns :
          /\ c = marg /\ state[c] = "open"
          /\ IsOnlyAt(c, "master", m_nLastThread)
    BY <1>a, <1>3, WithMaster DEF DispatchSfdToWorker
  <2>2. PICK w \in Workers : w = (m_nLastThread + 1) % WorkerCount
    BY <1>a, NextThread DEF ServerTypeOK
  <2>3. m_connList' = [m_connList EXCEPT ![w] = Append(@, c)]
    BY <1>3, <2>1, <2>2 DEF DispatchSfdToWorker
  <2>4. \A d \in Conns, v \in Workers :
          Contains(m_connList'[v], d) <=>
            Contains(m_connList[v], d) \/ (v = w /\ d = c)
    BY <1>a, <2>3, AppendContains DEF ServerTypeOK
  <2>5. IsOnlyAt(c, "list", w)'
    BY <1>p, <1>3, <2>1, <2>4 DEF DispatchSfdToWorker, IsOnlyAt, IsNowhere, IsAt, Places
  <2>6. \A d \in Conns \ {c} : \A q \in Places, v \in Workers :
          IsAt(d, q, v)' <=> IsAt(d, q, v)
    BY <1>3, <2>1, <2>4 DEF DispatchSfdToWorker, IsAt
  <2>7. state' = state
    BY <1>3 DEF DispatchSfdToWorker
  <2> QED BY <1>a, <1>p, <2>1, <2>5, <2>6, <2>7, OneMoves
<1>4. CASE WritePipe
  BY <1>a, <1>4, NoneMoves DEF WritePipe, IsAt
<1>5. CASE WriteFails
  BY <1>5 DEF WriteFails
<1>6. ASSUME NEW w \in Workers, ReadPipeCb(w) \/ EndDrain(w) PROVE PlaceInv'
  <2>1. \A v \in Workers : wpc'[v] = "erase" <=> wpc[v] = "erase"
    BY <1>a, <1>6 DEF ReadPipeCb, EndDrain, Waiting, ServerTypeOK
  <2> QED BY <1>a, <1>6, <2>1, NoneMoves DEF ReadPipeCb, EndDrain, IsAt
<1>7. ASSUME NEW w \in Workers, EventCallback(w) \/ CheckClientKeepaliveCb(w)
      PROVE PlaceInv'
  BY <1>a, <1>7, NoneMoves DEF EventCallback, CheckClientKeepaliveCb, IsAt
<1>8. ASSUME NEW w \in Workers, TakeHead(w) PROVE PlaceInv'
  <2>1. 1 \in 1 .. Len(m_connList[w]) /\ Head(m_connList[w]) = m_connList[w][1]
    BY <1>a, <1>8 DEF TakeHead, ServerTypeOK
  <2>2. PICK c \in Conns :
          /\ c = Head(m_connList[w]) /\ state[c] = "open"
          /\ IsOnlyAt(c, "list", w)
    BY <1>a, <2>1, InList
  <2>3. \A d \in Conns, v \in Workers :
          Contains(m_connList'[v], d) <=>
            Contains(m_connList[v], d) /\ ~(v = w /\ d = c)
    <3>1. m_connList' = [m_connList EXCEPT ![w] = Tail(m_connList[w])]
      BY <1>8 DEF TakeHead, Rest
    <3>2. ~Contains(Tail(m_connList[w]), c)
      BY <1>a, <1>8, <2>2, HeadIsAlone DEF TakeHead
    <3>3. \A d : Contains(m_connList[w], d) <=>
                   d = c \/ Contains(Tail(m_connList[w]), d)
      BY <1>a, <1>8, <2>2, TailContains DEF TakeHead, ServerTypeOK
    <3> QED BY <1>a, <3>1, <3>2, <3>3 DEF ServerTypeOK
  <2>4. \A v \in Workers :
          /\ warg'[v] = IF v = w THEN c ELSE warg[v]
          /\ wpc'[v] = IF v = w THEN "init" ELSE wpc[v]
    BY <1>a, <1>8, <2>2 DEF TakeHead, ServerTypeOK
  <2>5. warg[w] = None
    BY <1>a, <1>8 DEF TakeHead, ArgInv
  <2>6. IsOnlyAt(c, "worker", w)'
    BY <1>p, <1>8, <2>2, <2>3, <2>4 DEF TakeHead, IsOnlyAt, IsNowhere, IsAt, Places
  <2>7. \A d \in Conns \ {c} : \A q \in Places, v \in Workers :
          IsAt(d, q, v)' <=> IsAt(d, q, v)
    BY <1>8, <2>3, <2>4, <2>5 DEF TakeHead, IsAt
  <2>8. state' = state
    BY <1>8 DEF TakeHead
  <2> QED BY <1>a, <1>p, <2>2, <2>6, <2>7, <2>8, OneMoves
<1>9. ASSUME NEW w \in Workers, InitNewConn(w) PROVE PlaceInv'
  <2>1. PICK c \in Conns :
          /\ c = warg[w] /\ state[c] = "open"
          /\ IsOnlyAt(c, "worker", w)
    BY <1>a, <1>9, InHand DEF InitNewConn
  <2>2. \A d \in Conns, v \in Workers :
          d \in Range(m_connMap'[v]) <=>
            d \in Range(m_connMap[v]) \/ (v = w /\ d = c)
    BY <1>a, <1>9, <2>1, Registered
  <2>3. \A v \in Workers :
          /\ warg'[v] = IF v = w THEN None ELSE warg[v]
          /\ wpc'[v] = IF v = w THEN "drain" ELSE wpc[v]
    BY <1>a, <1>9 DEF InitNewConn, ServerTypeOK
  <2>4. IsOnlyAt(c, "map", w)'
    BY <1>p, <1>9, <2>1, <2>2, <2>3 DEF InitNewConn, IsOnlyAt, IsNowhere, IsAt, Places
  <2>5. \A d \in Conns \ {c} : \A q \in Places, v \in Workers :
          IsAt(d, q, v)' <=> IsAt(d, q, v)
    BY <1>9, <2>1, <2>2, <2>3 DEF InitNewConn, IsAt
  <2>6. state' = state
    BY <1>9 DEF InitNewConn
  <2> QED BY <1>a, <1>p, <2>1, <2>4, <2>5, <2>6, OneMoves
<1>10. ASSUME NEW w \in Workers, InitFails(w) \/ CloseConn(w) PROVE PlaceInv'
  <2>1. PICK c \in Conns :
          /\ c = warg[w] /\ state[c] = "open"
          /\ IsOnlyAt(c, "worker", w)
    BY <1>a, <1>10, InHand DEF InitFails, CloseConn
  <2>2. state'[c] # "open" /\ \A d \in Conns \ {c} : state'[d] = state[d]
    BY <1>a, <1>10, <2>1 DEF InitFails, CloseConn, ServerTypeOK
  <2>3. \A v \in Workers :
          /\ warg'[v] = IF v = w THEN None ELSE warg[v]
          /\ v # w => wpc'[v] = wpc[v]
    BY <1>a, <1>10 DEF InitFails, CloseConn, ServerTypeOK
  <2>4. UNCHANGED <<masterVars, m_connList, m_connMap>>
    BY <1>10 DEF InitFails, CloseConn
  <2>5. IsNowhere(c)'
    BY <1>p, <2>1, <2>3, <2>4 DEF IsOnlyAt, IsNowhere, IsAt
  <2>6. \A d \in Conns \ {c} : \A q \in Places, v \in Workers :
          IsAt(d, q, v)' <=> IsAt(d, q, v)
    BY <2>1, <2>3, <2>4 DEF IsAt
  <2> QED BY <1>a, <2>2, <2>5, <2>6, OneLeaves
<1>11. ASSUME NEW w \in Workers, ClientTcpEventCb(w) PROVE PlaceInv'
  <2>1. \A v \in Workers :
          /\ v # w => warg'[v] = warg[v] /\ wpc'[v] = wpc[v]
          /\ warg[w] = None /\ wpc'[w] = "erase"
    BY <1>a, <1>11, EventArg DEF ClientTcpEventCb, ArgInv, ServerTypeOK
  <2>2. UNCHANGED <<state, masterVars, m_connList, m_connMap>>
    BY <1>11 DEF ClientTcpEventCb
  <2> QED BY <1>a, <2>1, <2>2, NoneMoves DEF IsAt
<1>12. ASSUME NEW w \in Workers, Erase(w) PROVE PlaceInv'
  <2>1. PICK c \in Conns :
          /\ c = warg[w] /\ state[c] = "open"
          /\ IsOnlyAt(c, "map", w)
    BY <1>a, <1>12, InMap DEF Erase, ArgInv
  <2>2. \A d \in Conns, v \in Workers :
          d \in Range(m_connMap'[v]) <=>
            d \in Range(m_connMap[v]) /\ ~(v = w /\ d = c)
    BY <1>a, <1>12, <2>1, Unregistered
  <2>3. \A v \in Workers : wpc'[v] = IF v = w THEN "free" ELSE wpc[v]
    BY <1>a, <1>12 DEF Erase, ServerTypeOK
  <2>4. IsOnlyAt(c, "worker", w)'
    BY <1>p, <1>12, <2>1, <2>2, <2>3 DEF Erase, IsOnlyAt, IsNowhere, IsAt, Places
  <2>5. \A d \in Conns \ {c} : \A q \in Places, v \in Workers :
          IsAt(d, q, v)' <=> IsAt(d, q, v)
    BY <1>12, <2>1, <2>2, <2>3 DEF Erase, IsAt
  <2>6. state' = state
    BY <1>12 DEF Erase
  <2> QED BY <1>a, <1>p, <2>1, <2>4, <2>5, <2>6, OneMoves
<1> QED
  BY <1>1, <1>2, <1>3, <1>4, <1>5, <1>6, <1>7, <1>8, <1>9, <1>10, <1>11,
     <1>12 DEF ServerNext, Master, Worker, Callback

-----------------------------------------------------------------------------
(* The lists, the arguments of the callbacks and the descriptors.          *)

LEMMA ListStep == ServerIInv /\ ServerNext /\ ~dangling' => ListInv'
<1> SUFFICES ASSUME ServerIInv, ServerNext PROVE ListInv'
  OBVIOUS
<1>a. ServerTypeOK /\ ArgInv /\ ListInv /\ PlaceInv
  BY DEF ServerIInv, ServerNext
<1>1. CASE DispatchSfdToWorker
  <2>1. PICK w \in Workers : w = (m_nLastThread + 1) % WorkerCount
    BY <1>a, NextThread DEF ServerTypeOK
  <2>2. marg \in Conns /\ IsOnlyAt(marg, "master", m_nLastThread)
    BY <1>a, <1>1, WithMaster DEF DispatchSfdToWorker
  <2>3. ~Contains(m_connList[w], marg)
    BY <2>2 DEF IsOnlyAt, IsAt, Places
  <2>4. m_connList' = [m_connList EXCEPT ![w] = Append(@, marg)]
    BY <1>1, <2>1 DEF DispatchSfdToWorker
  <2>5. /\ Len(m_connList'[w]) = Len(m_connList[w]) + 1
        /\ \A i \in 1 .. Len(m_connList[w]) :
             m_connList'[w][i] = m_connList[w][i] /\ m_connList[w][i] # marg
        /\ m_connList'[w][Len(m_connList[w]) + 1] = marg
    <3>1. m_connList[w] \in Seq(Conns)
      BY <1>a DEF ServerTypeOK
    <3>2. m_connList'[w] = Append(m_connList[w], marg)
      BY <1>a, <2>4 DEF ServerTypeOK
    <3>3. \A i \in 1 .. Len(m_connList[w]) : m_connList[w][i] # marg
      BY <2>3 DEF Contains
    <3> QED BY <2>2, <3>1, <3>2, <3>3
  <2>6. \A i, j \in 1 .. Len(m_connList'[w]) :
          m_connList'[w][i] = m_connList'[w][j] => i = j
    <3>1. Len(m_connList[w]) \in Nat
      BY <1>a DEF ServerTypeOK
    <3>2. \A i, j \in 1 .. Len(m_connList[w]) :
            m_connList[w][i] = m_connList[w][j] => i = j
      BY <1>a DEF ListInv
    <3> QED BY <2>5, <3>1, <3>2, SMTT(30)
  <2> QED BY <1>a, <2>4, <2>6 DEF ListInv, ServerTypeOK
<1>2. ASSUME NEW w \in Workers, TakeHead(w) PROVE ListInv'
  <2>1. /\ m_connList' = [m_connList EXCEPT ![w] = Tail(m_connList[w])]
        /\ m_connList[w] \in Seq(Conns) /\ m_connList[w] # <<>>
    BY <1>a, <1>2 DEF TakeHead, Rest, ServerTypeOK
  <2>2. /\ Len(m_connList[w]) \in Nat
        /\ Len(m_connList'[w]) = Len(m_connList[w]) - 1
        /\ \A i \in 1 .. Len(m_connList'[w]) :
             m_connList'[w][i] = m_connList[w][i + 1]
    BY <1>a, <2>1 DEF ServerTypeOK
  <2>3. \A i, j \in 1 .. Len(m_connList'[w]) :
          m_connList'[w][i] = m_connList'[w][j] => i = j
    <3>1. \A i, j \in 1 .. Len(m_connList[w]) :
            m_connList[w][i] = m_connList[w][j] => i = j
      BY <1>a DEF ListInv
    <3> SUFFICES ASSUME NEW i \in 1 .. Len(m_connList'[w]),
                        NEW j \in 1 .. Len(m_connList'[w]),
                        m_connList'[w][i] = m_connList'[w][j]
                 PROVE  i = j
      OBVIOUS
    <3>2. i + 1 \in 1 .. Len(m_connList[w]) /\ j + 1 \in 1 .. Len(m_connList[w])
      BY <2>2
    <3>3. i + 1 = j + 1
      BY <2>2, <3>1, <3>2
    <3> QED BY <3>3
  <2> QED BY <1>a, <2>1, <2>3 DEF ListInv, ServerTypeOK
<1>3. ASSUME m_connList' = m_connList PROVE ListInv'
  BY <1>a, <1>3 DEF ListInv
<1> QED
  BY <1>1, <1>2, <1>3
  DEF ServerNext, Master, Worker, Callback, AccepCb, DispatchFails, WritePipe,
      WriteFails, ReadPipeCb, EndDrain, InitNewConn, InitFails, EventCallback,
      CheckClientKeepaliveCb, ClientTcpEventCb, Erase, CloseConn

\* What ArgInv says of worker w.
ArgOf(w) ==
  /\ wpc[w] \in {"loop", "drain"} <=> warg[w] = None
  /\ wpc[w] = "erase" => warg[w] \in Range(m_connMap[w])
  /\ wpc[w] \in {"drain", "init"} => mapTimeout[w] = {}
  /\ mapTimeout[w] \subseteq
       Range(m_connMap[w]) \cup {c \in {warg[w]} : wpc[w] = "free"}

LEMMA ArgStep == ServerIInv /\ ServerNext /\ ~dangling' => ArgInv'
<1> SUFFICES ASSUME ServerIInv, ServerNext PROVE ArgInv'
  OBVIOUS
<1>a. ServerTypeOK /\ ArgInv /\ FdInv /\ PlaceInv
  BY DEF ServerIInv, ServerNext
<1>b. (mpc = "accept" <=> marg = None) /\ \A v \in Workers : ArgOf(v)
  BY <1>a DEF ArgInv, ArgOf
<1>c. /\ mpc' = "accept" <=> marg' = None
      /\ \A v \in Workers : ArgOf(v)'
      => ArgInv'
  BY DEF ArgInv, ArgOf
<1> USE DEF Run
<1>1. ASSUME UNCHANGED <<wpc, warg, mapTimeout, m_connMap>>,
             mpc' = "accept" <=> marg' = None
      PROVE ArgInv'
  BY <1>b, <1>c, <1>1 DEF ArgOf
<1>2. CASE \/ Master \/ \E c \in Conns : AccepCb(c)
           \/ \E w \in Workers : EventCallback(w)
  <2>1. UNCHANGED <<wpc, warg, mapTimeout, m_connMap>>
    BY <1>2 DEF Master, AccepCb, DispatchFails, DispatchSfdToWorker, WritePipe,
                WriteFails, EventCallback
  <2>2. mpc' = "accept" <=> marg' = None
    BY <1>b, <1>2 DEF Master, AccepCb, DispatchFails, DispatchSfdToWorker,
                      WritePipe, WriteFails, EventCallback
  <2> QED BY <1>1, <2>1, <2>2
<1>3. ASSUME NEW w \in Workers, Worker(w) PROVE ArgInv'
  <2>1. mpc' = "accept" <=> marg' = None
    BY <1>b, <1>3
    DEF Worker, Callback, ReadPipeCb, TakeHead, EndDrain, InitNewConn, InitFails,
        CheckClientKeepaliveCb, ClientTcpEventCb, Erase, CloseConn
  <2>2. ASSUME NEW v \in Workers, v # w PROVE ArgOf(v)'
    <3>1. /\ wpc'[v] = wpc[v] /\ warg'[v] = warg[v]
          /\ mapTimeout'[v] = mapTimeout[v] /\ m_connMap'[v] = m_connMap[v]
      <4>1. CASE ReadPipeCb(w) \/ TakeHead(w) \/ EndDrain(w)
        BY <1>a, <2>2, <4>1 DEF ReadPipeCb, TakeHead, EndDrain, ServerTypeOK
      <4>2. CASE InitNewConn(w) \/ InitFails(w)
        BY <1>a, <2>2, <4>2 DEF InitNewConn, InitFails, ServerTypeOK
      <4>3. CASE CheckClientKeepaliveCb(w)
        <5>1. PICK S : mapTimeout' = [mapTimeout EXCEPT ![w] = S]
          BY <4>3 DEF CheckClientKeepaliveCb
        <5> QED BY <1>a, <2>2, <4>3, <5>1 DEF CheckClientKeepaliveCb, ServerTypeOK
      <4>4. CASE ClientTcpEventCb(w)
        BY <1>a, <2>2, <4>4, EventArg DEF ClientTcpEventCb, ServerTypeOK
      <4>5. CASE Erase(w) \/ CloseConn(w)
        BY <1>a, <2>2, <4>5 DEF Erase, CloseConn, ServerTypeOK
      <4> QED BY <1>3, <4>1, <4>2, <4>3, <4>4, <4>5 DEF Worker, Callback
    <3>2. ArgOf(v)
      BY <1>b
    <3> QED BY <3>1, <3>2 DEF ArgOf
  <2>3. ArgOf(w)'
    <3>a. ArgOf(w)
      BY <1>b
    <3>1. CASE ReadPipeCb(w) \/ EndDrain(w)
      BY <1>a, <3>a, <3>1 DEF ReadPipeCb, EndDrain, Waiting, ArgOf, ServerTypeOK
    <3>2. CASE TakeHead(w)
      <4>1. Head(m_connList[w]) # None
        BY <1>a, <3>2 DEF TakeHead, ServerTypeOK
      <4> QED BY <1>a, <3>a, <3>2, <4>1 DEF TakeHead, ArgOf, ServerTypeOK
    <3>3. CASE InitNewConn(w) \/ InitFails(w)
      BY <1>a, <3>a, <3>3 DEF InitNewConn, InitFails, ArgOf, ServerTypeOK
    <3>4. CASE CheckClientKeepaliveCb(w)
      <4>1. PICK S \in SUBSET Range(m_connMap[w]) :
              mapTimeout' = [mapTimeout EXCEPT ![w] = S]
        BY <3>4 DEF CheckClientKeepaliveCb
      <4> QED BY <1>a, <3>a, <3>4, <4>1
              DEF CheckClientKeepaliveCb, Waiting, ArgOf, ServerTypeOK
    <3>5. CASE ClientTcpEventCb(w)
      <4>1. warg'[w] \in Conns /\ warg'[w] \in Range(m_connMap[w])
        BY <1>a, <3>5, EventArg
      <4>2. wpc[w] = "loop" /\ wpc'[w] = "erase"
        BY <1>a, <3>5 DEF ClientTcpEventCb, ServerTypeOK
      <4>3. UNCHANGED <<m_connMap, mapTimeout>>
        BY <3>5 DEF ClientTcpEventCb
      <4> QED BY <3>a, <4>1, <4>2, <4>3 DEF ArgOf
    <3>6. CASE Erase(w)
      <4>1. /\ wpc[w] = "erase" /\ wpc'[w] = "free"
            /\ warg'[w] = warg[w] /\ mapTimeout'[w] = mapTimeout[w]
        BY <1>a, <3>6 DEF Erase, ServerTypeOK
      <4>2. mapTimeout[w] \subseteq Conns
        BY <1>a DEF ServerTypeOK
      <4>3. \A d \in Conns : d \in Range(m_connMap[w]) =>
                              d \in Range(m_connMap'[w]) \/ d = warg[w]
        BY <1>a, <3>6, Unregistered
      <4> QED BY <3>a, <4>1, <4>2, <4>3 DEF ArgOf
    <3>7. CASE CloseConn(w)
      BY <1>a, <3>a, <3>7 DEF CloseConn, ArgOf, ServerTypeOK
    <3> QED BY <1>3, <3>1, <3>2, <3>3, <3>4, <3>5, <3>6, <3>7 DEF Worker, Callback
  <2> QED BY <1>c, <2>1, <2>2, <2>3
<1> QED BY <1>2, <1>3 DEF ServerNext

\* A descriptor is closed when its connection is freed.
LEMMA FdClosed ==
  ASSUME ServerTypeOK, FdInv, NEW c \in Conns, state[c] = "open",
         usedFds' = usedFds \ {sfd[c]}, state' = [state EXCEPT ![c] = "freed"],
         UNCHANGED <<sfd, m_connMap>>
  PROVE  FdInv'
<1>1. \A d \in Conns : state'[d] = "open" => d # c /\ state[d] = "open"
  BY DEF ServerTypeOK
<1>2. \A d \in Conns : state'[d] = "open" => sfd[d] # sfd[c]
  BY <1>1 DEF FdInv
<1> QED BY <1>1, <1>2 DEF FdInv

LEMMA FdStep == ServerIInv /\ ServerNext /\ ~dangling' => FdInv'
<1> SUFFICES ASSUME ServerIInv, ServerNext, ~dangling' PROVE FdInv'
  OBVIOUS
<1>a. ServerTypeOK /\ ArgInv /\ FdInv /\ PlaceInv
  BY DEF ServerIInv, ServerNext
<1>1. ASSUME NEW c \in Conns, AccepCb(c) PROVE FdInv'
  <2>1. PICK fd \in Fds \ usedFds :
          usedFds' = usedFds \cup {fd} /\ sfd' = [sfd EXCEPT ![c] = fd]
    BY <1>1 DEF AccepCb
  <2>2. /\ \A d \in Conns : sfd'[d] = IF d = c THEN fd ELSE sfd[d]
        /\ \A d \in Conns : state'[d] = IF d = c THEN "open" ELSE state[d]
    BY <1>a, <1>1, <2>1 DEF AccepCb, ServerTypeOK
  <2>3. /\ \A d \in Conns : state'[d] = "open" => sfd'[d] \in usedFds'
        /\ \A d, e \in Conns :
             state'[d] = "open" /\ state'[e] = "open" /\ sfd'[d] = sfd'[e] => d = e
    BY <1>a, <2>1, <2>2 DEF FdInv
  <2>4. ASSUME NEW w \in Workers, NEW x \in DOMAIN m_connMap[w]
        PROVE sfd'[m_connMap[w][x]] = x
    <3>1. m_connMap[w][x] \in Range(m_connMap[w])
      BY DEF Range
    <3>2. m_connMap[w][x] \in Conns /\ state[m_connMap[w][x]] = "open"
      BY <1>a, <3>1, InMap
    <3> QED BY <1>a, <1>1, <2>2, <3>2 DEF AccepCb, FdInv
  <2>5. m_connMap' = m_connMap
    BY <1>1 DEF AccepCb
  <2> QED BY <2>3, <2>4, <2>5 DEF FdInv
<1>2. CASE DispatchFails
  <2>1. marg \in Conns /\ state[marg] = "open"
    BY <1>a, <1>2, WithMaster DEF DispatchFails
  <2> QED BY <1>a, <1>2, <2>1, FdClosed DEF DispatchFails
<1>3. CASE WriteFails
  BY <1>3 DEF WriteFails
<1>4. ASSUME NEW w \in Workers, InitFails(w) \/ CloseConn(w) PROVE FdInv'
  <2>1. warg[w] \in Conns /\ state[warg[w]] = "open"
    BY <1>a, <1>4, InHand DEF InitFails, CloseConn
  <2>2. /\ usedFds' = usedFds \ {sfd[warg[w]]}
        /\ state' = [state EXCEPT ![warg[w]] = "freed"]
        /\ UNCHANGED <<sfd, m_connMap>>
    BY <1>4 DEF InitFails, CloseConn
  <2> QED BY <1>a, <2>1, <2>2, FdClosed
<1>5. ASSUME NEW w \in Workers, InitNewConn(w) PROVE FdInv'
  <2>1. m_connMap' = [m_connMap EXCEPT ![w] = MapWith(w, sfd[warg[w]], warg[w])]
    BY <1>5 DEF InitNewConn
  <2>2. UNCHANGED connVars
    BY <1>5 DEF InitNewConn
  <2>3. \A v \in Workers : \A x \in DOMAIN m_connMap'[v] :
          \/ x \in DOMAIN m_connMap[v] /\ m_connMap'[v][x] = m_connMap[v][x]
          \/ x = sfd[warg[w]] /\ m_connMap'[v][x] = warg[w]
    BY <1>a, <2>1 DEF MapWith, ServerTypeOK
  <2>4. \A v \in Workers : \A x \in DOMAIN m_connMap'[v] :
          sfd[m_connMap'[v][x]] = x
    BY <1>a, <2>3 DEF FdInv
  <2> QED BY <1>a, <2>2, <2>4 DEF FdInv
<1>6. ASSUME NEW w \in Workers, Erase(w) PROVE FdInv'
  <2>1. m_connMap' = [m_connMap EXCEPT ![w] = MapWithout(w, sfd[warg[w]])]
    BY <1>6 DEF Erase
  <2>2. UNCHANGED connVars
    BY <1>6 DEF Erase
  <2>3. \A v \in Workers : \A x \in DOMAIN m_connMap'[v] :
          x \in DOMAIN m_connMap[v] /\ m_connMap'[v][x] = m_connMap[v][x]
    BY <1>a, <2>1 DEF MapWithout, ServerTypeOK
  <2> QED BY <1>a, <2>2, <2>3 DEF FdInv
<1>7. ASSUME UNCHANGED <<connVars, m_connMap>> PROVE FdInv'
  BY <1>a, <1>7 DEF FdInv
<1> QED
  BY <1>1, <1>2, <1>3, <1>4, <1>5, <1>6, <1>7
  DEF ServerNext, Master, Worker, Callback, DispatchSfdToWorker, WritePipe,
      ReadPipeCb, TakeHead, EndDrain, EventCallback, CheckClientKeepaliveCb,
      ClientTcpEventCb

-----------------------------------------------------------------------------
LEMMA ServerInitInv == ServerInit => ServerIInv
<1> SUFFICES ASSUME ServerInit PROVE ServerIInv
  OBVIOUS
<1>1. ServerTypeOK
  BY ServerTypeInit
<1>2. \A w \in Workers : m_connMap[w] = <<>> /\ DOMAIN m_connMap[w] = {}
  BY DEF ServerInit
<1>3. ArgInv /\ ListInv
  BY <1>2 DEF ServerInit, ArgInv, ListInv
<1>4. FdInv
  BY <1>2 DEF ServerInit, FdInv
<1>5. \A c \in Conns : state[c] = "new" /\ IsNowhere(c)
  BY <1>2 DEF ServerInit, IsNowhere, IsAt, Range, Contains
<1>6. PlaceInv
  BY <1>5 DEF PlaceInv
<1> QED BY <1>1, <1>3, <1>4, <1>6 DEF ServerIInv

(* Along every run of the server, whatever fails, the arguments, the       *)
(* descriptors, the lists and the places of the connections fit together,  *)
(* until a write to a pipe fails.                                          *)
THEOREM ServerInvariance == ServerSpec => []ServerIInv
<1>1. ServerInit => ServerIInv
  BY ServerInitInv
<1>2. ServerIInv /\ [ServerNext]_serverVars => ServerIInv'
  <2>1. ServerIInv /\ ServerNext => ServerIInv'
    BY ServerTypeStep, ArgStep, FdStep, ListStep, PlaceStep DEF ServerIInv
  <2>2. ServerIInv /\ UNCHANGED serverVars => ServerIInv'
    BY DEF ServerIInv, ServerTypeOK, ArgInv, FdInv, ListInv, PlaceInv, IsOnlyAt,
           IsNowhere, IsAt, serverVars
  <2> QED BY <2>1, <2>2
<1> QED BY <1>1, <1>2, PTL DEF ServerSpec

(* DispatchSfdToWorker, ReadPipeCb and CloseConn hand each open connection *)
(* on to one owner and leave none behind, and a descriptor that is used    *)
(* again names one connection.                                             *)
THEOREM OneOwnerHolds == ServerSpec => []OneOwner
<1>1. ServerIInv => OneOwner
  <2> SUFFICES ASSUME ServerTypeOK, FdInv, PlaceInv PROVE OneOwner
    BY DEF ServerIInv, OneOwner
  <2>1. ASSUME NEW c \in Conns
        PROVE Cardinality(Owners(c)) = IF state[c] = "open" THEN 1 ELSE 0
    <3>1. CASE state[c] = "open"
      <4>1. PICK place \in Places, w \in Workers : IsOnlyAt(c, place, w)
        BY <3>1 DEF PlaceInv
      <4>2. Owners(c) = {<<place, w>>}
        BY <4>1 DEF Owners, IsOnlyAt
      <4> QED BY <3>1, <4>2, FS_Singleton
    <3>2. CASE state[c] # "open"
      <4>1. Owners(c) = {}
        BY <3>2 DEF PlaceInv, IsNowhere, Owners
      <4> QED BY <3>2, <4>1, FS_EmptySet
    <3> QED BY <3>1, <3>2
  <2>2. ASSUME NEW w \in Workers, NEW fd \in DOMAIN m_connMap[w]
        PROVE /\ m_connMap[w][fd] \in Conns /\ state[m_connMap[w][fd]] = "open"
              /\ IsOnlyAt(m_connMap[w][fd], "map", w)
              /\ sfd[m_connMap[w][fd]] = fd /\ fd \in usedFds
    <3>1. m_connMap[w][fd] \in Range(m_connMap[w])
      BY DEF Range
    <3>2. sfd[m_connMap[w][fd]] = fd
      BY DEF FdInv
    <3> QED BY <3>1, <3>2, InMap DEF FdInv
  <2>3. ASSUME NEW w \in Workers, NEW v \in Workers \ {w},
               NEW fd \in DOMAIN m_connMap[w], fd \in DOMAIN m_connMap[v]
        PROVE FALSE
    <3>1. m_connMap[w][fd] = m_connMap[v][fd]
      BY <2>2, <2>3 DEF FdInv
    <3>2. "map" \in Places /\ IsAt(m_connMap[w][fd], "map", v)
      BY <2>3, <3>1 DEF Places, IsAt, Range
    <3> QED BY <2>2, <3>2 DEF IsOnlyAt
  <2> QED BY <2>1, <2>2, <2>3 DEF OneOwner
<1> QED BY <1>1, ServerInvariance, PTL
=============================================================================
