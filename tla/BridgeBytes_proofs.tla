-------------------------- MODULE BridgeBytes_proofs --------------------------
(***************************************************************************)
(* The bytes of the bridge: those of its link, for every frame and every    *)
(* body of any length, and those of the receive queues of its firmware, for *)
(* any queues, slices and records.                                          *)
(***************************************************************************)
EXTENDS BridgeCodec, ReceiveQueue, SequenceTheorems, FiniteSetTheorems,
        WellFoundedInduction, TLAPS

-----------------------------------------------------------------------------
(* Loops                                                                    *)

\* Induction over the numbers, for a property that a set expresses.
LEMMA NumbersFromZero ==
    ASSUME NEW S, 0 \in S, \A n \in Nat : n \in S => n + 1 \in S
    PROVE  Nat \subseteq S
<1> SUFFICES ASSUME Nat \ S # {} PROVE FALSE
  OBVIOUS
<1>1. IsWellFoundedOn(OpToRel(<, Nat), Nat)
  BY NatLessThanWellFounded
<1>2. PICK least \in Nat \ S : \A n \in Nat \ S : <<n, least>> \notin OpToRel(<, Nat)
  BY <1>1, WFMin
<1>3. \A n \in Nat : n < least => n \in S
  BY <1>2 DEF OpToRel
<1>4. least \in Nat /\ least \notin S /\ least # 0 /\ least - 1 \in Nat
  OBVIOUS
<1>5. least - 1 \in S
  BY <1>3, <1>4
<1> QED
  BY <1>4, <1>5

\* The same up to a bound: what holds at first and after each round.
LEMMA LoopInvariant ==
    ASSUME NEW P, NEW size \in Nat, 0 \in P, \A n \in 0..(size - 1) : n \in P => n + 1 \in P
    PROVE  \A n \in 0..size : n \in P
<1> DEFINE N == {n \in Nat : n <= size => n \in P}
<1>1. 0 \in N
  OBVIOUS
<1>2. \A n \in Nat : n \in N => n + 1 \in N
  OBVIOUS
<1>3. Nat \subseteq N
  <2> HIDE DEF N
  <2> QED
    BY <1>1, <1>2, NumbersFromZero
<1> QED
  BY <1>3

\* The states of a loop of `size` rounds from x on.
IsLoop(f, S, x, size, step) ==
    /\ f \in [0..size -> S] /\ f[0] = x
    /\ \A i \in 0..(size - 1) : f[i + 1] = step[<<i + 1, f[i]>>]

\* Every loop has its states, whatever its rounds do.
LEMMA LoopHasStates ==
    ASSUME NEW S, NEW x, x \in S, NEW size, size \in Nat,
           NEW step, step \in [(1..size) \X S -> S]
    PROVE  \E f : IsLoop(f, S, x, size, step)
<1> DEFINE Good(n, f) == f[0] = x /\ \A i \in 0..(n - 1) : f[i + 1] = step[<<i + 1, f[i]>>]
           N == {n \in Nat : n <= size => \E f \in [0..n -> S] : Good(n, f)}
<1>1. 0 \in N
  <2>1. [i \in 0..0 |-> x] \in [0..0 -> S] /\ Good(0, [i \in 0..0 |-> x])
    OBVIOUS
  <2> QED
    BY <2>1
<1>2. ASSUME NEW n \in Nat, n \in N PROVE n + 1 \in N
  <2> SUFFICES ASSUME n + 1 <= size PROVE \E f \in [0..(n + 1) -> S] : Good(n + 1, f)
    OBVIOUS
  <2>1. PICK f \in [0..n -> S] : Good(n, f)
    BY <1>2
  <2> DEFINE last == step[<<n + 1, f[n]>>]
             g == [i \in 0..(n + 1) |-> IF i = n + 1 THEN last ELSE f[i]]
  <2>2. n \in 0..n /\ f[n] \in S /\ <<n + 1, f[n]>> \in (1..size) \X S
    OBVIOUS
  <2>3. last \in S
    BY <2>2
  <2> HIDE DEF last
  <2>4. g \in [0..(n + 1) -> S] /\ g[n + 1] = last /\ \A i \in 0..n : g[i] = f[i]
    BY <2>3
  <2>5. g[n + 1] = step[<<n + 1, g[n]>>]
    BY <2>2, <2>4 DEF last
  <2> HIDE DEF g
  <2>6. \A i \in 0..(n - 1) : g[i + 1] = step[<<i + 1, g[i]>>]
    BY <2>1, <2>4
  <2>7. \A i \in 0..n : g[i + 1] = step[<<i + 1, g[i]>>]
    <3>1. \A i \in 0..n : i = n \/ i \in 0..(n - 1)
      OBVIOUS
    <3> QED
      BY <2>5, <2>6, <3>1
  <2>8. Good(n + 1, g)
    BY <2>1, <2>4, <2>7
  <2> QED
    BY <2>4, <2>8
<1>3. size \in N
  <2> HIDE DEF N
  <2> QED
    BY <1>1, <1>2, NumbersFromZero
<1> QED
  BY <1>3 DEF IsLoop

\* A function of the positions up to `size` each of whose values follows from
\* those of later positions.
IsBackward(f, D, size, value) ==
    /\ f \in [1..size -> D]
    /\ \A i \in 1..size : f[i] = value[<<i, f>>]

\* A function whose value at i rests on those after i exists.
LEMMA BackwardHasValues ==
    ASSUME NEW D, NEW none, none \in D, NEW size, size \in Nat,
           NEW value, value \in [(1..size) \X [1..size -> D] -> D],
           \A i \in 1..size : \A f, g \in [1..size -> D] :
               (\A j \in 1..size : i < j => f[j] = g[j]) => value[<<i, f>>] = value[<<i, g>>]
    PROVE  \E f : IsBackward(f, D, size, value)
<1> DEFINE Good(n, f) == \A i \in 1..size : size - n < i => f[i] = value[<<i, f>>]
           N == {n \in Nat : n <= size => \E f \in [1..size -> D] : Good(n, f)}
<1>1. 0 \in N
  <2>1. [i \in 1..size |-> none] \in [1..size -> D] /\ Good(0, [i \in 1..size |-> none])
    OBVIOUS
  <2> QED
    BY <2>1
<1>2. ASSUME NEW n \in Nat, n \in N PROVE n + 1 \in N
  <2> SUFFICES ASSUME n + 1 <= size PROVE \E f \in [1..size -> D] : Good(n + 1, f)
    <3> HIDE DEF Good
    <3> QED
      OBVIOUS
  <2>1. PICK f \in [1..size -> D] : Good(n, f)
    <3> HIDE DEF Good
    <3>1. n <= size => \E f \in [1..size -> D] : Good(n, f)
      BY <1>2
    <3>2. n <= size
      OBVIOUS
    <3> QED
      BY <3>1, <3>2
  <2> DEFINE here == size - n
             new == value[<<here, f>>]
             g == [i \in 1..size |-> IF i = here THEN new ELSE f[i]]
  <2>2. here \in 1..size
    OBVIOUS
  <2>3. new \in D
    BY <2>2
  <2> HIDE DEF new
  <2>4. g \in [1..size -> D] /\ g[here] = new /\ \A i \in 1..size : i # here => g[i] = f[i]
    BY <2>2, <2>3
  <2> HIDE DEF g
  <2>5. ASSUME NEW i \in 1..size, here <= i PROVE value[<<i, g>>] = value[<<i, f>>]
    <3>1. \A j \in 1..size : i < j => f[j] = g[j]
      BY <2>2, <2>4, <2>5
    <3> QED
      BY <3>1, <2>4
  <2>6. ASSUME NEW i \in 1..size, here <= i PROVE g[i] = value[<<i, g>>]
    <3>1. CASE i = here
      <4>1. g[i] = value[<<i, f>>]
        BY <2>4, <3>1 DEF new
      <4> QED
        BY <2>5, <2>6, <4>1
    <3>2. CASE i # here
      <4>1. f[i] = value[<<i, f>>]
        <5>1. size - n < i
          BY <2>2, <2>6, <3>2
        <5>2. \A m \in 1..size : size - n < m => f[m] = value[<<m, f>>]
          BY <2>1
        <5> QED
          BY <5>1, <5>2
      <4> QED
        BY <2>4, <2>5, <2>6, <3>2, <4>1
    <3> QED
      BY <3>1, <3>2
  <2>7. \A i \in 1..size : size - (n + 1) < i => here <= i
    OBVIOUS
  <2>8. Good(n + 1, g)
    BY <2>6, <2>7
  <2> QED
    BY <2>4, <2>8
<1>3. size \in N
  <2> HIDE DEF N
  <2> QED
    BY <1>1, <1>2, NumbersFromZero
<1>4. PICK f \in [1..size -> D] : Good(size, f)
  <2> HIDE DEF Good
  <2> QED
    BY <1>3
<1>5. \A i \in 1..size : size - size < i
  OBVIOUS
<1> QED
  BY <1>4, <1>5 DEF IsBackward

-----------------------------------------------------------------------------
(* Bytes                                                                    *)

Bytes == 0..Full
Frames == Seq(Bytes) \ {<<>>}

\* What a frame that arrives is made of: no delimiter is among its bytes.
ZeroFree == Seq(1..Full)

\* What the bytes of an encoding may be.
LEMMA BytesOf ==
    ASSUME NEW e \in Seq(Bytes)
    PROVE  Len(e) \in Nat /\ \A i \in 1..Len(e) : e[i] \in Nat /\ e[i] <= Full
  BY CodecAssumption DEF Bytes

\* Bytes from the middle of a sequence.
LEMMA Middle ==
    ASSUME NEW S, NEW e \in Seq(S), NEW i \in Nat \ {0}, NEW j \in Nat, j <= Len(e)
    PROVE  /\ SubSeq(e, i, j) \in Seq(S)
           /\ Len(SubSeq(e, i, j)) = IF i <= j THEN j - i + 1 ELSE 0
           /\ \A k \in 1..(j - i + 1) : SubSeq(e, i, j)[k] = e[i + k - 1]
<1>1. \A k \in i..j : e[k] \in S
  OBVIOUS
<1>2. \A k \in 1..(j - i + 1) : i + k - 1 \in Int /\ i + k - 1 = k + i - 1
  OBVIOUS
<1> QED
  BY <1>1, <1>2, SubSeqProperties

\* What a block adds to the output.
BlockData(e, i, next) ==
    SubSeq(e, i + 1, next - 1) \o (IF e[i] # Full /\ next <= Len(e) THEN <<0>> ELSE <<>>)

\* The data of a block are bytes.
LEMMA BlockDataType ==
    ASSUME NEW e \in Seq(Bytes), NEW i \in 1..Len(e), NEW next \in Nat,
           i < next, next <= Len(e) + 1
    PROVE  BlockData(e, i, next) \in Seq(Bytes)
<1>1. SubSeq(e, i + 1, next - 1) \in Seq(Bytes)
  BY Middle
<1>2. <<0>> \in Seq(Bytes) /\ <<>> \in Seq(Bytes)
  BY CodecAssumption DEF Bytes
<1> QED
  BY <1>1, <1>2 DEF BlockData

-----------------------------------------------------------------------------
(* The device decodes                                                       *)

DeviceStates == [read : Nat \ {0}, out : Seq(Bytes) \cup {Bad}]

\* A block takes the device's decoder from state to state.
LEMMA DeviceBlockType ==
    ASSUME NEW e \in Seq(Bytes), NEW s \in DeviceStates
    PROVE  DeviceBlock(e, s) \in DeviceStates
<1>1. CASE s.out = Bad \/ s.read > Len(e)
  BY <1>1 DEF DeviceBlock
<1>2. CASE ~(s.out = Bad \/ s.read > Len(e))
  <2> DEFINE next == s.read + e[s.read]
  <2>1. s.read \in 1..Len(e) /\ s.out \in Seq(Bytes) /\ e[s.read] \in Nat
    BY <1>2, BytesOf DEF DeviceStates
  <2>2. CASE e[s.read] = 0 \/ next > Len(e) + 1
    <3>1. DeviceBlock(e, s) = [s EXCEPT !.out = Bad]
      BY <1>2, <2>2 DEF DeviceBlock
    <3> QED
      BY <3>1 DEF DeviceStates
  <2>3. CASE ~(e[s.read] = 0 \/ next > Len(e) + 1)
    <3>1. next \in Nat /\ s.read < next /\ next <= Len(e) + 1
      BY <2>1, <2>3
    <3>2. SubSeq(e, s.read + 1, next - 1) \in Seq(Bytes)
      BY <2>1, <3>1, Middle
    <3>3. BlockData(e, s.read, next) \in Seq(Bytes)
      BY <2>1, <3>1, BlockDataType
    <3>4. DeviceBlock(e, s) = [read |-> next, out |-> s.out \o SubSeq(e, s.read + 1, next - 1)
                           \o (IF e[s.read] # Full /\ next <= Len(e) THEN <<0>> ELSE <<>>)]
      BY <1>2, <2>3 DEF DeviceBlock
    <3> HIDE DEF next
    <3>5. <<0>> \in Seq(Bytes) /\ <<>> \in Seq(Bytes)
      BY CodecAssumption DEF Bytes
    <3> QED
      BY <2>1, <3>1, <3>2, <3>4, <3>5 DEF DeviceStates
  <2> QED
    BY <2>2, <2>3
<1> QED
  BY <1>1, <1>2

\* The states of the device's decoder, block by block.
LEMMA DeviceRounds ==
    ASSUME NEW e \in Seq(Bytes)
    PROVE  LET f == DeviceBlocks(e)
           IN  /\ f \in [0..Len(e) -> DeviceStates]
               /\ f[0] = [read |-> 1, out |-> <<>>]
               /\ \A n \in 0..(Len(e) - 1) : f[n + 1] = DeviceBlock(e, f[n])
<1> DEFINE start == [read |-> 1, out |-> <<>>]
           Defines(f) == f = [n \in 0..Len(e) |-> IF n = 0 THEN start ELSE DeviceBlock(e, f[n - 1])]
           step == [p \in (1..Len(e)) \X DeviceStates |-> DeviceBlock(e, p[2])]
<1>1. Len(e) \in Nat /\ start \in DeviceStates
  BY DEF DeviceStates
<1>2. step \in [(1..Len(e)) \X DeviceStates -> DeviceStates]
  BY DeviceBlockType
<1>3. PICK f \in [0..Len(e) -> DeviceStates] :
          f[0] = start /\ \A i \in 0..(Len(e) - 1) : f[i + 1] = step[<<i + 1, f[i]>>]
  <2> HIDE DEF start, step
  <2>1. \E f : IsLoop(f, DeviceStates, start, Len(e), step)
    BY <1>1, <1>2, LoopHasStates
  <2> QED
    BY <2>1 DEF IsLoop
<1>4. \A i \in 0..(Len(e) - 1) : f[i + 1] = DeviceBlock(e, f[i])
  BY <1>1, <1>3
<1>5. \A n \in 0..Len(e) : n = 0 \/ (n - 1 \in 0..(Len(e) - 1) /\ n - 1 + 1 = n)
  BY <1>1
<1>6. Defines(f)
  <2> HIDE DEF start
  <2>1. \A n \in 0..Len(e) : f[n] = IF n = 0 THEN start ELSE DeviceBlock(e, f[n - 1])
    BY <1>3, <1>4, <1>5
  <2> QED
    BY <2>1
<1>7. DeviceBlocks(e) = CHOOSE g : Defines(g)
  BY DEF DeviceBlocks
<1>8. Defines(DeviceBlocks(e))
  <2> HIDE DEF Defines
  <2> QED
    BY <1>6, <1>7
<1> DEFINE g == DeviceBlocks(e)
<1>9. g[0] = start /\ \A n \in 0..(Len(e) - 1) : g[n + 1] = DeviceBlock(e, g[n])
  <2> HIDE DEF start, g
  <2>1. g = [n \in 0..Len(e) |-> IF n = 0 THEN start ELSE DeviceBlock(e, g[n - 1])]
    BY <1>8 DEF g
  <2>2. \A n \in 0..(Len(e) - 1) : n + 1 \in 0..Len(e) /\ n + 1 # 0 /\ n + 1 - 1 = n
    BY <1>1
  <2>3. 0 \in 0..Len(e)
    BY <1>1
  <2>4. DOMAIN g = 0..Len(e)
    BY <2>1
  <2> QED
    BY <2>1, <2>2, <2>3, <2>4
<1>10. g \in [0..Len(e) -> DeviceStates]
  <2> DEFINE P == {n \in 0..Len(e) : g[n] \in DeviceStates}
  <2> HIDE DEF g, start
  <2>1. 0 \in P
    BY <1>1, <1>9
  <2>2. \A n \in 0..(Len(e) - 1) : n \in P => n + 1 \in P
    BY <1>1, <1>9, DeviceBlockType
  <2>3. \A n \in 0..Len(e) : n \in P
    <3> HIDE DEF P
    <3> QED
      BY <1>1, <2>1, <2>2, LoopInvariant
  <2>4. g = [n \in 0..Len(e) |-> IF n = 0 THEN start ELSE DeviceBlock(e, g[n - 1])]
    BY <1>8 DEF g
  <2>5. DOMAIN g = 0..Len(e)
    BY <2>4
  <2> QED
    BY <2>3, <2>4, <2>5
<1> QED
  BY <1>9, <1>10

-----------------------------------------------------------------------------
(* The host decodes                                                         *)

Outputs == Seq(Bytes) \cup {Bad}

\* What the position i starts, when f says it of the later ones.
HostAt(e, f, i) ==
    IF i > Len(e) THEN <<>>
    ELSE LET next == i + e[i]
             rest == IF e[i] > 0 /\ next <= Len(e) + 1 THEN f[next] ELSE Bad
         IN  IF rest = Bad THEN Bad
             ELSE SubSeq(e, i + 1, next - 1)
                  \o (IF e[i] # Full /\ next <= Len(e) THEN <<0>> ELSE <<>>) \o rest

\* A block of the host's decoder gives bytes or Bad.
LEMMA HostAtType ==
    ASSUME NEW e \in Seq(Bytes), NEW f \in [1..(Len(e) + 1) -> Outputs], NEW i \in 1..(Len(e) + 1)
    PROVE  HostAt(e, f, i) \in Outputs
<1>1. CASE i > Len(e)
  BY <1>1 DEF HostAt, Outputs
<1>2. CASE i <= Len(e)
  <2> DEFINE next == i + e[i]
             rest == IF e[i] > 0 /\ next <= Len(e) + 1 THEN f[next] ELSE Bad
  <2>1. i \in 1..Len(e) /\ e[i] \in Nat
    BY <1>2, BytesOf
  <2>2. CASE rest = Bad
    <3>1. HostAt(e, f, i) = Bad
      BY <2>1, <2>2 DEF HostAt
    <3> QED
      BY <3>1 DEF Outputs
  <2>3. CASE rest # Bad
    <3>1. e[i] > 0 /\ next <= Len(e) + 1 /\ next \in Nat /\ i < next
      BY <2>1, <2>3
    <3>2. rest \in Seq(Bytes)
      BY <2>3, <3>1 DEF Outputs
    <3>3. SubSeq(e, i + 1, next - 1) \in Seq(Bytes)
      BY <2>1, <3>1, Middle
    <3>4. HostAt(e, f, i) = SubSeq(e, i + 1, next - 1)
                  \o (IF e[i] # Full /\ next <= Len(e) THEN <<0>> ELSE <<>>) \o rest
      <4>1. ~(i > Len(e))
        BY <2>1
      <4> QED
        BY <2>3, <4>1, Zenon DEF HostAt
    <3> HIDE DEF next, rest
    <3>5. <<0>> \in Seq(Bytes) /\ <<>> \in Seq(Bytes)
      BY CodecAssumption DEF Bytes
    <3> QED
      BY <3>2, <3>3, <3>4, <3>5 DEF Outputs
  <2> QED
    BY <2>2, <2>3
<1> QED
  BY <1>1, <1>2

\* The output of the host's decoder from a position on is that of the block there.
LEMMA HostPositions ==
    ASSUME NEW e \in Seq(Bytes)
    PROVE  LET f == HostBlocks(e)
           IN  \A i \in 1..(Len(e) + 1) : f[i] = HostAt(e, f, i)
<1> DEFINE size == Len(e) + 1
           Defines(f) == f = [i \in 1..size |-> HostAt(e, f, i)]
           value == [p \in (1..size) \X [1..size -> Outputs] |-> HostAt(e, p[2], p[1])]
<1>1. size \in Nat /\ <<>> \in Outputs
  BY DEF Outputs
<1>2. value \in [(1..size) \X [1..size -> Outputs] -> Outputs]
  BY HostAtType
<1>3. \A i \in 1..size : \A f, g \in [1..size -> Outputs] :
          (\A j \in 1..size : i < j => f[j] = g[j]) => HostAt(e, f, i) = HostAt(e, g, i)
  <2> SUFFICES ASSUME NEW i \in 1..size, NEW f \in [1..size -> Outputs],
                      NEW g \in [1..size -> Outputs],
                      \A j \in 1..size : i < j => f[j] = g[j]
               PROVE  HostAt(e, f, i) = HostAt(e, g, i)
    OBVIOUS
  <2>1. CASE i > Len(e)
    BY <2>1 DEF HostAt
  <2>2. CASE i <= Len(e)
    <3>1. e[i] \in Nat
      BY <2>2, BytesOf
    <3>2. e[i] > 0 /\ i + e[i] <= Len(e) + 1 => f[i + e[i]] = g[i + e[i]]
      BY <3>1
    <3> QED
      BY <3>1, <3>2, <2>2 DEF HostAt
  <2> QED
    BY <2>1, <2>2
<1>4. \A i \in 1..size : \A f, g \in [1..size -> Outputs] :
          (\A j \in 1..size : i < j => f[j] = g[j]) => value[<<i, f>>] = value[<<i, g>>]
  BY <1>3
<1>5. PICK f : IsBackward(f, Outputs, size, value)
  <2> HIDE DEF size, value
  <2> QED
    BY <1>1, <1>2, <1>4, BackwardHasValues
<1>6. f \in [1..size -> Outputs] /\ \A i \in 1..size : f[i] = value[<<i, f>>]
  <2> HIDE DEF size, value
  <2> QED
    BY <1>5 DEF IsBackward
<1>7. \A i \in 1..size : f[i] = HostAt(e, f, i)
  BY <1>6
<1>8. Defines(f)
  BY <1>6, <1>7
<1>9. HostBlocks(e) = CHOOSE g : Defines(g)
  BY DEF HostBlocks, HostAt
<1>10. Defines(HostBlocks(e))
  <2> HIDE DEF Defines
  <2> QED
    BY <1>8, <1>9
<1> DEFINE g == HostBlocks(e)
<1>11. g = [i \in 1..size |-> HostAt(e, g, i)]
  BY <1>10
<1>12. \A i \in 1..size : g[i] = HostAt(e, g, i)
  <2> HIDE DEF g, size
  <2> QED
    BY <1>11
<1> QED
  BY <1>12

\* From each position on that output is bytes or Bad.
LEMMA HostPositionsType ==
    ASSUME NEW e \in Seq(Bytes)
    PROVE  \A i \in 1..(Len(e) + 1) : HostBlocks(e)[i] \in Outputs
<1> DEFINE f == HostBlocks(e)
           P == {n \in 0..(Len(e) + 1) : \A i \in 1..(Len(e) + 1) : Len(e) + 1 - n < i => f[i] \in Outputs}
<1>1. \A i \in 1..(Len(e) + 1) : f[i] = HostAt(e, f, i)
  BY HostPositions
<1> HIDE DEF f
<1>2. ASSUME NEW i \in 1..(Len(e) + 1), \A j \in 1..(Len(e) + 1) : i < j => f[j] \in Outputs
      PROVE  f[i] \in Outputs
  <2> DEFINE later == [j \in 1..(Len(e) + 1) |-> IF i < j THEN f[j] ELSE <<>>]
  <2>1. later \in [1..(Len(e) + 1) -> Outputs]
    BY <1>2 DEF Outputs
  <2>2. HostAt(e, later, i) = HostAt(e, f, i)
    <3>1. CASE i > Len(e)
      BY <3>1 DEF HostAt
    <3>2. CASE i <= Len(e)
      <4>1. e[i] \in Nat
        BY <3>2, BytesOf
      <4>2. e[i] > 0 /\ i + e[i] <= Len(e) + 1 => f[i + e[i]] = later[i + e[i]]
        BY <4>1
      <4> QED
        BY <4>1, <4>2, <3>2 DEF HostAt
    <3> QED
      BY <3>1, <3>2
  <2> QED
    BY <1>1, <2>1, <2>2, HostAtType
<1>3. Len(e) + 1 \in Nat
  OBVIOUS
<1>4. 0 \in P
  OBVIOUS
<1>5. ASSUME NEW n \in 0..(Len(e) + 1 - 1), n \in P PROVE n + 1 \in P
  <2>1. ASSUME NEW i \in 1..(Len(e) + 1), Len(e) + 1 - (n + 1) < i PROVE f[i] \in Outputs
    <3>1. \A j \in 1..(Len(e) + 1) : i < j => f[j] \in Outputs
      BY <1>5, <2>1
    <3> QED
      BY <1>2, <3>1
  <2> QED
    BY <2>1
<1>6. \A n \in 0..(Len(e) + 1) : n \in P
  <2> HIDE DEF P
  <2> QED
    BY <1>3, <1>4, <1>5, LoopInvariant
<1>7. Len(e) + 1 \in P /\ \A i \in 1..(Len(e) + 1) : Len(e) + 1 - (Len(e) + 1) < i
  BY <1>6
<1> QED
  BY <1>7 DEF f

-----------------------------------------------------------------------------
(* Both sides decode alike                                                  *)

\* Bytes are put together in any grouping.
LEMMA Regroup ==
    ASSUME NEW a \in Seq(Bytes), NEW b \in Seq(Bytes), NEW c \in Seq(Bytes)
    PROVE  a \o b \in Seq(Bytes) /\ a \o (b \o c) = (a \o b) \o c
  BY ConcatAssociative

\* Bad is no sequence of bytes.
LEMMA BadIsNoOutput ==
    ASSUME NEW s \in Seq(Bytes)
    PROVE  s # Bad
<1>1. Bad \notin Seq(Bytes)
  <2>1. Len(Bad) = 1 /\ Bad[1] = Full + 1
    BY DEF Bad
  <2>2. Full + 1 \notin Bytes
    BY CodecAssumption DEF Bytes
  <2> QED
    BY <2>1, <2>2
<1> QED
  BY <1>1

\* What the device has written, followed by what its position starts for the
\* host, is what the host makes of the frame.
LEMMA DeviceIsHost ==
    ASSUME NEW e \in ZeroFree
    PROVE  DeviceBlocks(e)[Len(e)].out = HostBlocks(e)[1]
<1> DEFINE d == DeviceBlocks(e)
           h == HostBlocks(e)
           Joined(s) == /\ s.read \in 1..(Len(e) + 1)
                        /\ s.out \in Seq(Bytes)
                        /\ h[1] = IF h[s.read] = Bad THEN Bad ELSE s.out \o h[s.read]
           Failed(s) == s.out = Bad /\ h[1] = Bad
           P == {n \in 0..Len(e) : Failed(d[n]) \/ (n < d[n].read /\ Joined(d[n]))}
<1>1. e \in Seq(Bytes) /\ Len(e) \in Nat /\ \A i \in 1..Len(e) : e[i] \in Nat /\ e[i] > 0
  BY CodecAssumption DEF ZeroFree, Bytes
<1>2. /\ d \in [0..Len(e) -> DeviceStates]
      /\ d[0] = [read |-> 1, out |-> <<>>]
      /\ \A n \in 0..(Len(e) - 1) : d[n + 1] = DeviceBlock(e, d[n])
  BY <1>1, DeviceRounds
<1>3. \A i \in 1..(Len(e) + 1) : h[i] = HostAt(e, h, i) /\ h[i] \in Outputs
  BY <1>1, HostPositions, HostPositionsType
<1> HIDE DEF d, h
<1>4. 0 \in P
  <2>1. h[1] \in Outputs
    BY <1>1, <1>3
  <2>2. h[1] # Bad => <<>> \o h[1] = h[1]
    BY <2>1 DEF Outputs
  <2>3. d[0].read = 1 /\ d[0].out = <<>>
    BY <1>2
  <2>4. Joined(d[0])
    BY <1>1, <2>2, <2>3
  <2>5. 0 < d[0].read /\ 0 \in 0..Len(e)
    BY <1>1, <2>3
  <2> QED
    BY <2>4, <2>5
<1>5. ASSUME NEW n, n \in 0..(Len(e) - 1), n \in P PROVE n + 1 \in P
  <2> DEFINE s == d[n]
             t == d[n + 1]
  <2>1. t = DeviceBlock(e, s) /\ n \in Nat /\ n + 1 \in 0..Len(e) /\ n \in 0..Len(e)
    BY <1>1, <1>2, <1>5
  <2>2. Failed(s) \/ (n < s.read /\ Joined(s))
    BY <1>5
  <2> HIDE DEF s, t
  <2>3. CASE s.out = Bad \/ s.read > Len(e)
    <3>1. t = s
      BY <2>1, <2>3 DEF DeviceBlock
    <3>2. Failed(s) \/ (n + 1 < s.read /\ Joined(s))
      <4>1. CASE Failed(s)
        BY <4>1, Zenon
      <4>2. CASE n < s.read /\ Joined(s)
        <5>1. s.out # Bad
          BY <4>2, BadIsNoOutput
        <5>2. s.read \in 1..(Len(e) + 1)
          BY <4>2
        <5>3. n + 1 < s.read
          BY <1>1, <2>1, <2>3, <5>1, <5>2
        <5> QED
          BY <4>2, <5>3
      <4> QED
        BY <2>2, <4>1, <4>2
    <3> QED
      BY <2>1, <3>1, <3>2 DEF t
  <2>4. CASE ~(s.out = Bad \/ s.read > Len(e))
    <3> DEFINE i == s.read
               next == i + e[i]
    <3>1. Joined(s) /\ n < i /\ i \in 1..Len(e) /\ e[i] \in Nat /\ e[i] > 0
      BY <1>1, <2>1, <2>2, <2>4
    <3>2. h[i] = HostAt(e, h, i) /\ ~(i > Len(e)) /\ next \in Nat /\ i < next
      BY <1>1, <1>3, <3>1
    <3>3. CASE next > Len(e) + 1
      <4>1. t = [s EXCEPT !.out = Bad]
        BY <2>1, <2>4, <3>3 DEF DeviceBlock
      <4>2. h[i] = Bad
        <5>1. ~(e[i] > 0 /\ next <= Len(e) + 1)
          BY <1>1, <3>1, <3>2, <3>3
        <5>2. HostAt(e, h, i) = Bad
          BY <3>2, <5>1 DEF HostAt
        <5> QED
          BY <3>2, <5>2
      <4>3. t.out = Bad
        <5>1. s \in DeviceStates
          BY <1>1, <1>2, <2>1 DEF s
        <5> QED
          BY <4>1, <5>1 DEF DeviceStates
      <4>4. Failed(t)
        BY <3>1, <4>2, <4>3
      <4> QED
        BY <2>1, <4>4 DEF t
    <3>4. CASE next <= Len(e) + 1
      <4> DEFINE data == SubSeq(e, i + 1, next - 1)
                 zero == IF e[i] # Full /\ next <= Len(e) THEN <<0>> ELSE <<>>
      <4>1. /\ data \in Seq(Bytes) /\ zero \in Seq(Bytes)
            /\ next \in 1..(Len(e) + 1)
        <5>1. SubSeq(e, i + 1, next - 1) \in Seq(Bytes)
          BY <1>1, <3>1, <3>2, <3>4, Middle
        <5>2. <<0>> \in Seq(Bytes) /\ <<>> \in Seq(Bytes)
          BY CodecAssumption DEF Bytes
        <5> QED
          BY <1>1, <3>1, <3>2, <3>4, <5>1, <5>2
      <4>2. t = [read |-> next, out |-> s.out \o data \o zero]
        <5>1. ~(e[s.read] = 0 \/ next > Len(e) + 1)
          BY <1>1, <3>1, <3>2, <3>4
        <5> QED
          BY <2>1, <2>4, <5>1 DEF DeviceBlock
      <4>3. h[i] = IF h[next] = Bad THEN Bad ELSE data \o zero \o h[next]
        BY <3>1, <3>2, <3>4, Zenon DEF HostAt
      <4>4. h[next] \in Outputs /\ s.out \in Seq(Bytes)
        BY <1>3, <3>1, <4>1
      <4> HIDE DEF data, zero, next
      <4>5. t.read = next /\ t.out = s.out \o data \o zero /\ t.out \in Seq(Bytes)
        BY <4>1, <4>2, <4>4
      <4>6. h[1] = IF h[next] = Bad THEN Bad ELSE t.out \o h[next]
        <5>1. CASE h[next] = Bad
          BY <3>1, <4>3, <5>1
        <5>2. CASE h[next] # Bad
          <6> DEFINE rest == h[next]
                     prior == s.out
          <6>1. rest \in Seq(Bytes) /\ prior \in Seq(Bytes)
            BY <4>4, <5>2 DEF Outputs
          <6>2. h[i] = data \o zero \o rest
            BY <4>3, <5>2
          <6>3. h[i] # Bad
            <7>1. data \o zero \o rest \in Seq(Bytes)
              BY <4>1, <6>1
            <7> QED
              BY <6>2, <7>1, BadIsNoOutput
          <6>4. h[1] = prior \o h[i]
            BY <3>1, <6>3
          <6> HIDE DEF rest, prior
          <6>5. prior \o (data \o zero \o rest) = (prior \o data \o zero) \o rest
            <7> DEFINE block == data \o zero
            <7>1. data \in Seq(Bytes) /\ zero \in Seq(Bytes)
              BY <4>1
            <7>2. block \in Seq(Bytes) /\ prior \o block = (prior \o data) \o zero
              BY <6>1, <7>1, Regroup
            <7> HIDE DEF block
            <7>3. prior \o (block \o rest) = (prior \o block) \o rest
              BY <6>1, <7>2, Regroup
            <7> QED
              BY <7>2, <7>3 DEF block
          <6> QED
            BY <4>5, <5>2, <6>2, <6>4, <6>5 DEF rest, prior
        <5> QED
          BY <5>1, <5>2
      <4>7. Joined(t)
        BY <4>1, <4>5, <4>6
      <4>8. n + 1 < t.read
        BY <3>1, <3>2, <4>5, <2>1
      <4> QED
        BY <2>1, <4>7, <4>8 DEF t
    <3>5. next > Len(e) + 1 \/ next <= Len(e) + 1
      BY <1>1, <3>2
    <3> QED
      BY <3>3, <3>4, <3>5
  <2> QED
    BY <2>3, <2>4
<1>6. Len(e) \in P
  <2> HIDE DEF P
  <2>1. \A n \in 0..Len(e) : n \in P
    BY <1>1, <1>4, <1>5, LoopInvariant
  <2> QED
    BY <1>1, <2>1
<1>7. CASE Failed(d[Len(e)])
  BY <1>7 DEF d, h
<1>8. CASE Len(e) < d[Len(e)].read /\ Joined(d[Len(e)])
  <2>1. d[Len(e)].read = Len(e) + 1
    BY <1>1, <1>8
  <2>2. h[Len(e) + 1] = HostAt(e, h, Len(e) + 1)
    BY <1>1, <1>3
  <2>3. h[Len(e) + 1] = <<>>
    BY <1>1, <2>2 DEF HostAt
  <2>4. <<>> # Bad
    BY DEF Bad
  <2>5. d[Len(e)].out \o <<>> = d[Len(e)].out
    BY <1>8
  <2>6. h[1] = d[Len(e)].out
    BY <1>8, <2>1, <2>3, <2>4, <2>5
  <2> QED
    BY <2>6 DEF d, h
<1> QED
  BY <1>6, <1>7, <1>8

\* Both read the same frame, or none, in bytes without a delimiter.
LEMMA SidesDecodeAlike ==
    ASSUME NEW e \in ZeroFree
    PROVE  Frame(DeviceDecode(e)) = Frame(HostDecode(e))
<1>1. DeviceBlocks(e)[Len(e)].out = HostBlocks(e)[1]
  BY DeviceIsHost
<1>2. ~Contains(e, 0)
  <2> DEFINE S == 1..Full
  <2>1. \A i \in 1..Len(e) : e[i] \in S
    <3> HIDE DEF S
    <3>1. e \in Seq(S)
      BY DEF ZeroFree, S
    <3> QED
      BY <3>1
  <2>2. 0 \notin S
    BY CodecAssumption
  <2> QED
    BY <2>1, <2>2 DEF Contains
<1>3. CASE e = <<>>
  <2>1. e \in Seq(Bytes) /\ Len(e) = 0
    BY <1>3
  <2>2. DeviceBlocks(e)[0] = [read |-> 1, out |-> <<>>]
    BY <2>1, DeviceRounds
  <2> QED
    BY <1>3, <2>1, <2>2 DEF DeviceDecode, HostDecode
<1>4. CASE e # <<>>
  <2>1. HostDecode(e) = HostBlocks(e)[1]
    BY <1>2, <1>4 DEF HostDecode
  <2> QED
    BY <1>1, <2>1 DEF DeviceDecode, Frame
<1> QED
  BY <1>3, <1>4

-----------------------------------------------------------------------------
(* Both sides read the same body                                            *)

Pairs == Bytes \X Seq(Bytes)
HostStates == [at : Nat \ {0}, seen : (SUBSET Pairs) \cup {{Bad}}]

\* An entry at i ends within the body; what it says.
Complete(b, i) == i # Len(b) /\ i + 1 + b[i + 1] <= Len(b)
EntryAt(b, i) == <<b[i], SubSeq(b, i + 2, i + 1 + b[i + 1])>>

\* A complete entry ends inside the body, behind its beginning.
LEMMA CompleteEntry ==
    ASSUME NEW b \in Seq(Bytes), NEW i \in 1..Len(b), Complete(b, i)
    PROVE  /\ i + 1 \in 1..Len(b) /\ b[i + 1] \in Nat
           /\ i + 2 + b[i + 1] \in 1..(Len(b) + 1) /\ i < i + 2 + b[i + 1]
           /\ EntryAt(b, i) \in Pairs
<1>1. Len(b) \in Nat /\ i + 1 \in 1..Len(b)
  BY DEF Complete
<1>2. b[i + 1] \in Nat /\ b[i] \in Bytes
  BY <1>1, BytesOf
<1>3. i + 1 + b[i + 1] \in Nat /\ i + 1 + b[i + 1] <= Len(b) /\ i + 2 \in Nat \ {0}
  BY <1>1, <1>2 DEF Complete
<1>4. SubSeq(b, i + 2, i + 1 + b[i + 1]) \in Seq(Bytes)
  BY <1>3, Middle
<1>5. EntryAt(b, i) \in Pairs
  BY <1>2, <1>4 DEF EntryAt, Pairs
<1>6. i + 2 + b[i + 1] \in 1..(Len(b) + 1) /\ i < i + 2 + b[i + 1]
  BY <1>1, <1>2, <1>3
<1> QED
  BY <1>1, <1>2, <1>5, <1>6

\* The host's parser fails at an entry or goes to the next one.
LEMMA HostEntryCases ==
    ASSUME NEW b \in Seq(Bytes), NEW s \in HostStates, s.seen # {Bad}, s.at <= Len(b)
    PROVE  HostEntry(b, s) =
              IF ~Complete(b, s.at) \/ b[s.at] \in {e[1] : e \in s.seen}
              THEN [at |-> s.at, seen |-> {Bad}]
              ELSE [at |-> s.at + 2 + b[s.at + 1], seen |-> s.seen \cup {EntryAt(b, s.at)}]
<1>1. s.at \in 1..Len(b)
  BY DEF HostStates
<1>2. CASE ~Complete(b, s.at) \/ b[s.at] \in {e[1] : e \in s.seen}
  <2>1. s.at # Len(b) => b[s.at + 1] \in Nat
    BY <1>1, BytesOf
  <2>2. \/ s.at = Len(b) \/ s.at + 1 + b[s.at + 1] > Len(b)
        \/ b[s.at] \in {e[1] : e \in s.seen}
    BY <1>1, <1>2, <2>1 DEF Complete
  <2>3. HostEntry(b, s) = [s EXCEPT !.seen = {Bad}]
    BY <1>1, <2>2 DEF HostEntry
  <2> QED
    BY <1>2, <2>3 DEF HostStates
<1>3. CASE ~(~Complete(b, s.at) \/ b[s.at] \in {e[1] : e \in s.seen})
  <2>1. ~(\/ s.at = Len(b) \/ s.at + 1 + b[s.at + 1] > Len(b)
          \/ b[s.at] \in {e[1] : e \in s.seen})
    BY <1>1, <1>3, CompleteEntry DEF Complete
  <2>2. HostEntry(b, s) = LET next == s.at + 2 + b[s.at + 1]
         IN  [at |-> next, seen |-> s.seen \cup {<<b[s.at], SubSeq(b, s.at + 2, next - 1)>>}]
    BY <1>1, <2>1 DEF HostEntry
  <2> DEFINE at == s.at
             next == at + 2 + b[at + 1]
  <2>3. at \in Nat /\ b[at + 1] \in Nat
    BY <1>1, <1>3, CompleteEntry
  <2>4. next - 1 = at + 1 + b[at + 1]
    BY <2>3
  <2>5. EntryAt(b, at) = <<b[at], SubSeq(b, at + 2, next - 1)>>
    BY <2>4 DEF EntryAt
  <2>6. HostEntry(b, s) = [at |-> next, seen |-> s.seen \cup {EntryAt(b, at)}]
    BY <2>2, <2>5, Zenon
  <2> QED
    BY <1>3, <2>6, Zenon
<1> QED
  BY <1>2, <1>3

\* An entry takes the host's parser from state to state.
LEMMA HostEntryType ==
    ASSUME NEW b \in Seq(Bytes), NEW s \in HostStates
    PROVE  HostEntry(b, s) \in HostStates
<1>1. CASE s.at > Len(b) \/ s.seen = {Bad}
  BY <1>1 DEF HostEntry
<1>2. CASE ~(s.at > Len(b) \/ s.seen = {Bad})
  <2>0. s.at \in Nat \ {0} /\ s.seen \in (SUBSET Pairs) \cup {{Bad}} /\ Len(b) \in Nat
    BY DEF HostStates
  <2>1. s.at \in 1..Len(b) /\ s.seen \in SUBSET Pairs /\ s.at <= Len(b) /\ s.seen # {Bad}
    <3>1. s.at \in 1..Len(b) /\ s.at <= Len(b)
      BY <1>2, <2>0
    <3>2. s.seen # {Bad}
      BY <1>2
    <3> QED
      BY <2>0, <3>1, <3>2, Zenon
  <2>2. CASE ~Complete(b, s.at) \/ b[s.at] \in {e[1] : e \in s.seen}
    <3>1. HostEntry(b, s) = [at |-> s.at, seen |-> {Bad}]
      BY <2>1, <2>2, HostEntryCases
    <3>2. {Bad} \in (SUBSET Pairs) \cup {{Bad}}
      BY Zenon
    <3> QED
      BY <2>0, <3>1, <3>2 DEF HostStates
  <2>3. CASE ~(~Complete(b, s.at) \/ b[s.at] \in {e[1] : e \in s.seen})
    <3>1. HostEntry(b, s) = [at |-> s.at + 2 + b[s.at + 1], seen |-> s.seen \cup {EntryAt(b, s.at)}]
      BY <2>1, <2>3, HostEntryCases
    <3>2. s.at + 2 + b[s.at + 1] \in Nat \ {0} /\ EntryAt(b, s.at) \in Pairs
      BY <2>1, <2>3, CompleteEntry
    <3> QED
      BY <2>1, <3>1, <3>2 DEF HostStates
  <2> QED
    BY <2>2, <2>3
<1> QED
  BY <1>1, <1>2

\* The states of the host's parser, entry by entry.
LEMMA HostRounds ==
    ASSUME NEW b \in Seq(Bytes)
    PROVE  LET f == HostEntries(b)
           IN  /\ f[0] = [at |-> 1, seen |-> {}]
               /\ \A n \in 0..(Len(b) - 1) : f[n + 1] = HostEntry(b, f[n])
               /\ \A n \in 0..Len(b) : f[n] \in HostStates
<1> DEFINE start == [at |-> 1, seen |-> {}]
           Defines(f) == f = [n \in 0..Len(b) |-> IF n = 0 THEN start ELSE HostEntry(b, f[n - 1])]
           step == [p \in (1..Len(b)) \X HostStates |-> HostEntry(b, p[2])]
           g == HostEntries(b)
<1>1. Len(b) \in Nat /\ start \in HostStates
  BY DEF HostStates
<1>2. step \in [(1..Len(b)) \X HostStates -> HostStates]
  BY HostEntryType
<1>3. PICK f \in [0..Len(b) -> HostStates] :
          f[0] = start /\ \A i \in 0..(Len(b) - 1) : f[i + 1] = step[<<i + 1, f[i]>>]
  <2> HIDE DEF start, step
  <2>1. \E f : IsLoop(f, HostStates, start, Len(b), step)
    BY <1>1, <1>2, LoopHasStates
  <2> QED
    BY <2>1 DEF IsLoop
<1>4. \A i \in 0..(Len(b) - 1) : f[i + 1] = HostEntry(b, f[i])
  BY <1>1, <1>3
<1>5. \A n \in 0..Len(b) : n = 0 \/ (n - 1 \in 0..(Len(b) - 1) /\ n - 1 + 1 = n)
  BY <1>1
<1>6. Defines(f)
  <2> HIDE DEF start
  <2>1. \A n \in 0..Len(b) : f[n] = IF n = 0 THEN start ELSE HostEntry(b, f[n - 1])
    BY <1>3, <1>4, <1>5
  <2> QED
    BY <2>1
<1>7. HostEntries(b) = CHOOSE h : Defines(h)
  BY DEF HostEntries
<1>8. Defines(HostEntries(b))
  <2> HIDE DEF Defines
  <2> QED
    BY <1>6, <1>7
<1>9. g[0] = start /\ \A n \in 0..(Len(b) - 1) : g[n + 1] = HostEntry(b, g[n])
  <2> HIDE DEF start, g
  <2>1. g = [n \in 0..Len(b) |-> IF n = 0 THEN start ELSE HostEntry(b, g[n - 1])]
    BY <1>8 DEF g
  <2>2. \A n \in 0..(Len(b) - 1) : n + 1 \in 0..Len(b) /\ n + 1 # 0 /\ n + 1 - 1 = n
    BY <1>1
  <2>3. 0 \in 0..Len(b)
    BY <1>1
  <2> QED
    BY <2>1, <2>2, <2>3
<1>10. \A n \in 0..Len(b) : g[n] \in HostStates
  <2> DEFINE P == {n \in 0..Len(b) : g[n] \in HostStates}
  <2> HIDE DEF g, start
  <2>1. 0 \in P
    BY <1>1, <1>9
  <2>2. \A n \in 0..(Len(b) - 1) : n \in P => n + 1 \in P
    BY <1>1, <1>9, HostEntryType
  <2>3. \A n \in 0..Len(b) : n \in P
    <3> HIDE DEF P
    <3> QED
      BY <1>1, <2>1, <2>2, LoopInvariant
  <2> QED
    BY <2>3
<1> QED
  BY <1>9, <1>10

\* The offsets from the position i on, when f says those of the later ones.
OffsetsAt(b, f, i) ==
    IF i > Len(b) THEN {}
    ELSE IF ~Complete(b, i) THEN {0}
    ELSE {i} \cup f[i + 2 + b[i + 1]]

\* The device's offsets from a position on are those of the entry there.
LEMMA OffsetPositions ==
    ASSUME NEW b \in Seq(Bytes)
    PROVE  LET f == Offsets(b)
           IN  \A i \in 1..(Len(b) + 1) : f[i] = OffsetsAt(b, f, i)
<1> DEFINE size == Len(b) + 1
           D == SUBSET (0..Len(b))
           Defines(f) == f = [i \in 1..size |-> OffsetsAt(b, f, i)]
           value == [p \in (1..size) \X [1..size -> D] |-> OffsetsAt(b, p[2], p[1])]
<1>1. size \in Nat /\ {} \in D /\ Len(b) \in Nat
  OBVIOUS
<1>2. ASSUME NEW f \in [1..size -> D], NEW i \in 1..size PROVE OffsetsAt(b, f, i) \in D
  <2>1. CASE i > Len(b)
    BY <2>1 DEF OffsetsAt
  <2>2. CASE i <= Len(b) /\ ~Complete(b, i)
    BY <1>1, <2>2 DEF OffsetsAt
  <2>3. CASE i <= Len(b) /\ Complete(b, i)
    <3>1. i + 2 + b[i + 1] \in 1..size /\ i \in 0..Len(b)
      BY <2>3, CompleteEntry
    <3>2. f[i + 2 + b[i + 1]] \in D
      BY <3>1
    <3>3. OffsetsAt(b, f, i) = {i} \cup f[i + 2 + b[i + 1]]
      BY <1>1, <2>3 DEF OffsetsAt
    <3> QED
      BY <3>1, <3>2, <3>3
  <2> QED
    BY <1>1, <2>1, <2>2, <2>3
<1>3. value \in [(1..size) \X [1..size -> D] -> D]
  <2> HIDE DEF D, size
  <2> QED
    BY <1>2
<1>4. \A i \in 1..size : \A f, g \in [1..size -> D] :
          (\A j \in 1..size : i < j => f[j] = g[j]) => value[<<i, f>>] = value[<<i, g>>]
  <2> SUFFICES ASSUME NEW i \in 1..size, NEW f \in [1..size -> D], NEW g \in [1..size -> D],
                      \A j \in 1..size : i < j => f[j] = g[j]
               PROVE  OffsetsAt(b, f, i) = OffsetsAt(b, g, i)
    OBVIOUS
  <2>1. CASE i > Len(b)
    BY <2>1 DEF OffsetsAt
  <2>2. CASE i <= Len(b)
    <3>1. Complete(b, i) => f[i + 2 + b[i + 1]] = g[i + 2 + b[i + 1]]
      BY <2>2, CompleteEntry
    <3> QED
      BY <3>1 DEF OffsetsAt
  <2> QED
    BY <1>1, <2>1, <2>2
<1>5. PICK f : IsBackward(f, D, size, value)
  <2> HIDE DEF size, value, D
  <2> QED
    BY <1>1, <1>3, <1>4, BackwardHasValues
<1>6. f \in [1..size -> D] /\ \A i \in 1..size : f[i] = value[<<i, f>>]
  <2> HIDE DEF size, value, D
  <2> QED
    BY <1>5 DEF IsBackward
<1>7. \A i \in 1..size : f[i] = OffsetsAt(b, f, i)
  <2> HIDE DEF D
  <2> QED
    BY <1>6
<1>8. Defines(f)
  <2> HIDE DEF D
  <2> QED
    BY <1>6, <1>7
<1>9. \A h : Defines(h) <=>
          h = [i \in 1..(Len(b) + 1) |->
                 IF i > Len(b) THEN {}
                 ELSE IF i = Len(b) \/ i + 1 + b[i + 1] > Len(b) THEN {0}
                 ELSE {i} \cup h[i + 2 + b[i + 1]]]
  <2>1. ASSUME NEW h, NEW i \in 1..size
        PROVE  OffsetsAt(b, h, i) = IF i > Len(b) THEN {}
                 ELSE IF i = Len(b) \/ i + 1 + b[i + 1] > Len(b) THEN {0}
                 ELSE {i} \cup h[i + 2 + b[i + 1]]
    <3>1. i < Len(b) => b[i + 1] \in Nat
      BY BytesOf
    <3>2. i <= Len(b) => (Complete(b, i) <=> ~(i = Len(b) \/ i + 1 + b[i + 1] > Len(b)))
      BY <1>1, <3>1 DEF Complete
    <3> QED
      BY <1>1, <3>2 DEF OffsetsAt
  <2>2. \A h : [i \in 1..size |-> OffsetsAt(b, h, i)] =
             [i \in 1..size |-> IF i > Len(b) THEN {}
                 ELSE IF i = Len(b) \/ i + 1 + b[i + 1] > Len(b) THEN {0}
                 ELSE {i} \cup h[i + 2 + b[i + 1]]]
    <3> HIDE DEF size
    <3> QED
      BY <2>1
  <2> QED
    BY <2>2, Zenon
<1>10. Defines(Offsets(b))
  <2> DEFINE Body(h) == h = [i \in 1..(Len(b) + 1) |->
                 IF i > Len(b) THEN {}
                 ELSE IF i = Len(b) \/ i + 1 + b[i + 1] > Len(b) THEN {0}
                 ELSE {i} \cup h[i + 2 + b[i + 1]]]
  <2>1. \A h : Defines(h) <=> Body(h)
    BY <1>9
  <2>2. Offsets(b) = CHOOSE h : Body(h)
    BY DEF Offsets
  <2> HIDE DEF Body, Defines
  <2> QED
    BY <1>8, <2>1, <2>2
<1> DEFINE g == Offsets(b)
<1>11. g = [i \in 1..size |-> OffsetsAt(b, g, i)]
  BY <1>10
<1>12. \A i \in 1..size : g[i] = OffsetsAt(b, g, i)
  <2> HIDE DEF g, size
  <2> QED
    BY <1>11
<1> QED
  BY <1>12

\* What the host has seen is what stands at the offsets that it has passed, and
\* the device finds these and the offsets that follow.
LEMMA SidesReadAlike ==
    ASSUME NEW b \in Seq(Bytes)
    PROVE  DeviceBody(b) = HostBody(b)
<1> DEFINE h == HostEntries(b)
           f == Offsets(b)
           Twice == \E i, j \in f[1] : i # j /\ b[i] = b[j]
           Failed(s) == s.seen = {Bad} /\ (0 \in f[1] \/ Twice)
           Sound(s, done) ==
               /\ s.at \in 1..(Len(b) + 1)
               /\ f[1] = done \cup f[s.at]
               /\ \A i \in done : i < s.at
               /\ \A i, j \in done : b[i] = b[j] => i = j
               /\ s.seen = {EntryAt(b, i) : i \in done}
           P == {n \in 0..Len(b) :
                    Failed(h[n]) \/ (n < h[n].at /\ \E done \in SUBSET (1..Len(b)) : Sound(h[n], done))}
<1>1. Len(b) \in Nat
  OBVIOUS
<1>2. /\ h[0] = [at |-> 1, seen |-> {}]
      /\ \A n \in 0..(Len(b) - 1) : h[n + 1] = HostEntry(b, h[n])
      /\ \A n \in 0..Len(b) : h[n] \in HostStates
  BY HostRounds
<1>3. \A i \in 1..(Len(b) + 1) : f[i] = OffsetsAt(b, f, i)
  BY OffsetPositions
<1> HIDE DEF h, f
<1>4. 0 \in P
  <2>1. h[0].at = 1 /\ h[0].seen = {}
    BY <1>2
  <2>2. {EntryAt(b, i) : i \in {}} = {} /\ {} \in SUBSET (1..Len(b))
    OBVIOUS
  <2>3. Sound(h[0], {})
    BY <1>1, <2>1, <2>2
  <2>4. 0 < h[0].at /\ 0 \in 0..Len(b)
    BY <1>1, <2>1
  <2> QED
    BY <2>2, <2>3, <2>4
<1>5. ASSUME NEW n \in 0..(Len(b) - 1), n \in P PROVE n + 1 \in P
  <2> DEFINE s == h[n]
             t == h[n + 1]
  <2>1. t = HostEntry(b, s) /\ n \in Nat /\ n + 1 \in 0..Len(b) /\ s \in HostStates
    BY <1>1, <1>2
  <2>2. Failed(s) \/ (n < s.at /\ \E done \in SUBSET (1..Len(b)) : Sound(s, done))
    BY <1>5
  <2> HIDE DEF s, t
  <2>3. CASE Failed(s)
    <3>1. t = s
      BY <2>1, <2>3 DEF HostEntry
    <3> QED
      BY <2>1, <2>3, <3>1 DEF t
  <2>4. CASE n < s.at /\ \E done \in SUBSET (1..Len(b)) : Sound(s, done)
    <3>1. PICK done \in SUBSET (1..Len(b)) : Sound(s, done)
      BY <2>4
    <3>2. s.seen # {Bad}
      <4>1. \A i : EntryAt(b, i) # Bad
        BY DEF EntryAt, Bad
      <4> QED
        BY <3>1, <4>1
    <3>3. CASE s.at > Len(b)
      <4>1. t = s
        BY <2>1, <3>3 DEF HostEntry
      <4>2. n + 1 < s.at
        BY <1>1, <2>1, <3>1, <3>3
      <4> QED
        BY <2>1, <3>1, <4>1, <4>2 DEF t
    <3>4. CASE s.at <= Len(b)
      <4> DEFINE at == s.at
      <4>1. at \in 1..Len(b) /\ at \in 1..(Len(b) + 1) /\ ~(at > Len(b))
        BY <1>1, <3>1, <3>4
      <4>2. t = IF ~Complete(b, at) \/ b[at] \in {e[1] : e \in s.seen}
                THEN [at |-> at, seen |-> {Bad}]
                ELSE [at |-> at + 2 + b[at + 1], seen |-> s.seen \cup {EntryAt(b, at)}]
        BY <2>1, <3>2, <3>4, HostEntryCases
      <4>3. f[at] = IF ~Complete(b, at) THEN {0} ELSE {at} \cup f[at + 2 + b[at + 1]]
        BY <1>3, <4>1 DEF OffsetsAt
      <4>4. (b[at] \in {e[1] : e \in s.seen}) <=> (\E i \in done : b[i] = b[at])
        <5>1. \A i \in done : EntryAt(b, i)[1] = b[i]
          BY DEF EntryAt
        <5>2. s.seen = {EntryAt(b, i) : i \in done}
          BY <3>1
        <5> QED
          BY <5>1, <5>2
      <4> HIDE DEF at
      <4>5. CASE ~Complete(b, at)
        <5>1. t.seen = {Bad} /\ 0 \in f[1]
          BY <3>1, <4>2, <4>3, <4>5 DEF at
        <5> QED
          BY <2>1, <5>1 DEF t
      <4>6. CASE Complete(b, at) /\ b[at] \in {e[1] : e \in s.seen}
        <5>1. PICK i \in done : b[i] = b[at]
          BY <4>4, <4>6
        <5>2. i \in f[1] /\ at \in f[1] /\ i # at
          BY <3>1, <4>1, <4>3, <4>6, <5>1 DEF at
        <5>3. Twice
          BY <5>1, <5>2
        <5>4. t.seen = {Bad}
          BY <4>2, <4>6
        <5> QED
          BY <2>1, <5>3, <5>4 DEF t
      <4>7. CASE Complete(b, at) /\ b[at] \notin {e[1] : e \in s.seen}
        <5> DEFINE next == at + 2 + b[at + 1]
        <5>1. next \in 1..(Len(b) + 1) /\ at < next
          BY <4>1, <4>7, CompleteEntry
        <5>2. t.at = next /\ t.seen = s.seen \cup {EntryAt(b, at)}
          BY <4>2, <4>7
        <5>3. f[1] = done \cup {at} \cup f[next]
          BY <3>1, <4>3, <4>7 DEF at
        <5> HIDE DEF next
        <5>4. \A i \in done \cup {at} : i < next
          BY <1>1, <3>1, <4>1, <5>1 DEF at
        <5>5. \A i, j \in done \cup {at} : b[i] = b[j] => i = j
          BY <3>1, <4>4, <4>7
        <5>6. t.seen = {EntryAt(b, i) : i \in done \cup {at}}
          BY <3>1, <5>2
        <5>7. Sound(t, done \cup {at})
          BY <5>1, <5>2, <5>3, <5>4, <5>5, <5>6
        <5>8. done \cup {at} \in SUBSET (1..Len(b))
          BY <4>1
        <5>9. n + 1 < t.at
          BY <2>1, <2>4, <4>1, <5>1, <5>2 DEF at
        <5> QED
          BY <2>1, <5>7, <5>8, <5>9 DEF t
      <4> QED
        BY <4>5, <4>6, <4>7
    <3>5. s.at > Len(b) \/ s.at <= Len(b)
      BY <1>1, <3>1
    <3> QED
      BY <3>3, <3>4, <3>5
  <2> QED
    BY <2>2, <2>3, <2>4
<1>6. Len(b) \in P
  <2> HIDE DEF P
  <2>1. \A n \in 0..Len(b) : n \in P
    BY <1>1, <1>4, <1>5, LoopInvariant
  <2> QED
    BY <1>1, <2>1
<1>7. CASE Failed(h[Len(b)])
  <2>1. DeviceBody(b) = {Bad}
    BY <1>7 DEF DeviceBody, f
  <2> QED
    BY <1>7, <2>1 DEF HostBody, h
<1>8. CASE Len(b) < h[Len(b)].at /\ \E done \in SUBSET (1..Len(b)) : Sound(h[Len(b)], done)
  <2>1. PICK done \in SUBSET (1..Len(b)) : Sound(h[Len(b)], done)
    BY <1>8
  <2>2. h[Len(b)].at = Len(b) + 1 /\ Len(b) + 1 \in 1..(Len(b) + 1)
    BY <1>1, <1>8, <2>1
  <2>3. f[Len(b) + 1] = {}
    <3>1. f[Len(b) + 1] = OffsetsAt(b, f, Len(b) + 1)
      BY <1>3, <2>2
    <3>2. Len(b) + 1 > Len(b)
      BY <1>1
    <3> QED
      BY <3>1, <3>2 DEF OffsetsAt
  <2>4. f[1] = done
    BY <2>1, <2>2, <2>3
  <2>5. 0 \notin f[1] /\ ~Twice
    <3>1. 0 \notin done
      OBVIOUS
    <3>2. \A i, j \in done : b[i] = b[j] => i = j
      BY <2>1
    <3> QED
      BY <2>4, <3>1, <3>2
  <2>6. DeviceBody(b) = {EntryAt(b, i) : i \in done}
    BY <2>4, <2>5, Zenon DEF DeviceBody, EntryAt, f
  <2>7. HostBody(b) = {EntryAt(b, i) : i \in done}
    BY <2>1 DEF HostBody, h
  <2> QED
    BY <2>6, <2>7
<1> QED
  BY <1>6, <1>7, <1>8

-----------------------------------------------------------------------------
(* What is encoded is decoded                                               *)

\* A run that is not full, and the blocks before it.
StuffStates == [out : ZeroFree, run : {r \in ZeroFree : Len(r) + 2 <= Full}]

\* A block is its code, then the run.
LEMMA BlockPositions ==
    ASSUME NEW r \in ZeroFree, Len(r) < Full
    PROVE  /\ Block(r) \in ZeroFree /\ Len(Block(r)) = Len(r) + 1
           /\ Block(r)[1] = Len(r) + 1
           /\ \A i \in 1..Len(r) : Block(r)[i + 1] = r[i]
<1> DEFINE S == 1..Full
           code == <<Len(r) + 1>>
<1>1. r \in Seq(S) /\ Len(r) \in Nat
  BY DEF ZeroFree
<1>2. code \in Seq(S) /\ Len(code) = 1 /\ code[1] = Len(r) + 1
  BY <1>1, CodecAssumption
<1> HIDE DEF S, code
<1>0. /\ code \o r \in Seq(S) /\ Len(code \o r) = Len(code) + Len(r)
      /\ \A i \in 1..(Len(code) + Len(r)) :
             (code \o r)[i] = IF i <= Len(code) THEN code[i] ELSE r[i - Len(code)]
  BY <1>1, <1>2, ConcatProperties
<1>3. /\ code \o r \in Seq(S) /\ Len(code \o r) = 1 + Len(r)
      /\ \A i \in 1..(1 + Len(r)) : (code \o r)[i] = IF i <= 1 THEN code[i] ELSE r[i - 1]
  BY <1>0, <1>2
<1>4. 1 \in 1..(1 + Len(r)) /\ \A i \in 1..Len(r) : i + 1 \in 1..(1 + Len(r)) /\ ~(i + 1 <= 1) /\ i + 1 - 1 = i
  BY <1>1
<1>5. Block(r) = code \o r
  BY DEF Block, code
<1> QED
  BY <1>1, <1>2, <1>3, <1>4, <1>5 DEF ZeroFree, S

\* A byte joins the run, or ends it as a zero or as the last of a full block.
LEMMA StuffStep ==
    ASSUME NEW s \in StuffStates, NEW v \in Bytes
    PROVE  /\ Stuff(s, v) \in StuffStates
           /\ \/ /\ v # 0 /\ Len(s.run) + 2 < Full
                 /\ Stuff(s, v) = [out |-> s.out, run |-> Append(s.run, v)]
              \/ /\ v = 0
                 /\ Stuff(s, v) = [out |-> s.out \o Block(s.run), run |-> <<>>]
              \/ /\ v # 0 /\ Len(s.run) + 2 = Full
                 /\ Stuff(s, v) = [out |-> s.out \o Block(Append(s.run, v)), run |-> <<>>]
<1> DEFINE S == 1..Full
           r == s.run
           full == Append(r, v)
<1>1. s.out \in ZeroFree /\ r \in ZeroFree /\ Len(r) + 2 <= Full /\ s = [out |-> s.out, run |-> r]
  BY DEF StuffStates
<1>2. Len(r) \in Nat /\ <<>> \in ZeroFree /\ Len(<<>>) + 2 <= Full
  BY <1>1, CodecAssumption DEF ZeroFree
<1>3. v # 0 => full \in ZeroFree /\ Len(full) = Len(r) + 1
  <2>1. v # 0 => v \in S
    BY CodecAssumption DEF Bytes
  <2> HIDE DEF S
  <2>2. r \in Seq(S)
    BY <1>1 DEF ZeroFree, S
  <2>3. v # 0 => full \in Seq(S) /\ Len(full) = Len(r) + 1
    BY <2>1, <2>2
  <2> QED
    BY <2>3 DEF ZeroFree, S
<1>4. \A x, y \in ZeroFree : x \o y \in ZeroFree
  BY DEF ZeroFree
<1> HIDE DEF full
<1>5. CASE v = 0
  <2>1. Stuff(s, v) = [out |-> s.out \o Block(r), run |-> <<>>]
    BY <1>5 DEF Stuff
  <2>2. Block(r) \in ZeroFree
    BY <1>1, <1>2, CodecAssumption, BlockPositions
  <2>3. s.out \o Block(r) \in ZeroFree
    BY <1>1, <1>4, <2>2
  <2>4. Stuff(s, v) \in StuffStates
    BY <1>2, <2>1, <2>3 DEF StuffStates
  <2> QED
    BY <1>5, <2>1, <2>4
<1>6. CASE v # 0 /\ Len(r) + 2 = Full
  <2>1. Stuff(s, v) = [out |-> s.out \o Block(full), run |-> <<>>]
    BY <1>6 DEF Stuff, full
  <2>2. Block(full) \in ZeroFree
    BY <1>2, <1>3, <1>6, CodecAssumption, BlockPositions
  <2>3. s.out \o Block(full) \in ZeroFree
    BY <1>1, <1>4, <2>2
  <2>4. Stuff(s, v) \in StuffStates
    BY <1>2, <2>1, <2>3 DEF StuffStates
  <2> QED
    BY <1>6, <2>1, <2>4 DEF full
<1>7. CASE v # 0 /\ Len(r) + 2 # Full
  <2>1. Stuff(s, v) = [s EXCEPT !.run = full]
    BY <1>7 DEF Stuff, full
  <2>2. Stuff(s, v) = [out |-> s.out, run |-> full]
    BY <1>1, <2>1
  <2>3. Len(r) + 2 < Full /\ Len(full) + 2 <= Full /\ full \in ZeroFree
    BY <1>1, <1>2, <1>3, <1>7, CodecAssumption
  <2>4. Stuff(s, v) \in StuffStates
    BY <1>1, <2>2, <2>3 DEF StuffStates
  <2> QED
    BY <1>7, <2>2, <2>3, <2>4 DEF full
<1> QED
  BY <1>5, <1>6, <1>7

\* The states of the encoder, byte by byte.
LEMMA StuffedRounds ==
    ASSUME NEW data \in Seq(Bytes)
    PROVE  LET f == Stuffed(data)
           IN  /\ f[0] = [out |-> <<>>, run |-> <<>>]
               /\ \A n \in 0..(Len(data) - 1) : f[n + 1] = Stuff(f[n], data[n + 1])
               /\ \A n \in 0..Len(data) : f[n] \in StuffStates
<1> DEFINE start == [out |-> <<>>, run |-> <<>>]
           Defines(f) == f = [n \in 0..Len(data) |-> IF n = 0 THEN start ELSE Stuff(f[n - 1], data[n])]
           step == [p \in (1..Len(data)) \X StuffStates |-> Stuff(p[2], data[p[1]])]
           g == Stuffed(data)
<1>1. Len(data) \in Nat /\ \A i \in 1..Len(data) : data[i] \in Bytes
  OBVIOUS
<1>2. start \in StuffStates
  BY CodecAssumption DEF StuffStates, ZeroFree
<1>3. step \in [(1..Len(data)) \X StuffStates -> StuffStates]
  BY <1>1, StuffStep
<1>4. PICK f \in [0..Len(data) -> StuffStates] :
          f[0] = start /\ \A i \in 0..(Len(data) - 1) : f[i + 1] = step[<<i + 1, f[i]>>]
  <2> HIDE DEF start, step
  <2>1. \E f : IsLoop(f, StuffStates, start, Len(data), step)
    BY <1>1, <1>2, <1>3, LoopHasStates
  <2> QED
    BY <2>1 DEF IsLoop
<1>5. \A i \in 0..(Len(data) - 1) : f[i + 1] = Stuff(f[i], data[i + 1])
  <2> SUFFICES ASSUME NEW i \in 0..(Len(data) - 1) PROVE f[i + 1] = Stuff(f[i], data[i + 1])
    OBVIOUS
  <2>1. i + 1 \in 1..Len(data) /\ i \in 0..Len(data)
    BY <1>1
  <2>2. <<i + 1, f[i]>> \in (1..Len(data)) \X StuffStates
    BY <2>1
  <2> QED
    BY <1>4, <2>2
<1>6. \A n \in 0..Len(data) : n = 0 \/ (n - 1 \in 0..(Len(data) - 1) /\ n - 1 + 1 = n)
  BY <1>1
<1>7. Defines(f)
  <2> HIDE DEF start
  <2>1. \A n \in 0..Len(data) : f[n] = IF n = 0 THEN start ELSE Stuff(f[n - 1], data[n])
    BY <1>4, <1>5, <1>6
  <2> QED
    BY <2>1
<1>8. Stuffed(data) = CHOOSE h : Defines(h)
  BY DEF Stuffed
<1>9. Defines(Stuffed(data))
  <2> HIDE DEF Defines
  <2> QED
    BY <1>7, <1>8
<1>10. g[0] = start /\ \A n \in 0..(Len(data) - 1) : g[n + 1] = Stuff(g[n], data[n + 1])
  <2> HIDE DEF start, g
  <2>1. g = [n \in 0..Len(data) |-> IF n = 0 THEN start ELSE Stuff(g[n - 1], data[n])]
    BY <1>9 DEF g
  <2>2. \A n \in 0..(Len(data) - 1) : n + 1 \in 0..Len(data) /\ n + 1 # 0 /\ n + 1 - 1 = n
    BY <1>1
  <2>3. 0 \in 0..Len(data)
    BY <1>1
  <2> QED
    BY <2>1, <2>2, <2>3
<1>11. \A n \in 0..Len(data) : g[n] \in StuffStates
  <2> DEFINE P == {n \in 0..Len(data) : g[n] \in StuffStates}
  <2> HIDE DEF g, start
  <2>1. 0 \in P
    BY <1>1, <1>2, <1>10
  <2>2. \A n \in 0..(Len(data) - 1) : n \in P => n + 1 \in P
    <3> SUFFICES ASSUME NEW n \in 0..(Len(data) - 1), g[n] \in StuffStates
                 PROVE  g[n + 1] \in StuffStates /\ n + 1 \in 0..Len(data)
      OBVIOUS
    <3>1. n + 1 \in 1..Len(data) /\ n + 1 \in 0..Len(data)
      BY <1>1
    <3>2. data[n + 1] \in Bytes
      BY <1>1, <3>1
    <3> QED
      BY <1>10, <3>1, <3>2, StuffStep
  <2>3. \A n \in 0..Len(data) : n \in P
    <3> HIDE DEF P
    <3> QED
      BY <1>1, <2>1, <2>2, LoopInvariant
  <2> QED
    BY <2>3
<1> QED
  BY <1>10, <1>11

\* The device reads a block that stands where it has arrived.
LEMMA ReadsBlock ==
    ASSUME NEW e \in Seq(Bytes), NEW d \in DeviceStates, d.out # Bad,
           NEW r \in ZeroFree, Len(r) < Full, d.read + Len(r) <= Len(e),
           \A i \in 1..(Len(r) + 1) : e[d.read + i - 1] = Block(r)[i]
    PROVE  DeviceBlock(e, d) =
              [read |-> d.read + Len(r) + 1,
               out |-> d.out \o r
                       \o (IF Len(r) + 1 # Full /\ d.read + Len(r) < Len(e) THEN <<0>> ELSE <<>>)]
<1> DEFINE at == d.read
           n == Len(r)
           next == at + e[at]
<1>1. at \in Nat \ {0} /\ n \in Nat /\ Len(e) \in Nat
  BY DEF DeviceStates, ZeroFree
<1>2. r \in Seq(Bytes)
  BY CodecAssumption DEF ZeroFree, Bytes
<1>3. /\ Block(r)[1] = n + 1 /\ \A i \in 1..n : Block(r)[i + 1] = r[i]
  BY BlockPositions
<1>4. e[at] = n + 1
  <2>1. 1 \in 1..(n + 1) /\ at + 1 - 1 = at
    BY <1>1
  <2>2. e[at + 1 - 1] = Block(r)[1]
    BY <2>1
  <2> QED
    BY <1>3, <2>1, <2>2
<1>0. at + n <= Len(e)
  OBVIOUS
<1> HIDE DEF n, at
<1>5. next = at + n + 1 /\ next - 1 = at + n /\ next <= Len(e) + 1 /\ e[at] # 0 /\ ~(at > Len(e))
  BY <1>0, <1>1, <1>4
<1>6. SubSeq(e, at + 1, at + n) = r
  <2> DEFINE i == at + 1
             j == at + n
  <2>1. i \in Nat \ {0} /\ j \in Nat /\ j <= Len(e) /\ j - i + 1 = n /\ (i <= j <=> n # 0)
    BY <1>0, <1>1
  <2>2. \A k \in 1..n : k + 1 \in 1..(n + 1) /\ at + (k + 1) - 1 = i + k - 1
    BY <1>1
  <2>3. \A k \in 1..n : e[i + k - 1] = r[k]
    <3> SUFFICES ASSUME NEW k \in 1..n PROVE e[i + k - 1] = r[k]
      OBVIOUS
    <3>1. k + 1 \in 1..(n + 1) /\ at + (k + 1) - 1 = i + k - 1
      BY <2>2
    <3>2. e[at + (k + 1) - 1] = Block(r)[k + 1]
      BY <3>1 DEF at, n
    <3> QED
      BY <1>3, <3>1, <3>2
  <2> HIDE DEF i, j
  <2>4. /\ SubSeq(e, i, j) \in Seq(Bytes)
        /\ Len(SubSeq(e, i, j)) = IF i <= j THEN j - i + 1 ELSE 0
        /\ \A k \in 1..(j - i + 1) : SubSeq(e, i, j)[k] = e[i + k - 1]
    BY <2>1, Middle
  <2>5. Len(SubSeq(e, i, j)) = n /\ \A k \in 1..n : SubSeq(e, i, j)[k] = r[k]
    BY <1>1, <2>1, <2>3, <2>4
  <2>6. SubSeq(e, i, j) = r
    BY <1>2, <2>4, <2>5, SeqEqual DEF n
  <2> QED
    BY <2>6 DEF i, j
<1>7. (next <= Len(e)) <=> (at + n < Len(e))
  BY <1>1, <1>5
<1>8. DeviceBlock(e, d) = [read |-> next,
             out |-> d.out \o SubSeq(e, at + 1, next - 1)
                     \o (IF e[at] # Full /\ next <= Len(e) THEN <<0>> ELSE <<>>)]
  BY <1>1, <1>5, SMTT(30) DEF DeviceBlock, at
<1>9. DeviceBlock(e, d) = [read |-> at + n + 1,
             out |-> d.out \o r \o (IF n + 1 # Full /\ at + n < Len(e) THEN <<0>> ELSE <<>>)]
  <2> HIDE DEF next
  <2>1. next - 1 = at + n /\ next = at + n + 1
    BY <1>5
  <2>2. SubSeq(e, at + 1, next - 1) = r
    BY <1>6, <2>1
  <2>3. (e[at] # Full /\ next <= Len(e)) <=> (n + 1 # Full /\ at + n < Len(e))
    BY <1>4, <1>7
  <2>4. (IF e[at] # Full /\ next <= Len(e) THEN <<0>> ELSE <<>>) =
        (IF n + 1 # Full /\ at + n < Len(e) THEN <<0>> ELSE <<>>)
    BY <2>3
  <2> QED
    BY <1>8, <2>1, <2>2, <2>4, Zenon
<1> QED
  BY <1>9 DEF at, n

\* p stands at the start of e, and is not all of it.
Starts(p, e) == Len(p) < Len(e) /\ \A i \in 1..Len(p) : e[i] = p[i]

\* An encoding that starts with two pieces starts with the first.
LEMMA StartsShorter ==
    ASSUME NEW p \in ZeroFree, NEW q \in ZeroFree, NEW e \in Seq(Bytes), Starts(p \o q, e)
    PROVE  /\ Starts(p, e) /\ Len(p) + Len(q) < Len(e)
           /\ \A i \in 1..Len(q) : e[Len(p) + i] = q[i]
<1> DEFINE S == 1..Full
<1>1. p \in Seq(S) /\ q \in Seq(S) /\ Len(p) \in Nat /\ Len(q) \in Nat /\ Len(e) \in Nat
  BY DEF ZeroFree
<1> HIDE DEF S
<1>2. /\ Len(p \o q) = Len(p) + Len(q)
      /\ \A i \in 1..(Len(p) + Len(q)) : (p \o q)[i] = IF i <= Len(p) THEN p[i] ELSE q[i - Len(p)]
  BY <1>1, ConcatProperties
<1>3. \A i \in 1..Len(p) : e[i] = p[i]
  <2> SUFFICES ASSUME NEW i \in 1..Len(p) PROVE e[i] = p[i]
    OBVIOUS
  <2>1. i \in 1..(Len(p) + Len(q)) /\ i <= Len(p)
    BY <1>1
  <2> QED
    BY <1>2, <2>1 DEF Starts
<1>4. \A i \in 1..Len(q) : e[Len(p) + i] = q[i]
  <2> SUFFICES ASSUME NEW i \in 1..Len(q) PROVE e[Len(p) + i] = q[i]
    OBVIOUS
  <2>1. Len(p) + i \in 1..(Len(p) + Len(q)) /\ ~(Len(p) + i <= Len(p)) /\ Len(p) + i - Len(p) = i
    BY <1>1
  <2> QED
    BY <1>2, <2>1 DEF Starts
<1> QED
  BY <1>1, <1>2, <1>3, <1>4 DEF Starts

\* The output o is the first c bytes of the data.
Took(o, data, c) == o \in Seq(Bytes) /\ Len(o) = c /\ \A i \in 1..c : o[i] = data[i]

\* The decoder took some bytes more.
LEMMA TookMore ==
    ASSUME NEW data, NEW c \in Nat, NEW o, Took(o, data, c), NEW r \in Seq(Bytes),
           \A i \in 1..Len(r) : r[i] = data[c + i]
    PROVE  Took(o \o r, data, c + Len(r))
<1>1. o \in Seq(Bytes) /\ Len(o) = c /\ Len(r) \in Nat
  BY DEF Took
<1>2. /\ o \o r \in Seq(Bytes) /\ Len(o \o r) = Len(o) + Len(r)
      /\ \A i \in 1..(Len(o) + Len(r)) : (o \o r)[i] = IF i <= Len(o) THEN o[i] ELSE r[i - Len(o)]
  BY <1>1, ConcatProperties
<1>3. ASSUME NEW i \in 1..(c + Len(r)) PROVE (o \o r)[i] = data[i]
  <2>1. CASE i <= c
    <3>1. i \in 1..c
      BY <2>1
    <3> QED
      BY <1>1, <1>2, <2>1, <3>1 DEF Took
  <2>2. CASE ~(i <= c)
    <3>1. i - c \in 1..Len(r) /\ c + (i - c) = i
      BY <1>1, <2>2
    <3>2. r[i - c] = data[c + (i - c)]
      BY <3>1
    <3> QED
      BY <1>1, <1>2, <2>2, <3>1, <3>2
  <2> QED
    BY <2>1, <2>2
<1> QED
  BY <1>1, <1>2, <1>3 DEF Took

\* After n bytes of the data, the run is the last of them, and the device that
\* has read the finished blocks at the start of a frame has those before.
RunIs(s, data, n) == /\ Len(s.run) <= n
                     /\ \A i \in 1..Len(s.run) : s.run[i] = data[n - Len(s.run) + i]
Reads(e, s, data, n) ==
    \E k \in 0..Len(e) : /\ k <= Len(s.out)
                         /\ DeviceBlocks(e)[k].read = Len(s.out) + 1
                         /\ Took(DeviceBlocks(e)[k].out, data, n - Len(s.run))

\* The step for a byte that ends the run: the device reads one block more.
LEMMA FlushIsRead ==
    ASSUME NEW data \in Seq(Bytes), NEW n \in Nat, n < Len(data),
           NEW s \in StuffStates, RunIs(s, data, n),
           NEW r \in ZeroFree, Len(r) < Full,
           NEW e \in Seq(Bytes), Starts(s.out \o Block(r), e),
           Starts(s.out, e) => Reads(e, s, data, n),
           \/ r = s.run /\ data[n + 1] = 0 /\ Len(r) + 1 # Full
           \/ r = Append(s.run, data[n + 1]) /\ Len(r) + 1 = Full
    PROVE  Reads(e, [out |-> s.out \o Block(r), run |-> <<>>], data, n + 1)
<1> DEFINE d == DeviceBlocks(e)
           c == n - Len(s.run)
           t == [out |-> s.out \o Block(r), run |-> <<>>]
           w == s.out
           b == Block(r)
           lw == Len(s.out)
           lr == Len(r)
           le == Len(e)
<1>1. s.run \in ZeroFree /\ Len(s.run) \in Nat
  BY DEF StuffStates, ZeroFree
<1>2. /\ w \in ZeroFree /\ b \in ZeroFree /\ Len(w) = lw /\ Len(b) = lr + 1
      /\ lw \in Nat /\ lr \in Nat /\ le \in Nat /\ lr < Full /\ Len(r) = lr
  BY BlockPositions DEF StuffStates, ZeroFree
<1>3. /\ Starts(w, e) /\ lw + (lr + 1) < le
      /\ \A i \in 1..(lr + 1) : e[lw + i] = b[i]
  <2>1. Starts(w \o b, e)
    OBVIOUS
  <2> HIDE DEF w, b, lw, lr
  <2>2. Starts(w, e) /\ Len(w) + Len(b) < Len(e) /\ \A i \in 1..Len(b) : e[Len(w) + i] = b[i]
    BY <1>2, <2>1, StartsShorter
  <2> QED
    BY <1>2, <2>2
<1>4. PICK k \in 0..le : k <= lw /\ d[k].read = lw + 1 /\ Took(d[k].out, data, c)
  BY <1>3 DEF Reads
<1>5. /\ d[k] \in DeviceStates /\ d[k + 1] = DeviceBlock(e, d[k])
      /\ k + 1 \in 0..le
  <2> HIDE DEF lw, lr
  <2>1. k \in 0..(le - 1) /\ k + 1 \in 0..le
    BY <1>2, <1>3, <1>4
  <2> QED
    BY <2>1, DeviceRounds
<1>6. d[k].out # Bad
  BY <1>4, BadIsNoOutput DEF Took
<1>7. d[k + 1] = [read |-> d[k].read + lr + 1,
                  out |-> d[k].out \o r
                     \o (IF lr + 1 # Full /\ d[k].read + lr < Len(e) THEN <<0>> ELSE <<>>)]
  <2> DEFINE st == d[k]
  <2>1. st.read + lr <= le
    <3> HIDE DEF st, lw, lr, le
    <3> QED
      BY <1>2, <1>3, <1>4 DEF st
  <2>2. \A i \in 1..(lr + 1) : e[st.read + i - 1] = b[i]
    <3> SUFFICES ASSUME NEW i \in 1..(lr + 1) PROVE e[st.read + i - 1] = b[i]
      OBVIOUS
    <3> HIDE DEF st, lw, lr, le, b
    <3>1. st.read + i - 1 = lw + i
      BY <1>2, <1>4 DEF st
    <3> QED
      BY <1>3, <3>1
  <2>3. st \in DeviceStates /\ st.out # Bad
    BY <1>5, <1>6
  <2> HIDE DEF d, st
  <2>4. DeviceBlock(e, st) = [read |-> st.read + Len(r) + 1,
               out |-> st.out \o r
                       \o (IF Len(r) + 1 # Full /\ st.read + Len(r) < Len(e) THEN <<0>> ELSE <<>>)]
    BY <1>2, <2>1, <2>2, <2>3, ReadsBlock
  <2> QED
    BY <1>5, <2>4 DEF st
<1> HIDE DEF d, w, b, lw, lr, le
<1>8. /\ d[k + 1].read = lw + 1 + lr + 1
      /\ d[k + 1].out = d[k].out \o r \o (IF lr + 1 # Full THEN <<0>> ELSE <<>>)
  <2> DEFINE st == d[k]
             zero == IF lr + 1 # Full /\ st.read + lr < Len(e) THEN <<0>> ELSE <<>>
  <2>1. st.read = lw + 1 /\ st.read + lr < Len(e)
    BY <1>2, <1>3, <1>4 DEF le
  <2>2. zero = IF lr + 1 # Full THEN <<0>> ELSE <<>>
    BY <2>1
  <2>3. d[k + 1] = [read |-> st.read + lr + 1, out |-> st.out \o r \o zero]
    BY <1>7
  <2> HIDE DEF st, zero
  <2>4. d[k + 1].read = st.read + lr + 1 /\ d[k + 1].out = st.out \o r \o zero
    BY <2>3
  <2> QED
    BY <1>2, <2>1, <2>2, <2>4 DEF st
<1>9. Len(t.out) = lw + (lr + 1) /\ Len(t.run) = 0
  <2>1. Len(w \o b) = Len(w) + Len(b)
    <3> DEFINE S == 1..Full
    <3>1. w \in Seq(S) /\ b \in Seq(S)
      BY <1>2 DEF ZeroFree
    <3> HIDE DEF S
    <3> QED
      BY <3>1
  <2>2. Len(t.out) = Len(w \o b) /\ t.run = <<>>
    BY DEF w, b
  <2> HIDE DEF t
  <2> QED
    BY <1>2, <2>1, <2>2
<1>10. Took(d[k + 1].out, data, n + 1)
  <2>0. r \in Seq(Bytes) /\ <<0>> \in Seq(Bytes) /\ c \in Nat /\ c + Len(s.run) = n
    <3>1. r \in Seq(Bytes)
      BY CodecAssumption DEF ZeroFree, Bytes
    <3>2. 0 \in Bytes
      BY CodecAssumption DEF Bytes
    <3>3. <<0>> \in Seq(Bytes)
      BY <3>2
    <3>4. Len(s.run) <= n
      BY Zenon DEF RunIs
    <3>5. c \in Nat /\ c + Len(s.run) = n
      BY <1>1, <3>4
    <3> QED
      BY <3>1, <3>3, <3>5
  <2>1. \A i \in 1..Len(s.run) : s.run[i] = data[c + i]
    BY DEF RunIs
  <2> HIDE DEF c
  <2>2. CASE r = s.run /\ data[n + 1] = 0 /\ Len(r) + 1 # Full
    <3>1. Took(d[k].out \o r, data, c + Len(r)) /\ c + Len(r) = n
      BY <1>4, <2>0, <2>1, <2>2, TookMore
    <3>2. Took((d[k].out \o r) \o <<0>>, data, n + Len(<<0>>))
      <4> DEFINE o == d[k].out \o r
                 z == <<0>>
      <4>1. Took(o, data, n) /\ z \in Seq(Bytes) /\ \A i \in 1..Len(z) : z[i] = data[n + i]
        BY <2>0, <2>2, <3>1
      <4> HIDE DEF o, z
      <4>2. Took(o \o z, data, n + Len(z))
        BY <4>1, TookMore
      <4> QED
        BY <4>2 DEF o, z
    <3>3. n + Len(<<0>>) = n + 1
      OBVIOUS
    <3> QED
      BY <1>2, <1>8, <2>2, <3>2, <3>3
  <2>3. CASE r = Append(s.run, data[n + 1]) /\ Len(r) + 1 = Full
    <3>1. s.run \in Seq(Bytes) /\ data[n + 1] \in Bytes
      BY <1>1, CodecAssumption DEF ZeroFree, Bytes
    <3>2. Len(r) = Len(s.run) + 1 /\ \A i \in 1..Len(r) : r[i] = data[c + i]
      BY <1>1, <2>0, <2>1, <2>3, <3>1
    <3>3. Took(d[k].out \o r, data, c + Len(r)) /\ c + Len(r) = n + 1
      <4>1. Took(d[k].out \o r, data, c + Len(r))
        BY <1>4, <2>0, <3>2, TookMore
      <4>2. c + Len(r) = n + 1
        <5> DEFINE l == Len(s.run)
        <5>1. Len(r) = l + 1 /\ l \in Nat /\ c \in Nat /\ c + l = n
          BY <1>1, <2>0, <3>2
        <5> HIDE DEF l
        <5> QED
          BY <5>1
      <4> QED
        BY <4>1, <4>2
    <3>4. d[k + 1].out = (d[k].out \o r) \o <<>>
      BY <1>2, <1>8, <2>3
    <3>5. (d[k].out \o r) \o <<>> = d[k].out \o r
      BY <3>3 DEF Took
    <3> QED
      BY <3>3, <3>4, <3>5
  <2> QED
    BY <2>2, <2>3
<1>11. k + 1 <= Len(t.out) /\ d[k + 1].read = Len(t.out) + 1 /\ n + 1 - Len(t.run) = n + 1
  <2> HIDE DEF t
  <2> QED
    BY <1>2, <1>4, <1>8, <1>9
<1> QED
  BY <1>5, <1>10, <1>11, SMTT(30) DEF Reads, d, le

\* The fields of a state of the encoder.
LEMMA FieldsOf ==
    ASSUME NEW o, NEW r, NEW t, t = [out |-> o, run |-> r]
    PROVE  t.out = o /\ t.run = r
  OBVIOUS

\* The run after a byte.
LEMMA RunGoesOn ==
    ASSUME NEW data \in Seq(Bytes), NEW n \in Nat, n < Len(data),
           NEW s \in StuffStates, RunIs(s, data, n)
    PROVE  RunIs(Stuff(s, data[n + 1]), data, n + 1)
<1> DEFINE v == data[n + 1]
           t == Stuff(s, v)
<1>1. v \in Bytes /\ s.run \in Seq(Bytes) /\ Len(s.run) \in Nat
  BY CodecAssumption DEF StuffStates, ZeroFree, Bytes
<1>2. t.run = <<>> \/ t.run = Append(s.run, v)
  <2> HIDE DEF v
  <2>1. \/ t = [out |-> s.out, run |-> Append(s.run, v)]
        \/ t = [out |-> s.out \o Block(s.run), run |-> <<>>]
        \/ t = [out |-> s.out \o Block(Append(s.run, v)), run |-> <<>>]
    BY <1>1, StuffStep
  <2> DEFINE full == Append(s.run, v)
  <2>2. CASE t = [out |-> s.out, run |-> full]
    <3>1. t.run = full
      BY <2>2, FieldsOf
    <3> QED
      BY <3>1, Zenon
  <2>3. CASE t = [out |-> s.out \o Block(s.run), run |-> <<>>]
    <3>1. t.run = <<>>
      BY <2>3, FieldsOf
    <3> QED
      BY <3>1, Zenon
  <2>4. CASE t = [out |-> s.out \o Block(full), run |-> <<>>]
    <3>1. t.run = <<>>
      BY <2>4, FieldsOf
    <3> QED
      BY <3>1, Zenon
  <2> QED
    BY <2>1, <2>2, <2>3, <2>4, Zenon
<1> HIDE DEF t, v
<1>3. CASE t.run = <<>>
  BY <1>3 DEF RunIs, t, v
<1>4. CASE t.run = Append(s.run, v)
  <2> DEFINE r == s.run
  <2>1. Len(t.run) = Len(r) + 1 /\ \A i \in 1..(Len(r) + 1) :
            t.run[i] = IF i = Len(r) + 1 THEN v ELSE r[i]
    BY <1>1, <1>4
  <2>2. Len(r) <= n /\ \A i \in 1..Len(r) : r[i] = data[n - Len(r) + i]
    BY DEF RunIs
  <2> HIDE DEF r
  <2>3. Len(r) \in Nat
    BY <1>1 DEF r
  <2>4. ASSUME NEW i \in 1..(Len(r) + 1) PROVE t.run[i] = data[(n + 1) - Len(t.run) + i]
    <3>1. (n + 1) - Len(t.run) + i = n - Len(r) + i
      BY <2>1, <2>3
    <3>2. CASE i = Len(r) + 1
      <4>1. n - Len(r) + i = n + 1
        BY <2>3, <3>2
      <4> QED
        BY <2>1, <3>1, <3>2, <4>1 DEF v
    <3>3. CASE i # Len(r) + 1
      <4>1. i \in 1..Len(r)
        BY <2>3, <3>3
      <4> QED
        BY <2>1, <2>2, <3>1, <3>3, <4>1
    <3> QED
      BY <3>2, <3>3
  <2>5. Len(t.run) = Len(r) + 1 /\ Len(t.run) <= n + 1
    BY <2>1, <2>2, <2>3
  <2>6. \A i \in 1..Len(t.run) : t.run[i] = data[(n + 1) - Len(t.run) + i]
    BY <2>4, <2>5
  <2> QED
    BY <2>5, <2>6, Zenon DEF RunIs, t, v
<1> QED
  BY <1>2, <1>3, <1>4

\* One byte of the data and what the device reads.
LEMMA StuffIsRead ==
    ASSUME NEW data \in Seq(Bytes), NEW n \in Nat, n < Len(data),
           NEW s \in StuffStates, RunIs(s, data, n),
           \A e \in Seq(Bytes) : Starts(s.out, e) => Reads(e, s, data, n)
    PROVE  \A e \in Seq(Bytes) : Starts(Stuff(s, data[n + 1]).out, e)
                                 => Reads(e, Stuff(s, data[n + 1]), data, n + 1)
<1> DEFINE v == data[n + 1]
           full == Append(s.run, v)
<1> SUFFICES ASSUME NEW e \in Seq(Bytes), Starts(Stuff(s, v).out, e)
             PROVE  Reads(e, Stuff(s, v), data, n + 1)
  OBVIOUS
<1>1. v \in Bytes /\ s.run \in ZeroFree /\ Len(s.run) \in Nat /\ Len(s.run) + 2 <= Full
  BY DEF StuffStates, ZeroFree
<1>2. Starts(s.out, e) => Reads(e, s, data, n)
  OBVIOUS
<1>3. CASE v # 0 /\ Stuff(s, v) = [out |-> s.out, run |-> full]
  <2>1. Stuff(s, v).out = s.out /\ Stuff(s, v).run = full
    BY <1>3
  <2>2. Reads(e, s, data, n)
    <3>1. Starts(s.out, e)
      BY <2>1, Zenon
    <3> QED
      BY <1>2, <3>1
  <2>3. Len(full) = Len(s.run) + 1 /\ (n + 1) - Len(full) = n - Len(s.run)
    <3>1. s.run \in Seq(Bytes)
      BY <1>1, CodecAssumption DEF ZeroFree, Bytes
    <3>2. Len(full) = Len(s.run) + 1
      BY <1>1, <3>1
    <3> QED
      BY <1>1, <3>2
  <2> DEFINE t == Stuff(s, v)
  <2>4. t.out = s.out /\ (n + 1) - Len(t.run) = n - Len(s.run)
    BY <2>1, <2>3
  <2> HIDE DEF full, v, t
  <2>5. Reads(e, t, data, n + 1)
    <3>1. PICK k \in 0..Len(e) :
              /\ k <= Len(s.out)
              /\ DeviceBlocks(e)[k].read = Len(s.out) + 1
              /\ Took(DeviceBlocks(e)[k].out, data, n - Len(s.run))
      BY <2>2, Zenon DEF Reads
    <3>2. /\ k <= Len(t.out)
          /\ DeviceBlocks(e)[k].read = Len(t.out) + 1
          /\ Took(DeviceBlocks(e)[k].out, data, (n + 1) - Len(t.run))
      BY <2>4, <3>1
    <3> QED
      BY <3>2, Zenon DEF Reads
  <2> QED
    BY <2>5 DEF t
<1>4. CASE v = 0 /\ Stuff(s, v) = [out |-> s.out \o Block(s.run), run |-> <<>>]
  <2>1. Len(s.run) < Full /\ Len(s.run) + 1 # Full
    BY <1>1, CodecAssumption
  <2>0. Stuff(s, v).out = s.out \o Block(s.run)
    <3> DEFINE p == s.out \o Block(s.run)
               t == Stuff(s, v)
    <3>1. t = [out |-> p, run |-> <<>>]
      BY <1>4
    <3> HIDE DEF p, t
    <3>2. t.out = p
      BY <3>1, FieldsOf
    <3> QED
      BY <3>2 DEF p, t
  <2>2. Starts(s.out \o Block(s.run), e)
    BY <2>0, Zenon
  <2>3. Reads(e, [out |-> s.out \o Block(s.run), run |-> <<>>], data, n + 1)
    BY <1>1, <1>2, <1>4, <2>1, <2>2, FlushIsRead
  <2> QED
    BY <1>4, <2>3
<1>5. CASE v # 0 /\ Len(s.run) + 2 = Full /\ Stuff(s, v) = [out |-> s.out \o Block(full), run |-> <<>>]
  <2>1. full \in ZeroFree /\ Len(full) = Len(s.run) + 1
    <3> DEFINE S == 1..Full
    <3>1. s.run \in Seq(S) /\ v \in S
      BY <1>1, <1>5, CodecAssumption DEF ZeroFree, Bytes
    <3> HIDE DEF S, v
    <3>2. full \in Seq(S) /\ Len(full) = Len(s.run) + 1
      BY <3>1
    <3> QED
      BY <3>2 DEF ZeroFree, S
  <2>2. Len(full) < Full /\ Len(full) + 1 = Full
    BY <1>1, <1>5, <2>1
  <2>3. Starts(s.out \o Block(full), e)
    BY <1>5
  <2>4. Reads(e, [out |-> s.out \o Block(full), run |-> <<>>], data, n + 1)
    BY <1>2, <2>1, <2>2, <2>3, FlushIsRead
  <2> QED
    BY <1>5, <2>4
<1> QED
  BY <1>1, <1>3, <1>4, <1>5, StuffStep

\* So it is after any number of bytes.
LEMMA StuffedIsRead ==
    ASSUME NEW data \in Seq(Bytes)
    PROVE  \A n \in 0..Len(data) :
               /\ RunIs(Stuffed(data)[n], data, n)
               /\ \A e \in Seq(Bytes) : Starts(Stuffed(data)[n].out, e)
                                        => Reads(e, Stuffed(data)[n], data, n)
<1> DEFINE f == Stuffed(data)
           Right(n) == /\ RunIs(f[n], data, n)
                       /\ \A e \in Seq(Bytes) : Starts(f[n].out, e) => Reads(e, f[n], data, n)
           P == {n \in 0..Len(data) : Right(n)}
<1>1. /\ f[0] = [out |-> <<>>, run |-> <<>>]
      /\ \A n \in 0..(Len(data) - 1) : f[n + 1] = Stuff(f[n], data[n + 1])
      /\ \A n \in 0..Len(data) : f[n] \in StuffStates
  BY StuffedRounds
<1>2. Len(data) \in Nat
  OBVIOUS
<1>3. 0 \in P
  <2> DEFINE s == f[0]
  <2>1. s.out = <<>> /\ s.run = <<>>
    BY <1>1, FieldsOf
  <2> HIDE DEF s, f
  <2>2. Len(s.run) = 0 /\ Len(s.out) = 0 /\ 0 - Len(s.run) = 0
    <3>1. Len(<<>>) = 0
      OBVIOUS
    <3>2. Len(s.run) = 0 /\ Len(s.out) = 0
      BY <2>1, <3>1, Zenon
    <3> QED
      BY <3>2
  <2>3. RunIs(s, data, 0)
    BY <2>2 DEF RunIs
  <2>4. ASSUME NEW e \in Seq(Bytes) PROVE Reads(e, s, data, 0)
    <3> DEFINE d == DeviceBlocks(e)
    <3>1. d[0] = [read |-> 1, out |-> <<>>] /\ Len(e) \in Nat
      BY DeviceRounds
    <3> HIDE DEF d
    <3>2. d[0].read = 1 /\ d[0].out = <<>>
      BY <3>1
    <3>3. Took(<<>>, data, 0)
      BY DEF Took
    <3>4. /\ 0 \in 0..Len(e) /\ 0 <= Len(s.out) /\ d[0].read = Len(s.out) + 1
          /\ Took(d[0].out, data, 0 - Len(s.run))
      BY <2>2, <3>1, <3>2, <3>3
    <3> QED
      BY <3>4, Zenon DEF Reads, d
  <2> QED
    BY <1>2, <2>3, <2>4 DEF s
<1>4. ASSUME NEW n \in 0..(Len(data) - 1), n \in P PROVE n + 1 \in P
  <2> DEFINE s == f[n]
  <2>1. /\ n \in Nat /\ n < Len(data) /\ n + 1 \in 0..Len(data) /\ n \in 0..Len(data)
    BY <1>2
  <2>2. s \in StuffStates /\ f[n + 1] = Stuff(s, data[n + 1])
    BY <1>1, <2>1
  <2>3. /\ RunIs(s, data, n)
        /\ \A e \in Seq(Bytes) : Starts(s.out, e) => Reads(e, s, data, n)
    BY <1>4
  <2> HIDE DEF s, f
  <2>4. RunIs(Stuff(s, data[n + 1]), data, n + 1)
    BY <2>1, <2>2, <2>3, RunGoesOn
  <2>5. \A e \in Seq(Bytes) : Starts(Stuff(s, data[n + 1]).out, e)
                              => Reads(e, Stuff(s, data[n + 1]), data, n + 1)
    BY <2>1, <2>2, <2>3, StuffIsRead
  <2>6. Right(n + 1)
    BY <2>2, <2>4, <2>5
  <2> QED
    BY <2>1, <2>6
<1>5. \A n \in 0..Len(data) : n \in P
  <2> HIDE DEF P
  <2> QED
    BY <1>2, <1>3, <1>4, LoopInvariant
<1> QED
  BY <1>5

\* What the encoder makes of data: its finished blocks and a last one.
LEMMA EncodedType ==
    ASSUME NEW data \in Seq(Bytes)
    PROVE  LET s == Stuffed(data)[Len(data)]
           IN  /\ s \in StuffStates /\ Encoded(data) = s.out \o Block(s.run)
               /\ Encoded(data) \in ZeroFree
               /\ Len(Encoded(data)) = Len(s.out) + Len(s.run) + 1
               /\ \A i \in 1..Len(s.out) : Encoded(data)[i] = s.out[i]
               /\ \A i \in 1..(Len(s.run) + 1) : Encoded(data)[Len(s.out) + i] = Block(s.run)[i]
<1> DEFINE s == Stuffed(data)[Len(data)]
           w == s.out
           b == Block(s.run)
           S == 1..Full
<1>1. s \in StuffStates
  <2>1. Len(data) \in 0..Len(data)
    OBVIOUS
  <2> QED
    BY <2>1, StuffedRounds
<1>2. Encoded(data) = w \o b
  BY DEF Encoded
<1> HIDE DEF s
<1>3. w \in Seq(S) /\ s.run \in ZeroFree /\ Len(s.run) < Full /\ Len(s.run) \in Nat /\ Len(w) \in Nat
  BY <1>1, CodecAssumption DEF StuffStates, ZeroFree
<1>4. b \in Seq(S) /\ Len(b) = Len(s.run) + 1
  BY <1>3, BlockPositions DEF ZeroFree
<1> HIDE DEF w, b, S
<1>5. /\ w \o b \in Seq(S) /\ Len(w \o b) = Len(w) + Len(b)
      /\ \A i \in 1..(Len(w) + Len(b)) : (w \o b)[i] = IF i <= Len(w) THEN w[i] ELSE b[i - Len(w)]
  BY <1>3, <1>4, ConcatProperties
<1>6. \A i \in 1..Len(w) : (w \o b)[i] = w[i]
  BY <1>3, <1>4, <1>5
<1>7. ASSUME NEW i \in 1..(Len(s.run) + 1) PROVE (w \o b)[Len(w) + i] = b[i]
  <2>1. /\ Len(w) + i \in 1..(Len(w) + Len(b)) /\ ~(Len(w) + i <= Len(w))
        /\ (Len(w) + i) - Len(w) = i
    BY <1>3, <1>4
  <2> QED
    BY <1>5, <2>1
<1>8. Len(w \o b) = Len(w) + Len(s.run) + 1
  BY <1>3, <1>4, <1>5
<1>9. w \o b \in ZeroFree
  BY <1>5 DEF S, ZeroFree
<1> QED
  BY <1>1, <1>2, <1>6, <1>7, <1>8, <1>9 DEF s, w, b

\* cobs_decode(cobs_encode(data)) is data, and so are all four pairs of an
\* encoder and a decoder: the encoders make the same blocks.
THEOREM RoundTrip ==
    \A data \in Seq(Bytes) \ {<<>>} :
        DeviceDecode(Encoded(data)) = data /\ Frame(HostDecode(Encoded(data))) = data
<1> SUFFICES ASSUME NEW data \in Seq(Bytes), data # <<>>
             PROVE  DeviceDecode(Encoded(data)) = data /\ Frame(HostDecode(Encoded(data))) = data
  OBVIOUS
<1> DEFINE N == Len(data)
           s == Stuffed(data)[N]
           e == Encoded(data)
           d == DeviceBlocks(e)
           r == s.run
           fin == [read |-> Len(e) + 1, out |-> data]
<1>1. /\ s \in StuffStates /\ e \in ZeroFree /\ Len(e) = Len(s.out) + Len(r) + 1
      /\ \A i \in 1..Len(s.out) : e[i] = s.out[i]
      /\ \A i \in 1..(Len(r) + 1) : e[Len(s.out) + i] = Block(r)[i]
  BY EncodedType
<1>2. e \in Seq(Bytes)
  BY <1>1, CodecAssumption DEF ZeroFree, Bytes
<1>3. RunIs(s, data, N) /\ (Starts(s.out, e) => Reads(e, s, data, N))
  BY <1>2, StuffedIsRead
<1>4. /\ d[0] = [read |-> 1, out |-> <<>>] /\ \A n \in 0..Len(e) : d[n] \in DeviceStates
      /\ \A n \in 0..(Len(e) - 1) : d[n + 1] = DeviceBlock(e, d[n])
  <2> HIDE DEF e
  <2> QED
    BY <1>2, DeviceRounds
<1>5. DeviceDecode(e) = IF d[Len(e)].out = <<>> THEN Bad ELSE d[Len(e)].out
  BY DEF DeviceDecode
<1> HIDE DEF s, e, d
<1>6. /\ r \in ZeroFree /\ Len(r) < Full /\ Len(r) \in Nat /\ Len(s.out) \in Nat
      /\ r \in Seq(Bytes) /\ N \in Nat /\ Len(e) \in Nat
  BY <1>1, CodecAssumption DEF StuffStates, ZeroFree, Bytes
<1>7. Starts(s.out, e)
  <2> DEFINE w == s.out
  <2>1. Len(e) = Len(w) + Len(r) + 1 /\ \A i \in 1..Len(w) : e[i] = w[i]
    BY <1>1
  <2>2. Len(w) \in Nat
    BY <1>6
  <2> HIDE DEF w, r
  <2>3. Len(w) < Len(e)
    BY <1>6, <2>1, <2>2
  <2> QED
    BY <2>1, <2>3, Zenon DEF Starts, w
<1>8. PICK k \in 0..Len(e) : /\ k <= Len(s.out) /\ d[k].read = Len(s.out) + 1
                             /\ Took(d[k].out, data, N - Len(r))
  BY <1>3, <1>7, Zenon DEF Reads, d
<1> HIDE DEF r
<1>9. k \in 0..(Len(e) - 1) /\ k + 1 \in 0..Len(e)
  BY <1>1, <1>6, <1>8
<1>10. d[k + 1] = fin
  <2> DEFINE st == d[k]
             le == Len(e)
  <2>1. st \in DeviceStates /\ d[k + 1] = DeviceBlock(e, st)
    BY <1>4, <1>9
  <2>2. st.out # Bad
    BY <1>8, BadIsNoOutput DEF Took
  <2>3. st.read + Len(r) = le
    BY <1>1, <1>6, <1>8
  <2>4. ASSUME NEW i \in 1..(Len(r) + 1) PROVE e[(st.read + i) - 1] = Block(r)[i]
    <3>1. (st.read + i) - 1 = Len(s.out) + i
      BY <1>6, <1>8
    <3> QED
      BY <1>1, <3>1 DEF r
  <2> HIDE DEF st
  <2>5. DeviceBlock(e, st) = [read |-> st.read + Len(r) + 1,
            out |-> st.out \o r
                    \o (IF Len(r) + 1 # Full /\ st.read + Len(r) < Len(e) THEN <<0>> ELSE <<>>)]
    <3>1. st.read + Len(r) <= Len(e) /\ \A i \in 1..(Len(r) + 1) : e[st.read + i - 1] = Block(r)[i]
      <4>1. st.read \in Nat
        BY <2>1 DEF DeviceStates
      <4>2. st.read + Len(r) <= Len(e)
        BY <1>6, <2>3
      <4>3. ASSUME NEW i \in 1..(Len(r) + 1) PROVE e[st.read + i - 1] = Block(r)[i]
        <5>1. st.read + i - 1 = (st.read + i) - 1
          BY <1>6, <4>1
        <5> QED
          BY <2>4, <5>1
      <4> QED
        BY <4>2, <4>3
    <3> QED
      BY <1>2, <1>6, <2>1, <2>2, <3>1, ReadsBlock
  <2>6. (IF Len(r) + 1 # Full /\ st.read + Len(r) < Len(e) THEN <<0>> ELSE <<>>) = <<>>
    BY <1>6, <2>3
  <2>7. Took(st.out \o r, data, N)
    <3> DEFINE c == N - Len(r)
    <3>1. c \in Nat /\ c + Len(r) = N /\ \A i \in 1..Len(r) : r[i] = data[c + i]
      <4>1. Len(r) <= N /\ \A i \in 1..Len(r) : r[i] = data[N - Len(r) + i]
        BY <1>3, Zenon DEF RunIs, r
      <4>2. c \in Nat /\ c + Len(r) = N
        BY <1>6, <4>1
      <4> QED
        BY <4>1, <4>2
    <3>2. Took(st.out, data, c)
      BY <1>8 DEF st
    <3> HIDE DEF c, N
    <3>3. Took(st.out \o r, data, c + Len(r))
      BY <1>6, <3>1, <3>2, TookMore
    <3> QED
      BY <3>1, <3>3
  <2>8. st.out \o r = data
    <3> DEFINE o == st.out \o r
    <3>1. o \in Seq(Bytes) /\ Len(o) = Len(data) /\ \A i \in 1..Len(data) : o[i] = data[i]
      BY <2>7 DEF Took
    <3> HIDE DEF o
    <3>2. o = data
      BY <3>1, SeqEqual
    <3> QED
      BY <3>2 DEF o
  <2>9. (st.out \o r) \o <<>> = st.out \o r
    BY <2>7 DEF Took
  <2> QED
    BY <2>1, <2>3, <2>5, <2>6, <2>8, <2>9
<1> HIDE DEF fin
<1>11. DeviceBlock(e, fin) = fin
  BY <1>6 DEF DeviceBlock, fin
<1>12. d[Len(e)] = fin
  <2> DEFINE P == {n \in 0..Len(e) : n < k + 1 \/ d[n] = fin}
  <2>1. 0 \in P
    BY <1>6
  <2>2. ASSUME NEW n \in 0..(Len(e) - 1), n \in P PROVE n + 1 \in P
    <3>1. n + 1 \in 0..Len(e)
      BY <1>6
    <3>2. n + 1 < k + 1 \/ n + 1 = k + 1 \/ d[n] = fin
      BY <2>2
    <3>3. CASE d[n] = fin
      BY <1>4, <1>11, <3>1, <3>3
    <3> QED
      BY <1>10, <3>1, <3>2, <3>3
  <2>3. \A n \in 0..Len(e) : n \in P
    <3> HIDE DEF P
    <3> QED
      BY <1>6, <2>1, <2>2, LoopInvariant
  <2> QED
    BY <1>6, <1>9, <2>3
<1>13. DeviceDecode(e) = data
  BY <1>5, <1>12 DEF fin
<1>14. Frame(HostDecode(e)) = data
  BY <1>1, <1>13, SidesDecodeAlike DEF Frame
<1> QED
  BY <1>13, <1>14 DEF e

\* n bytes and their runs take one byte more for each full block of them.
FullBlocks(s, n, x) == Len(s.out) + Len(s.run) = n + x /\ x * (Full - 1) + Len(s.run) <= n

\* What cobs_encode makes of a frame of the permitted length is no longer than
\* encoded_input, so loop never drops an undamaged frame as overlong.
THEOREM EncodingsFit ==
    ASSUME NEW data \in Seq(Bytes), Len(data) <= MaxLength
    PROVE  Len(Encoded(data)) <= Capacity
<1> DEFINE f == Stuffed(data)
           N == Len(data)
           P == {n \in 0..N : \E x \in 0..n : FullBlocks(f[n], n, x)}
<1>1. /\ f[0] = [out |-> <<>>, run |-> <<>>]
      /\ \A n \in 0..(N - 1) : f[n + 1] = Stuff(f[n], data[n + 1])
      /\ \A n \in 0..N : f[n] \in StuffStates
  BY StuffedRounds
<1>2. N \in Nat /\ Full \in Nat /\ Full >= 2 /\ MaxLength \in Nat /\ Capacity \in Nat
  BY CodecAssumption
<1>3. 0 \in P
  <2>1. Len(<<>>) = 0
    OBVIOUS
  <2>2. Len(f[0].out) = 0 /\ Len(f[0].run) = 0
    BY <1>1, <2>1
  <2> HIDE DEF f
  <2>3. FullBlocks(f[0], 0, 0)
    BY <1>2, <2>2 DEF FullBlocks
  <2> QED
    BY <1>2, <2>3
<1>4. ASSUME NEW n \in 0..(N - 1), n \in P PROVE n + 1 \in P
  <2> DEFINE s == f[n]
             v == data[n + 1]
             t == f[n + 1]
  <2>1. n \in Nat /\ n + 1 \in 0..N /\ n \in 0..N /\ n + 1 \in 1..Len(data)
    BY <1>2
  <2>2. s \in StuffStates /\ v \in Bytes /\ t = Stuff(s, v)
    BY <1>1, <2>1
  <2>3. PICK x \in 0..n : FullBlocks(s, n, x)
    BY <1>4
  <2> HIDE DEF f, s, v, t, N
  <2>4. s.out \in ZeroFree /\ s.run \in ZeroFree /\ Len(s.run) + 2 <= Full
    BY <2>2 DEF StuffStates
  <2> DEFINE w == s.out
             r == s.run
             S == 1..Full
             b == Full - 1
             p == x * b
  <2>5. w \in Seq(S) /\ r \in Seq(S) /\ Len(w) \in Nat /\ Len(r) \in Nat
    BY <2>4 DEF ZeroFree
  <2>6. x \in Nat /\ x \in 0..n /\ x \in 0..(n + 1) /\ x + 1 \in 0..(n + 1) /\ b \in Nat
    BY <1>2, <2>1
  <2>7. Len(w) + Len(r) = n + x /\ p + Len(r) <= n
    BY <2>3, Zenon DEF FullBlocks
  <2>8. p \in Nat
    <3> HIDE DEF b
    <3> QED
      BY <2>6
  <2>13. (x + 1) * b = p + b
    <3> HIDE DEF b
    <3> QED
      BY <2>6
  <2> HIDE DEF w, r, S, p
  <2>9. ASSUME NEW q \in Seq(S), Len(q) < Full, t = [out |-> w \o Block(q), run |-> <<>>]
        PROVE  Len(t.out) = Len(w) + Len(q) + 1 /\ Len(t.run) = 0
    <3> DEFINE c == Block(q)
    <3>1. c \in Seq(S) /\ Len(c) = Len(q) + 1
      BY <2>9, BlockPositions DEF ZeroFree, S
    <3> HIDE DEF c
    <3>2. Len(w \o c) = Len(w) + Len(c) /\ Len(q) \in Nat
      <4>1. Len(w \o c) = Len(w) + Len(c)
        BY <2>5, <3>1, ConcatProperties, Zenon
      <4>2. Len(q) \in Nat
        BY <2>9, LenProperties, Zenon
      <4> QED
        BY <4>1, <4>2
    <3>3. t.out = w \o c /\ t.run = <<>> /\ Len(<<>>) = 0
      BY <2>9, FieldsOf DEF c
    <3> QED
      BY <2>5, <3>1, <3>2, <3>3
  <2>10. CASE v # 0 /\ t = [out |-> w, run |-> Append(r, v)]
    <3>1. v \in S
      BY <2>2, <2>10 DEF S, Bytes
    <3>2. Len(Append(r, v)) = Len(r) + 1 /\ t.out = w /\ t.run = Append(r, v)
      BY <2>5, <2>10, <3>1
    <3> HIDE DEF b
    <3>3. p + (Len(r) + 1) <= n + 1 /\ Len(w) + (Len(r) + 1) = (n + 1) + x
      BY <2>1, <2>5, <2>6, <2>7, <2>8
    <3>4. FullBlocks(t, n + 1, x)
      BY <3>2, <3>3, Zenon DEF FullBlocks, p, b
    <3> QED
      BY <2>1, <2>6, <3>4, Zenon DEF t
  <2>11. CASE t = [out |-> w \o Block(r), run |-> <<>>]
    <3>1. Len(r) < Full
      BY <1>2, <2>4, <2>5 DEF r
    <3>2. Len(t.out) = Len(w) + Len(r) + 1 /\ Len(t.run) = 0
      BY <2>5, <2>9, <2>11, <3>1
    <3> HIDE DEF b
    <3>3. p + 0 <= n + 1 /\ (Len(w) + Len(r) + 1) + 0 = (n + 1) + x
      <4> DEFINE a == Len(w)
                 c == Len(r)
      <4>1. a \in Nat /\ c \in Nat /\ a + c = n + x /\ p + c <= n
        BY <2>5, <2>7
      <4> HIDE DEF a, c
      <4>2. p + 0 <= n + 1
        BY <2>1, <2>8, <4>1
      <4>3. (a + c + 1) + 0 = (n + 1) + x
        BY <2>1, <2>6, <4>1
      <4> QED
        BY <4>2, <4>3 DEF a, c
    <3>4. FullBlocks(t, n + 1, x)
      BY <3>2, <3>3, Zenon DEF FullBlocks, p, b
    <3> QED
      BY <2>1, <2>6, <3>4, Zenon DEF t
  <2>12. CASE v # 0 /\ Len(r) + 2 = Full /\ t = [out |-> w \o Block(Append(r, v)), run |-> <<>>]
    <3> DEFINE q == Append(r, v)
    <3>1. v \in S
      BY <2>2, <2>12 DEF S, Bytes
    <3>2. q \in Seq(S) /\ Len(q) = Len(r) + 1 /\ Len(q) < Full /\ b = Len(r) + 1
      BY <1>2, <2>5, <2>12, <3>1
    <3> HIDE DEF q, b
    <3>3. Len(t.out) = Len(w) + Len(q) + 1 /\ Len(t.run) = 0
      BY <2>9, <2>12, <3>2 DEF q
    <3>4. (p + b) + 0 <= n + 1 /\ (Len(w) + Len(q) + 1) + 0 = (n + 1) + (x + 1)
      BY <2>1, <2>5, <2>6, <2>7, <2>8, <3>2
    <3>5. FullBlocks(t, n + 1, x + 1)
      BY <2>13, <3>3, <3>4, Zenon DEF FullBlocks, b
    <3> QED
      BY <2>1, <2>6, <3>5, Zenon DEF t
  <2> QED
    BY <2>2, <2>10, <2>11, <2>12, StuffStep DEF w, r
<1>5. \A n \in 0..N : n \in P
  <2> HIDE DEF P
  <2> QED
    BY <1>2, <1>3, <1>4, LoopInvariant
<1>6. PICK x \in 0..N : FullBlocks(f[N], N, x)
  BY <1>2, <1>5
<1>7. Len(Encoded(data)) = Len(f[N].out) + Len(f[N].run) + 1
      /\ Len(f[N].out) \in Nat /\ Len(f[N].run) \in Nat
  <2>1. Len(Encoded(data)) = Len(f[N].out) + Len(f[N].run) + 1 /\ f[N] \in StuffStates
    BY EncodedType
  <2> QED
    BY <2>1 DEF StuffStates, ZeroFree
<1> HIDE DEF f, N
<1> DEFINE p == x * (Full - 1)
<1>8. p \in Nat /\ N <= MaxLength /\ x \in Nat /\ x \in 0..MaxLength
  BY <1>2 DEF N
<1>9. Len(f[N].out) + Len(f[N].run) = N + x /\ p + Len(f[N].run) <= N
  BY <1>6, Zenon DEF FullBlocks
<1>10. MaxLength + x + 1 <= Capacity
  <2>1. p <= MaxLength
    <3> HIDE DEF p
    <3> QED
      BY <1>2, <1>7, <1>8, <1>9
  <2> QED
    BY <1>8, <2>1, CodecAssumption
<1> DEFINE a == Len(f[N].out)
           c == Len(f[N].run)
           l == Len(Encoded(data))
<1>11. l = a + c + 1 /\ a \in Nat /\ c \in Nat /\ a + c = N + x
  BY <1>7, <1>9
<1> HIDE DEF p, a, c, l
<1>12. l <= Capacity
  BY <1>2, <1>8, <1>10, <1>11
<1> QED
  BY <1>12 DEF l

-----------------------------------------------------------------------------
(* The line                                                                 *)

Marked == [of : Nat, byte : Bytes]
Sent == {d \in Seq(Bytes) : d # <<>> /\ Len(d) <= MaxLength}
LineType ==
    /\ line \in Seq(Marked) /\ buffer \in ZeroFree /\ tlvs \in Seq(Bytes)
    /\ written \in Seq(Sent)

\* The bytes a frame puts on the line.
OnLine(n, data) ==
    LET bytes == Append(Encoded(data), 0)
    IN  [i \in DOMAIN bytes |-> [of |-> n, byte |-> bytes[i]]]

\* A frame on the line is its encoding and the delimiter.
LEMMA OnLineType ==
    ASSUME NEW n \in Nat, NEW data \in Seq(Bytes)
    PROVE  LET e == Encoded(data)
               o == OnLine(n, data)
           IN  /\ o \in Seq(Marked) /\ Len(o) = Len(e) + 1
               /\ o[Len(e) + 1] = [of |-> n, byte |-> 0]
               /\ \A i \in 1..Len(e) : o[i] = [of |-> n, byte |-> e[i]]
<1> DEFINE e == Encoded(data)
           bytes == Append(e, 0)
           o == [i \in DOMAIN bytes |-> [of |-> n, byte |-> bytes[i]]]
<1>1. e \in ZeroFree
  BY EncodedType
<1>2. OnLine(n, data) = o
  BY DEF OnLine
<1> HIDE DEF e
<1>3. e \in Seq(Bytes) /\ 0 \in Bytes /\ Len(e) \in Nat
  BY <1>1, CodecAssumption DEF ZeroFree, Bytes
<1>4. /\ bytes \in Seq(Bytes) /\ Len(bytes) = Len(e) + 1 /\ bytes[Len(e) + 1] = 0
      /\ \A i \in 1..Len(e) : bytes[i] = e[i]
  BY <1>3
<1> HIDE DEF bytes
<1>5. DOMAIN bytes = 1..(Len(e) + 1) /\ \A i \in 1..(Len(e) + 1) : bytes[i] \in Bytes
  BY <1>3, <1>4
<1>6. \A i \in 1..(Len(e) + 1) : [of |-> n, byte |-> bytes[i]] \in Marked
  BY <1>5 DEF Marked
<1>7. o = [i \in 1..(Len(e) + 1) |-> [of |-> n, byte |-> bytes[i]]]
  BY <1>5
<1>8. o \in [1..(Len(e) + 1) -> Marked]
  BY <1>6, <1>7
<1>9. o \in Seq(Marked) /\ Len(o) = Len(e) + 1
  <2> HIDE DEF o
  <2>1. Len(e) + 1 \in Nat
    BY <1>3
  <2>2. o \in Seq(Marked)
    BY <1>8, <2>1, SeqDef
  <2>3. DOMAIN o = 1..(Len(e) + 1)
    BY <1>8
  <2> QED
    BY <2>1, <2>2, <2>3, LenProperties
<1>10. o[Len(e) + 1] = [of |-> n, byte |-> 0]
  BY <1>3, <1>4, <1>7
<1>11. \A i \in 1..Len(e) : o[i] = [of |-> n, byte |-> e[i]]
  BY <1>3, <1>4, <1>7
<1> QED
  BY <1>2, <1>9, <1>10, <1>11 DEF e

\* What the actions send is data of the line.
LEMMA SentIsData ==
    ASSUME NEW n \in 1..MaxLength, NEW data \in [1..n -> Values]
    PROVE  data \in Sent
<1>1. n \in Nat /\ Values \subseteq Bytes
  BY CodecAssumption DEF Bytes
<1>2. data \in [1..n -> Bytes]
  BY <1>1
<1>3. data \in Seq(Bytes)
  BY <1>1, <1>2, SeqDef
<1>4. Len(data) = n
  BY <1>1, <1>2, <1>3, LenProperties
<1>5. data # <<>>
  BY <1>4
<1> QED
  BY <1>3, <1>4, <1>5, CodecAssumption DEF Sent

\* A byte is taken away, or another takes its place.
LEMMA LostOrChanged ==
    ASSUME NEW s \in Seq(Marked), NEW i \in 1..Len(s)
    PROVE  /\ RemoveAt(s, i) \in Seq(Marked) /\ Len(RemoveAt(s, i)) = Len(s) - 1
           /\ \A k \in 1..(Len(s) - 1) : RemoveAt(s, i)[k] = IF k < i THEN s[k] ELSE s[k + 1]
           /\ \A v \in Bytes :
                  /\ [s EXCEPT ![i].byte = v] \in Seq(Marked)
                  /\ Len([s EXCEPT ![i].byte = v]) = Len(s)
                  /\ \A k \in 1..Len(s) : [s EXCEPT ![i].byte = v][k]
                                          = IF k = i THEN [s[i] EXCEPT !.byte = v] ELSE s[k]
<1> DEFINE a == SubSeq(s, 1, i - 1)
           b == SubSeq(s, i + 1, Len(s))
<1>1. Len(s) \in Nat /\ i - 1 \in Nat /\ i \in Nat /\ i <= Len(s) /\ 1 <= i
  OBVIOUS
<1>2. /\ a \in Seq(Marked) /\ Len(a) = i - 1 /\ \A k \in 1..(i - 1) : a[k] = s[k]
      /\ b \in Seq(Marked) /\ Len(b) = Len(s) - i /\ \A k \in 1..(Len(s) - i) : b[k] = s[i + k]
  BY <1>1
<1>3. RemoveAt(s, i) = a \o b
  BY DEF RemoveAt
<1> HIDE DEF a, b
<1>4. /\ a \o b \in Seq(Marked) /\ Len(a \o b) = Len(s) - 1
      /\ \A k \in 1..(Len(s) - 1) : (a \o b)[k] = IF k < i THEN s[k] ELSE s[k + 1]
  <2>1. /\ a \o b \in Seq(Marked) /\ Len(a \o b) = Len(a) + Len(b)
        /\ \A k \in 1..(Len(a) + Len(b)) : (a \o b)[k] = IF k <= Len(a) THEN a[k] ELSE b[k - Len(a)]
    BY <1>2, ConcatProperties
  <2>2. Len(a) + Len(b) = Len(s) - 1
    BY <1>1, <1>2
  <2>3. ASSUME NEW k \in 1..(Len(s) - 1) PROVE (a \o b)[k] = IF k < i THEN s[k] ELSE s[k + 1]
    <3>1. CASE k < i
      <4>1. k \in 1..(i - 1) /\ k <= Len(a) /\ k \in 1..(Len(a) + Len(b))
        BY <1>1, <1>2, <2>2, <3>1
      <4> QED
        BY <1>2, <2>1, <3>1, <4>1
    <3>2. CASE ~(k < i)
      <4>1. /\ k - Len(a) \in 1..(Len(s) - i) /\ ~(k <= Len(a)) /\ k \in 1..(Len(a) + Len(b))
            /\ i + (k - Len(a)) = k + 1
        BY <1>1, <1>2, <2>2, <3>2
      <4>2. b[k - Len(a)] = s[i + (k - Len(a))]
        BY <1>2, <4>1
      <4>3. (a \o b)[k] = b[k - Len(a)]
        BY <2>1, <4>1
      <4> QED
        BY <3>2, <4>1, <4>2, <4>3
    <3> QED
      BY <3>1, <3>2
  <2> QED
    BY <2>1, <2>2, <2>3
<1>5. ASSUME NEW v \in Bytes
      PROVE  /\ [s EXCEPT ![i].byte = v] \in Seq(Marked)
             /\ Len([s EXCEPT ![i].byte = v]) = Len(s)
             /\ \A k \in 1..Len(s) : [s EXCEPT ![i].byte = v][k]
                                     = IF k = i THEN [s[i] EXCEPT !.byte = v] ELSE s[k]
  <2> DEFINE m == [s[i] EXCEPT !.byte = v]
             t == [s EXCEPT ![i] = m]
  <2>1. m \in Marked
    <3>1. s[i] \in Marked
      BY <1>1
    <3> QED
      BY <3>1 DEF Marked
  <2>2. [s EXCEPT ![i].byte = v] = t
    OBVIOUS
  <2>3. t \in Seq(Marked) /\ Len(t) = Len(s)
    <3> HIDE DEF m
    <3> QED
      BY <2>1
  <2>4. \A k \in 1..Len(s) : t[k] = IF k = i THEN m ELSE s[k]
    <3> HIDE DEF m
    <3> QED
      BY <1>1
  <2> HIDE DEF t
  <2> QED
    BY <2>2, <2>3, <2>4
<1> QED
  BY <1>3, <1>4, <1>5

\* Steps keep the type of the line.
LEMMA LineTypeInductive ==
    ASSUME LineType, [CodecNext]_codecVars
    PROVE  LineType'
<1>1. /\ line \in Seq(Marked) /\ buffer \in ZeroFree /\ tlvs \in Seq(Bytes)
      /\ written \in Seq(Sent) /\ Values \subseteq Bytes
  BY CodecAssumption DEF LineType, Bytes
<1>2. ASSUME NEW n \in 1..MaxLength, NEW data \in [1..n -> Values], WriteFrame(data)
      PROVE  LineType'
  <2>1. data \in Sent /\ data \in Seq(Bytes)
    BY SentIsData DEF Sent
  <2>2. line' = line \o OnLine(Len(written) + 1, data)
    BY <1>2 DEF WriteFrame, OnLine
  <2>3. Len(written) + 1 \in Nat
    BY <1>1
  <2>4. OnLine(Len(written) + 1, data) \in Seq(Marked)
    BY <2>1, <2>3, OnLineType
  <2>5. line' \in Seq(Marked)
    BY <1>1, <2>2, <2>4
  <2>6. written' = Append(written, data) /\ buffer' = buffer /\ tlvs' = tlvs
    BY <1>2 DEF WriteFrame
  <2>7. written' \in Seq(Sent)
    BY <1>1, <2>1, <2>6
  <2> QED
    BY <1>1, <2>5, <2>6, <2>7 DEF LineType
<1>3. ASSUME NEW i \in DOMAIN line, NEW rest, Noise(i, rest), rest \in Seq(Marked)
      PROVE  LineType'
  BY <1>1, <1>3 DEF LineType, Noise
<1>4. ASSUME NEW i \in DOMAIN line
      PROVE  /\ RemoveAt(line, i) \in Seq(Marked)
             /\ \A v \in Values : [line EXCEPT ![i].byte = v] \in Seq(Marked)
  <2>1. i \in 1..Len(line)
    BY <1>1
  <2> QED
    BY <1>1, <2>1, LostOrChanged
<1>5. CASE ReadByte
  <2>1. line \in Seq(Marked) /\ line # <<>> /\ line' = Tail(line)
    BY <1>1, <1>5 DEF ReadByte
  <2>2. line' \in Seq(Marked) /\ Head(line) \in Marked
    BY <2>1, HeadTailProperties
  <2>3. Head(line).byte \in Bytes
    BY <2>2 DEF Marked
  <2>4. buffer' \in ZeroFree
    <3> DEFINE v == Head(line).byte
               S == 1..Full
    <3>1. buffer' = <<>> \/ (v # 0 /\ buffer' = Append(buffer, v))
      BY <1>5 DEF ReadByte
    <3>2. v # 0 => v \in S
      BY <2>3, CodecAssumption DEF Bytes
    <3>3. buffer \in Seq(S)
      BY <1>1 DEF ZeroFree
    <3> HIDE DEF v, S
    <3>4. <<>> \in Seq(S) /\ (v \in S => Append(buffer, v) \in Seq(S))
      BY <3>3
    <3>5. buffer' \in Seq(S)
      BY <3>1, <3>2, <3>4, Zenon
    <3> QED
      BY <3>5 DEF ZeroFree, S
  <2> QED
    BY <1>1, <1>5, <2>2, <2>4 DEF LineType, ReadByte
<1>6. CASE ReadAll
  BY <1>1, <1>6 DEF LineType, ReadAll
<1>7. ASSUME NEW v \in Values, ExtendBody(v) PROVE LineType'
  <2>1. tlvs' = Append(tlvs, v) /\ v \in Bytes
    BY <1>1, <1>7 DEF ExtendBody
  <2>2. tlvs' \in Seq(Bytes)
    BY <1>1, <2>1
  <2> QED
    BY <1>1, <1>7, <2>2 DEF LineType, ExtendBody
<1>8. CASE UNCHANGED codecVars
  BY <1>8 DEF LineType, codecVars
<1>9. CASE CodecNext
  <2>1. CASE \E n \in 1..MaxLength : \E data \in [1..n -> Values] : WriteFrame(data)
    BY <1>2, <2>1
  <2>2. CASE \E i \in DOMAIN line : \/ Noise(i, RemoveAt(line, i))
                                    \/ \E v \in Values : Noise(i, [line EXCEPT ![i].byte = v])
    <3>1. PICK i \in DOMAIN line : \/ Noise(i, RemoveAt(line, i))
                                   \/ \E v \in Values : Noise(i, [line EXCEPT ![i].byte = v])
      BY <2>2
    <3> QED
      BY <1>3, <1>4, <3>1
  <2>3. CASE \E v \in Values : ExtendBody(v)
    BY <1>7, <2>3
  <2> QED
    BY <1>5, <1>6, <1>9, <2>1, <2>2, <2>3 DEF CodecNext
<1> QED
  BY <1>8, <1>9

\* Whatever arrives, the two sides read the same frame and the same body in it,
\* or both refuse it (cobs_decode and cobsDecode, decode_tlvs and TlvReader).
THEOREM Agreement == CodecSpec => []SidesAgree
<1>1. CodecInit => LineType
  BY DEF CodecInit, LineType, ZeroFree
<1>2. LineType /\ [CodecNext]_codecVars => LineType'
  BY LineTypeInductive
<1>3. LineType => SidesAgree
  <2> SUFFICES ASSUME LineType PROVE SidesAgree
    OBVIOUS
  <2>1. buffer \in ZeroFree /\ tlvs \in Seq(Bytes)
    BY DEF LineType
  <2>2. Frame(DeviceDecode(buffer)) = Frame(HostDecode(buffer))
    BY <2>1, SidesDecodeAlike
  <2>3. DeviceBody(tlvs) = HostBody(tlvs)
    BY <2>1, SidesReadAlike
  <2> QED
    BY <2>2, <2>3 DEF SidesAgree
<1> QED
  BY <1>1, <1>2, <1>3, PTL DEF CodecSpec

-----------------------------------------------------------------------------
(* What has not been touched arrives                                        *)

\* After p bytes of the line come those of frame k, encoded as e, from the
\* j + 1st on, and then only bytes of later frames.
Holds(e, rest, p, k, j) ==
    LET end == p + (Len(e) + 1 - j)
    IN  /\ end <= Len(rest)
        /\ \A i \in 1..(Len(e) - j) : rest[p + i] = [of |-> k, byte |-> e[j + i]]
        /\ rest[end] = [of |-> k, byte |-> 0]
        /\ \A i \in 1..Len(rest) : i > end => rest[i].of > k

\* The frame is on the line, whole, after the delimiter of the one before it.
Waits(e, rest, piece, k) ==
    \E p \in 0..Len(rest) :
        /\ Holds(e, rest, p, k, 0)
        /\ p = 0 => piece = <<>>
        /\ p # 0 => rest[p] = [of |-> k - 1, byte |-> 0]

\* The reader has its first bytes, and the others are next.
Partly(e, rest, piece, k) ==
    \E j \in 1..Len(e) : /\ Holds(e, rest, 0, k, j)
                         /\ Len(piece) = j /\ \A i \in 1..j : piece[i] = e[i]

Done(data, got, k) == \E i \in 1..Len(got) : got[i] = [of |-> k, data |-> data]

Deliveries == Seq([of : Nat, data : Seq(Bytes) \cup {Bad}])

\* They are as they were on a line that has these bytes where they were, or
\* one place before it.
LEMMA HoldsSame ==
    ASSUME NEW e \in ZeroFree, NEW rest, NEW t, NEW k, NEW p \in Nat, NEW j \in 0..Len(e),
           Holds(e, rest, p, k, j), p + (Len(e) + 1 - j) <= Len(t),
           \A m \in (p + 1)..(p + (Len(e) + 1 - j)) : t[m] = rest[m],
           \A m \in 1..Len(t) : m > p + (Len(e) + 1 - j) => t[m].of > k
    PROVE  Holds(e, t, p, k, j)
<1> DEFINE n == Len(e)
           end == p + (n + 1 - j)
<1>1. n \in Nat /\ j \in Nat /\ j <= n
  BY DEF ZeroFree
<1>2. /\ \A i \in 1..(n - j) : rest[p + i] = [of |-> k, byte |-> e[j + i]]
      /\ rest[end] = [of |-> k, byte |-> 0]
  BY Zenon DEF Holds
<1> HIDE DEF n
<1>3. end \in (p + 1)..end /\ \A i \in 1..(n - j) : p + i \in (p + 1)..end
  BY <1>1
<1>4. \A m \in (p + 1)..end : t[m] = rest[m]
  BY DEF n
<1> HIDE DEF end
<1>5. t[end] = [of |-> k, byte |-> 0]
  BY <1>2, <1>3, <1>4
<1>6. \A i \in 1..(n - j) : t[p + i] = [of |-> k, byte |-> e[j + i]]
  BY <1>2, <1>3, <1>4
<1> QED
  BY <1>5, <1>6, Zenon DEF Holds, end, n

\* A frame that waits further on is one place nearer when a byte is read.
LEMMA HoldsLater ==
    ASSUME NEW e \in ZeroFree, NEW rest, NEW t, NEW k, NEW p \in Nat, p # 0, NEW j \in 0..Len(e),
           Len(rest) \in Nat, Len(t) = Len(rest) - 1,
           \A m \in p..(Len(rest) - 1) : t[m] = rest[m + 1],
           Holds(e, rest, p, k, j)
    PROVE  Holds(e, t, p - 1, k, j)
<1> DEFINE n == Len(e)
           l == Len(rest)
           end == p + (n + 1 - j)
<1>1. n \in Nat /\ l \in Nat /\ j \in Nat /\ j <= n
  BY DEF ZeroFree
<1>2. Len(t) = l - 1 /\ \A m \in p..(l - 1) : t[m] = rest[m + 1]
  OBVIOUS
<1>3. /\ end <= l
      /\ \A i \in 1..(n - j) : rest[p + i] = [of |-> k, byte |-> e[j + i]]
      /\ rest[end] = [of |-> k, byte |-> 0]
      /\ \A i \in 1..l : i > end => rest[i].of > k
  BY Zenon DEF Holds
<1> HIDE DEF n, l
<1>4. /\ end \in Nat /\ end - 1 \in p..(l - 1) /\ (p - 1) + (n + 1 - j) = end - 1
      /\ (end - 1) + 1 = end
  BY <1>1, <1>3
<1>5. t[end - 1] = [of |-> k, byte |-> 0]
  <2> HIDE DEF end
  <2> QED
    BY <1>2, <1>3, <1>4
<1>6. ASSUME NEW i \in 1..(n - j) PROVE t[(p - 1) + i] = [of |-> k, byte |-> e[j + i]]
  <2>1. (p - 1) + i \in p..(l - 1) /\ ((p - 1) + i) + 1 = p + i
    BY <1>1, <1>3
  <2>2. t[(p - 1) + i] = rest[p + i]
    BY <1>2, <2>1
  <2> QED
    BY <1>3, <2>2
<1>7. ASSUME NEW i \in 1..Len(t), i > end - 1 PROVE t[i].of > k
  <2>1. i \in p..(l - 1) /\ i + 1 \in 1..l /\ i + 1 > end
    BY <1>1, <1>2, <1>4, <1>7
  <2>2. t[i] = rest[i + 1]
    BY <1>2, <2>1
  <2> HIDE DEF end
  <2> QED
    BY <1>3, <2>1, <2>2
<1>8. end - 1 <= Len(t)
  BY <1>1, <1>2, <1>4
<1> HIDE DEF end
<1> QED
  BY <1>4, <1>5, <1>6, <1>7, <1>8, Zenon DEF Holds, n

\* The first byte of a frame is read, the others are next.
LEMMA HoldsOneLess ==
    ASSUME NEW e \in ZeroFree, NEW rest \in Seq(Marked), rest # <<>>, NEW k \in Nat,
           NEW j \in Nat, j < Len(e), Holds(e, rest, 0, k, j)
    PROVE  /\ Head(rest) = [of |-> k, byte |-> e[j + 1]]
           /\ Holds(e, Tail(rest), 0, k, j + 1)
<1> DEFINE n == Len(e)
           l == Len(rest)
           t == Tail(rest)
           end == 0 + (n + 1 - j)
<1>1. n \in Nat /\ l \in Nat /\ j < n
  BY DEF ZeroFree
<1>2. Len(t) = l - 1 /\ Head(rest) = rest[1] /\ \A i \in 1..(l - 1) : t[i] = rest[i + 1]
  BY HeadTailProperties
<1>3. /\ end <= l
      /\ \A i \in 1..(n - j) : rest[0 + i] = [of |-> k, byte |-> e[j + i]]
      /\ rest[end] = [of |-> k, byte |-> 0]
      /\ \A i \in 1..l : i > end => rest[i].of > k
  BY Zenon DEF Holds
<1> HIDE DEF t, n, l
<1>4. /\ end \in Nat /\ end - 1 \in 1..(l - 1) /\ 0 + (n + 1 - (j + 1)) = end - 1
      /\ (end - 1) + 1 = end
  BY <1>1, <1>3
<1>5. t[end - 1] = [of |-> k, byte |-> 0]
  BY <1>2, <1>3, <1>4
<1>6. ASSUME NEW i \in 1..(n - (j + 1)) PROVE t[0 + i] = [of |-> k, byte |-> e[(j + 1) + i]]
  <2>1. /\ 0 + i \in 1..(l - 1) /\ (0 + i) + 1 = 0 + (i + 1) /\ i + 1 \in 1..(n - j)
        /\ j + (i + 1) = (j + 1) + i
    BY <1>1, <1>3
  <2>2. t[0 + i] = rest[(0 + i) + 1]
    BY <1>2, <2>1
  <2>3. rest[0 + (i + 1)] = [of |-> k, byte |-> e[j + (i + 1)]]
    BY <1>3, <2>1
  <2> QED
    BY <2>1, <2>2, <2>3
<1>7. ASSUME NEW i \in 1..Len(t), i > end - 1 PROVE t[i].of > k
  <2>1. i \in 1..(l - 1) /\ i + 1 \in 1..l /\ i + 1 > end
    BY <1>1, <1>2, <1>4, <1>7
  <2>2. t[i] = rest[i + 1]
    BY <1>2, <2>1
  <2> QED
    BY <1>3, <2>1, <2>2
<1>8. end - 1 <= Len(t)
  BY <1>1, <1>2, <1>4
<1>9. Head(rest) = [of |-> k, byte |-> e[j + 1]]
  <2>1. 1 \in 1..(n - j) /\ 0 + 1 = 1
    BY <1>1
  <2> QED
    BY <1>2, <1>3, <2>1
<1> HIDE DEF end
<1>10. Holds(e, t, 0, k, j + 1)
  BY <1>4, <1>5, <1>6, <1>7, <1>8, Zenon DEF Holds, n
<1> QED
  BY <1>9, <1>10 DEF t

\* The reader's piece after a byte b; one that is too long may be given up.
Takes(piece, b, next) ==
    IF b.byte = 0 THEN next = <<>>
    ELSE Len(piece) < Capacity => next = Append(piece, b.byte)

\* The reader comes to a frame that waits for it.
LEMMA WaitingIsRead ==
    ASSUME NEW e \in ZeroFree, e # <<>>, Len(e) <= Capacity, NEW k \in Nat,
           NEW rest \in Seq(Marked), rest # <<>>, NEW piece \in ZeroFree, NEW next \in ZeroFree,
           Takes(piece, Head(rest), next), Waits(e, rest, piece, k)
    PROVE  Waits(e, Tail(rest), next, k) \/ Partly(e, Tail(rest), next, k)
<1> DEFINE t == Tail(rest)
           l == Len(rest)
<1>1. /\ l \in Nat /\ l >= 1 /\ Len(t) = l - 1 /\ Head(rest) = rest[1]
      /\ \A i \in 1..(l - 1) : t[i] = rest[i + 1]
  BY HeadTailProperties
<1>2. PICK p \in 0..l : /\ Holds(e, rest, p, k, 0)
                        /\ p = 0 => piece = <<>>
                        /\ p # 0 => rest[p] = [of |-> k - 1, byte |-> 0]
  BY Zenon DEF Waits
<1>3. Len(e) \in Nat /\ Len(e) >= 1 /\ e[1] \in 1..Full /\ Capacity \in Nat
  BY CodecAssumption DEF ZeroFree
<1>4. CASE p = 0
  <2>1. Head(rest) = [of |-> k, byte |-> e[0 + 1]] /\ Holds(e, t, 0, k, 0 + 1)
    BY <1>2, <1>3, <1>4, HoldsOneLess
  <2>2. Head(rest).byte = e[1] /\ e[1] # 0
    BY <1>3, <2>1
  <2>3. piece = <<>> /\ Len(piece) < Capacity
    <3>1. piece = <<>>
      BY <1>2, <1>4
    <3>2. Len(<<>>) = 0 /\ 0 < Capacity
      BY <1>3
    <3> QED
      BY <3>1, <3>2
  <2>4. next = <<e[1]>>
    <3>1. next = Append(piece, e[1])
      BY <2>2, <2>3, Zenon DEF Takes
    <3>2. Append(<<>>, e[1]) = <<e[1]>>
      OBVIOUS
    <3> QED
      BY <2>3, <3>1, <3>2
  <2>5. Len(next) = 1 /\ \A i \in 1..1 : next[i] = e[i]
    BY <2>4
  <2>6. 1 \in 1..Len(e) /\ Holds(e, t, 0, k, 1)
    BY <1>3, <2>1
  <2>7. Partly(e, t, next, k)
    BY <2>5, <2>6, Zenon DEF Partly
  <2> QED
    BY <2>7
<1>5. CASE p # 0
  <2>1. p \in Nat /\ p - 1 \in Nat /\ 0 \in 0..Len(e)
    BY <1>1, <1>3, <1>5
  <2>2. Holds(e, t, p - 1, k, 0)
    <3>1. \A m \in p..(l - 1) : t[m] = rest[m + 1]
      BY <1>1, <2>1
    <3> HIDE DEF t
    <3> QED
      BY <1>1, <1>2, <1>5, <2>1, <3>1, HoldsLater
  <2>3. p - 1 \in 0..Len(t)
    BY <1>1, <1>5
  <2>4. p - 1 = 0 => next = <<>>
    <3> SUFFICES ASSUME p = 1 PROVE next = <<>>
      BY <2>1
    <3>1. Head(rest) = [of |-> k - 1, byte |-> 0]
      BY <1>1, <1>2
    <3> QED
      BY <3>1 DEF Takes
  <2>5. p - 1 # 0 => t[p - 1] = [of |-> k - 1, byte |-> 0]
    <3> SUFFICES ASSUME p - 1 # 0 PROVE t[p - 1] = [of |-> k - 1, byte |-> 0]
      OBVIOUS
    <3>1. p - 1 \in 1..(l - 1) /\ (p - 1) + 1 = p
      BY <1>1, <2>1
    <3>2. t[p - 1] = rest[(p - 1) + 1]
      BY <1>1, <3>1
    <3> QED
      BY <1>2, <1>5, <3>1, <3>2
  <2>6. Waits(e, t, next, k)
    <3> HIDE DEF t
    <3> QED
      BY <2>2, <2>3, <2>4, <2>5, Zenon DEF Waits
  <2> QED
    BY <2>6
<1> QED
  BY <1>4, <1>5

\* The reader goes on with a frame, up to its delimiter.
LEMMA PartIsRead ==
    ASSUME NEW e \in ZeroFree, e # <<>>, Len(e) <= Capacity, NEW k \in Nat,
           NEW rest \in Seq(Marked), rest # <<>>, NEW piece \in ZeroFree, NEW next \in ZeroFree,
           Takes(piece, Head(rest), next), Partly(e, rest, piece, k)
    PROVE  \/ /\ Head(rest).byte # 0 /\ Head(rest).of = k
              /\ Partly(e, Tail(rest), next, k)
           \/ /\ Head(rest) = [of |-> k, byte |-> 0] /\ piece = e
              /\ \A i \in 1..Len(Tail(rest)) : Tail(rest)[i].of > k
<1> DEFINE t == Tail(rest)
           l == Len(rest)
           n == Len(e)
<1>1. /\ l \in Nat /\ l >= 1 /\ Len(t) = l - 1 /\ Head(rest) = rest[1]
      /\ \A i \in 1..(l - 1) : t[i] = rest[i + 1]
  BY HeadTailProperties
<1>2. PICK j \in 1..n : Holds(e, rest, 0, k, j) /\ Len(piece) = j /\ \A i \in 1..j : piece[i] = e[i]
  BY Zenon DEF Partly
<1>3. n \in Nat /\ n >= 1 /\ Capacity \in Nat /\ \A i \in 1..n : e[i] \in 1..Full
  BY CodecAssumption DEF ZeroFree
<1>4. CASE j < n
  <2>1. Head(rest) = [of |-> k, byte |-> e[j + 1]] /\ Holds(e, t, 0, k, j + 1)
    BY <1>2, <1>3, <1>4, HoldsOneLess
  <2>2. j + 1 \in 1..n /\ e[j + 1] # 0 /\ e[j + 1] \in 1..Full
    BY <1>3, <1>4
  <2>3. Head(rest).byte = e[j + 1] /\ Head(rest).of = k
    BY <2>1
  <2>4. Len(piece) < Capacity
    BY <1>2, <1>3, <1>4
  <2>5. next = Append(piece, e[j + 1])
    BY <2>2, <2>3, <2>4, Zenon DEF Takes
  <2>6. Len(next) = j + 1 /\ \A i \in 1..(j + 1) : next[i] = e[i]
    <3> DEFINE S == 1..Full
    <3>1. piece \in Seq(S) /\ e[j + 1] \in S
      BY <2>2 DEF ZeroFree
    <3> HIDE DEF S
    <3> QED
      BY <1>2, <2>5, <3>1
  <2>7. Partly(e, t, next, k)
    BY <2>1, <2>2, <2>6, Zenon DEF Partly
  <2> QED
    BY <2>2, <2>3, <2>7
<1>5. CASE j = n
  <2> DEFINE end == 0 + (Len(e) + 1 - j)
  <2>1. rest[end] = [of |-> k, byte |-> 0] /\ \A i \in 1..l : i > end => rest[i].of > k
    BY <1>2, Zenon DEF Holds
  <2>2. end = 1
    BY <1>3, <1>5
  <2>3. ASSUME NEW i \in 1..Len(t) PROVE t[i].of > k
    <3>1. i \in 1..(l - 1) /\ i + 1 \in 1..l /\ i + 1 > 1
      BY <1>1
    <3> QED
      BY <1>1, <2>1, <2>2, <3>1
  <2>4. piece = e
    <3> DEFINE S == 1..Full
    <3>1. piece \in Seq(S) /\ e \in Seq(S) /\ Len(piece) = Len(e)
      BY <1>2, <1>5 DEF ZeroFree
    <3>2. \A i \in 1..Len(e) : piece[i] = e[i]
      BY <1>2, <1>5
    <3> HIDE DEF S
    <3> QED
      BY <3>1, <3>2, SeqEqual
  <2> QED
    BY <1>1, <2>1, <2>2, <2>3, <2>4
<1> QED
  BY <1>2, <1>3, <1>4, <1>5

\* Frame k of the frames W: waiting, being read, or delivered.
OnItsWay(W, rest, piece, got, k) ==
    \/ Waits(Encoded(W[k]), rest, piece, k)
    \/ Partly(Encoded(W[k]), rest, piece, k)
    \/ Done(W[k], got, k)

\* A delivery under the name of a frame that is not touched is that frame, and
\* no byte of it or of an earlier one is left.
Genuine(W, T, rest, got) ==
    \A i \in 1..Len(got) : got[i].of \notin T =>
        /\ got[i].of \in 1..Len(W) /\ got[i].data = W[got[i].of]
        /\ \A j \in 1..Len(rest) : got[i].of < rest[j].of

InOrder(T, got) ==
    \A i, j \in 1..Len(got) : (i < j /\ got[i].of \notin T /\ got[j].of \notin T)
                              => got[i].of < got[j].of

Arriving(W, T, rest, piece, got) ==
    /\ \A i \in 1..Len(rest) : rest[i].of \in 1..Len(W)
    /\ \A i, j \in 1..Len(rest) : i < j => rest[i].of <= rest[j].of
    /\ \A k \in (1..Len(W)) \ T : OnItsWay(W, rest, piece, got, k)
    /\ Genuine(W, T, rest, got)
    /\ InOrder(T, got)

\* A delimiter has the piece before it delivered.
Delivers(piece, b, got, more) ==
    IF b.byte # 0 \/ piece = <<>> THEN more = got
    ELSE \E d \in Outputs : /\ more = Append(got, [of |-> b.of, data |-> d])
                            /\ \A data \in Sent : piece = Encoded(data) => d = data

\* The encoding of a frame fits, has no zero and decodes on either side.
LEMMA SentEncoded ==
    ASSUME NEW data \in Sent
    PROVE  /\ Encoded(data) \in ZeroFree /\ Encoded(data) # <<>>
           /\ Len(Encoded(data)) <= Capacity
           /\ DeviceDecode(Encoded(data)) = data /\ Frame(HostDecode(Encoded(data))) = data
<1>1. data \in Seq(Bytes) /\ data # <<>> /\ Len(data) <= MaxLength
  BY DEF Sent
<1> DEFINE e == Encoded(data)
           s == Stuffed(data)[Len(data)]
<1>2. e \in ZeroFree /\ s \in StuffStates /\ Len(e) = Len(s.out) + Len(s.run) + 1
  BY <1>1, EncodedType
<1>3. Len(s.out) \in Nat /\ Len(s.run) \in Nat
  BY <1>2 DEF StuffStates, ZeroFree
<1>4. Len(e) # 0
  <2> DEFINE a == Len(s.out)
             c == Len(s.run)
  <2>1. Len(e) = a + c + 1 /\ a \in Nat /\ c \in Nat
    BY <1>2, <1>3
  <2> HIDE DEF a, c, e
  <2> QED
    BY <2>1
<1>5. e # <<>>
  <2>1. Len(<<>>) = 0
    OBVIOUS
  <2> QED
    BY <1>4, <2>1, Zenon
<1> QED
  BY <1>1, <1>2, <1>5, EncodingsFit, RoundTrip

\* A byte delivers nothing, or one frame at its delimiter.
LEMMA DeliveriesGrow ==
    ASSUME NEW piece, NEW b \in Marked, NEW got \in Deliveries, NEW more, Delivers(piece, b, got, more)
    PROVE  /\ more \in Deliveries /\ Len(got) \in Nat
           /\ \A i \in 1..Len(got) : more[i] = got[i]
           /\ \/ more = got
              \/ /\ b.byte = 0 /\ piece # <<>> /\ Len(more) = Len(got) + 1
                 /\ more[Len(got) + 1].of = b.of
                 /\ \A data \in Sent : piece = Encoded(data)
                                       => more[Len(got) + 1] = [of |-> b.of, data |-> data]
<1> DEFINE S == [of : Nat, data : Seq(Bytes) \cup {Bad}]
<1>1. got \in Seq(S) /\ Len(got) \in Nat
  BY DEF Deliveries
<1>2. CASE more = got
  BY <1>1, <1>2 DEF Deliveries
<1>3. CASE b.byte = 0 /\ piece # <<>>
  <2>1. PICK d \in Outputs : /\ more = Append(got, [of |-> b.of, data |-> d])
                             /\ \A data \in Sent : piece = Encoded(data) => d = data
    BY <1>3 DEF Delivers
  <2> DEFINE r == [of |-> b.of, data |-> d]
  <2>2. r \in S /\ r.of = b.of
    BY DEF Marked, Outputs
  <2>3. \A data \in Sent : piece = Encoded(data) => r = [of |-> b.of, data |-> data]
    BY <2>1
  <2> HIDE DEF S, r
  <2>4. /\ Append(got, r) \in Seq(S) /\ Len(Append(got, r)) = Len(got) + 1
        /\ Append(got, r)[Len(got) + 1] = r /\ \A i \in 1..Len(got) : Append(got, r)[i] = got[i]
    BY <1>1, <2>2
  <2>5. more = Append(got, r)
    BY <2>1 DEF r
  <2> QED
    BY <1>1, <1>3, <2>2, <2>3, <2>4, <2>5 DEF Deliveries, S
<1> QED
  BY <1>2, <1>3 DEF Delivers

\* The piece before the delimiter of a frame that is not touched is that frame.
LEMMA DelimiterOf ==
    ASSUME NEW W \in Seq(Sent), NEW T, NEW rest \in Seq(Marked), rest # <<>>,
           NEW piece \in ZeroFree, NEW next \in ZeroFree, NEW got \in Deliveries,
           Takes(piece, Head(rest), next), Arriving(W, T, rest, piece, got),
           Head(rest).byte = 0, Head(rest).of \notin T
    PROVE  LET k == Head(rest).of
           IN  /\ k \in 1..Len(W) /\ piece = Encoded(W[k])
               /\ \A i \in 1..Len(Tail(rest)) : Tail(rest)[i].of > k
               /\ \A i \in 1..Len(got) : got[i].of \notin T => got[i].of < k
<1> DEFINE k == Head(rest).of
           e == Encoded(W[k])
<1>1. Head(rest) = rest[1] /\ 1 \in 1..Len(rest) /\ Len(rest) \in Nat
  BY HeadTailProperties
<1>2. k \in 1..Len(W) /\ k \in Nat /\ W[k] \in Sent
  <2>1. k \in 1..Len(W)
    BY <1>1 DEF Arriving
  <2> QED
    BY <2>1
<1>3. \A i \in 1..Len(got) : got[i].of \notin T => got[i].of < k
  BY <1>1 DEF Arriving, Genuine
<1>4. e \in ZeroFree /\ e # <<>> /\ Len(e) <= Capacity
  BY <1>2, SentEncoded
<1>5. OnItsWay(W, rest, piece, got, k)
  BY <1>2 DEF Arriving
<1>6. \A j \in 1..Len(rest) : 1 < j => k <= rest[j].of
  BY <1>1 DEF Arriving
<1>7. ~Done(W[k], got, k)
  <2> SUFFICES ASSUME NEW i \in 1..Len(got), got[i] = [of |-> k, data |-> W[k]] PROVE FALSE
    BY DEF Done
  <2>1. got[i].of = k
    OBVIOUS
  <2>2. k < k
    BY <1>3, <2>1
  <2> QED
    BY <1>2, <2>2
<1> HIDE DEF e
<1>8. ~Waits(e, rest, piece, k)
  <2> SUFFICES ASSUME NEW p \in 0..Len(rest), Holds(e, rest, p, k, 0),
                      p # 0 => rest[p] = [of |-> k - 1, byte |-> 0]
               PROVE  FALSE
    BY Zenon DEF Waits
  <2>1. e[0 + 1] \in 1..Full /\ Len(e) \in Nat /\ 0 < Len(e)
    BY <1>4, CodecAssumption DEF ZeroFree
  <2>2. CASE p = 0
    <3>1. Head(rest) = [of |-> k, byte |-> e[0 + 1]]
      BY <1>2, <1>4, <2>1, <2>2, HoldsOneLess
    <3>2. Head(rest).byte = e[0 + 1]
      <4> HIDE DEF k
      <4> QED
        BY <3>1
    <3> QED
      BY <2>1, <3>2
  <2>3. CASE p # 0
    <3>1. rest[p].of = k - 1 /\ p \in 1..Len(rest)
      BY <1>1, <2>3
    <3>2. k <= rest[p].of
      BY <1>1, <1>2, <1>6, <3>1
    <3> QED
      BY <1>2, <3>1, <3>2
  <2> QED
    BY <2>2, <2>3
<1>9. Partly(e, rest, piece, k)
  BY <1>5, <1>7, <1>8 DEF OnItsWay, e
<1> HIDE DEF k
<1>10. /\ piece = e
       /\ \A i \in 1..Len(Tail(rest)) : Tail(rest)[i].of > k
  BY <1>2, <1>4, <1>9, PartIsRead
<1> QED
  BY <1>2, <1>3, <1>10 DEF k, e

\* A byte is read.
LEMMA ByteArrives ==
    ASSUME NEW W \in Seq(Sent), NEW T, NEW rest \in Seq(Marked), rest # <<>>,
           NEW piece \in ZeroFree, NEW next \in ZeroFree, NEW got \in Deliveries, NEW more,
           Takes(piece, Head(rest), next), Delivers(piece, Head(rest), got, more),
           Arriving(W, T, rest, piece, got)
    PROVE  Arriving(W, T, Tail(rest), next, more)
<1> DEFINE t == Tail(rest)
           b == Head(rest)
           l == Len(rest)
           g == Len(got)
<1>1. /\ l \in Nat /\ l >= 1 /\ Len(t) = l - 1 /\ b = rest[1] /\ b \in Marked
      /\ \A i \in 1..(l - 1) : t[i] = rest[i + 1]
  BY HeadTailProperties
<1>2. /\ g \in Nat
      /\ \A i \in 1..g : more[i] = got[i]
      /\ \/ more = got
         \/ /\ b.byte = 0 /\ piece # <<>> /\ Len(more) = g + 1
            /\ more[g + 1].of = b.of
            /\ \A data \in Sent : piece = Encoded(data) => more[g + 1] = [of |-> b.of, data |-> data]
  BY <1>1, DeliveriesGrow
<1>3. (b.byte = 0 /\ b.of \notin T) =>
          /\ b.of \in 1..Len(W) /\ piece = Encoded(W[b.of])
          /\ \A i \in 1..Len(t) : t[i].of > b.of
          /\ \A i \in 1..g : got[i].of \notin T => got[i].of < b.of
  BY DelimiterOf
<1>4. \A i \in 1..(l - 1) : i + 1 \in 1..l
  BY <1>1
<1>5. /\ \A i \in 1..l : rest[i].of \in 1..Len(W)
      /\ \A i, j \in 1..l : i < j => rest[i].of <= rest[j].of
      /\ \A k \in (1..Len(W)) \ T : OnItsWay(W, rest, piece, got, k)
      /\ Genuine(W, T, rest, got) /\ InOrder(T, got)
  BY Zenon DEF Arriving
<1> HIDE DEF t, l, g
<1>6. \A i \in 1..Len(t) : t[i].of \in 1..Len(W)
  BY <1>1, <1>4, <1>5
<1>7. ASSUME NEW i \in 1..Len(t), NEW j \in 1..Len(t), i < j PROVE t[i].of <= t[j].of
  <2>1. i + 1 \in 1..l /\ j + 1 \in 1..l /\ i + 1 < j + 1 /\ i \in 1..(l - 1) /\ j \in 1..(l - 1)
    BY <1>1, <1>7
  <2> QED
    BY <1>1, <1>5, <2>1
<1>8. ASSUME NEW k \in (1..Len(W)) \ T PROVE OnItsWay(W, t, next, more, k)
  <2> DEFINE e == Encoded(W[k])
  <2>1. k \in Nat /\ W[k] \in Sent
    OBVIOUS
  <2>2. e \in ZeroFree /\ e # <<>> /\ Len(e) <= Capacity
    BY <2>1, SentEncoded
  <2>3. OnItsWay(W, rest, piece, got, k)
    BY <1>5
  <2> HIDE DEF e
  <2>4. CASE Waits(e, rest, piece, k)
    <3>1. Waits(e, t, next, k) \/ Partly(e, t, next, k)
      BY <2>1, <2>2, <2>4, WaitingIsRead DEF t
    <3> QED
      BY <3>1, Zenon DEF OnItsWay, e
  <2>5. CASE Partly(e, rest, piece, k)
    <3>1. \/ Partly(e, t, next, k)
          \/ b = [of |-> k, byte |-> 0] /\ piece = e
      BY <2>1, <2>2, <2>5, PartIsRead DEF t
    <3>2. CASE Partly(e, t, next, k)
      BY <3>2, Zenon DEF OnItsWay, e
    <3>3. CASE b = [of |-> k, byte |-> 0] /\ piece = e
      <4>1. b.byte = 0 /\ b.of = k /\ piece # <<>>
        BY <2>2, <3>3
      <4>2. more # got
        <5>1. PICK d \in Outputs : more = Append(got, [of |-> b.of, data |-> d])
          BY <4>1 DEF Delivers
        <5>2. Len(more) = Len(got) + 1
          <6> DEFINE r == [of |-> b.of, data |-> d]
                     S == [of : Nat, data : Seq(Bytes) \cup {Bad}]
          <6>1. r \in S /\ got \in Seq(S)
            BY <1>1 DEF Marked, Outputs, Deliveries
          <6> HIDE DEF r, S
          <6>2. Len(Append(got, r)) = Len(got) + 1
            BY <6>1
          <6> QED
            BY <5>1, <6>2 DEF r
        <5> QED
          BY <1>2, <5>2 DEF g
      <4>3. more[g + 1] = [of |-> k, data |-> W[k]] /\ Len(more) = g + 1
        BY <1>2, <2>1, <3>3, <4>1, <4>2 DEF e
      <4>4. g + 1 \in 1..Len(more)
        BY <1>2, <4>3
      <4>5. Done(W[k], more, k)
        BY <4>3, <4>4, Zenon DEF Done
      <4> QED
        BY <4>5, Zenon DEF OnItsWay
    <3> QED
      BY <3>1, <3>2, <3>3
  <2>6. CASE Done(W[k], got, k)
    <3>1. PICK i \in 1..g : got[i] = [of |-> k, data |-> W[k]]
      BY <2>6 DEF Done, g
    <3>2. i \in 1..Len(more) /\ more[i] = [of |-> k, data |-> W[k]]
      BY <1>2, <3>1 DEF g
    <3>3. Done(W[k], more, k)
      BY <3>2, Zenon DEF Done
    <3> QED
      BY <3>3, Zenon DEF OnItsWay
  <2> QED
    BY <2>3, <2>4, <2>5, <2>6 DEF OnItsWay, e
<1>9. ASSUME NEW i \in 1..Len(more)
      PROVE  i \in 1..g \/ (i = g + 1 /\ more # got)
  BY <1>2 DEF g
<1>10. Genuine(W, T, t, more)
  <2> SUFFICES ASSUME NEW i \in 1..Len(more), more[i].of \notin T
               PROVE  /\ more[i].of \in 1..Len(W) /\ more[i].data = W[more[i].of]
                      /\ \A j \in 1..Len(t) : more[i].of < t[j].of
    BY Zenon DEF Genuine
  <2>1. CASE i \in 1..g
    <3>1. more[i] = got[i]
      BY <1>2, <2>1
    <3>2. /\ got[i].of \in 1..Len(W) /\ got[i].data = W[got[i].of]
          /\ \A j \in 1..l : got[i].of < rest[j].of
      BY <1>5, <2>1, <3>1 DEF Genuine, g, l
    <3>3. \A j \in 1..Len(t) : got[i].of < t[j].of
      BY <1>1, <1>4, <3>2
    <3> QED
      BY <3>1, <3>2, <3>3
  <2>2. CASE i = g + 1 /\ more # got
    <3>1. b.byte = 0 /\ more[i].of = b.of
      BY <1>2, <2>2
    <3>2. /\ b.of \in 1..Len(W) /\ piece = Encoded(W[b.of])
          /\ \A j \in 1..Len(t) : t[j].of > b.of
      BY <1>3, <3>1
    <3>3. W[b.of] \in Sent
      BY <3>2
    <3>4. more[i] = [of |-> b.of, data |-> W[b.of]]
      BY <1>2, <2>2, <3>2, <3>3
    <3>5. \A j \in 1..Len(t) : t[j].of \in Nat
      BY <1>6
    <3> QED
      BY <3>2, <3>4, <3>5
  <2> QED
    BY <1>9, <2>1, <2>2
<1>11. InOrder(T, more)
  <2> SUFFICES ASSUME NEW i \in 1..Len(more), NEW j \in 1..Len(more),
                      i < j, more[i].of \notin T, more[j].of \notin T
               PROVE  more[i].of < more[j].of
    BY Zenon DEF InOrder
  <2>1. i \in 1..g
    BY <1>2, <1>9
  <2>2. CASE j \in 1..g
    <3>1. more[i] = got[i] /\ more[j] = got[j]
      BY <1>2, <2>1, <2>2
    <3> QED
      BY <1>5, <2>1, <2>2, <3>1 DEF InOrder, g
  <2>3. CASE j = g + 1 /\ more # got
    <3>1. b.byte = 0 /\ more[j].of = b.of /\ more[i] = got[i]
      BY <1>2, <2>1, <2>3
    <3> QED
      BY <1>3, <2>1, <3>1
  <2> QED
    BY <1>9, <2>2, <2>3
<1> QED
  BY <1>6, <1>7, <1>8, <1>10, <1>11, Zenon DEF Arriving, t

\* What noise makes of a line: a byte is gone, or is another.
Damaged(rest, i, t) ==
    \/ /\ Len(t) = Len(rest) - 1
       /\ \A m \in 1..(Len(rest) - 1) : t[m] = IF m < i THEN rest[m] ELSE rest[m + 1]
    \/ /\ Len(t) = Len(rest) /\ t[i].of = rest[i].of
       /\ \A m \in 1..Len(rest) : m # i => t[m] = rest[m]

Touches(b) == {b.of} \cup (IF b.byte = 0 THEN {b.of + 1} ELSE {})

\* Its bytes come from where they were or one place further.
LEMMA DamagedFrom ==
    ASSUME NEW rest, Len(rest) \in Nat, NEW i \in 1..Len(rest), NEW t, Damaged(rest, i, t)
    PROVE  /\ Len(t) \in Nat /\ Len(t) <= Len(rest) /\ Len(rest) - 1 <= Len(t)
           /\ \A m \in 1..Len(t) : \E n \in {m, m + 1} : n \in 1..Len(rest) /\ t[m].of = rest[n].of
           /\ \A m, n \in 1..Len(t) : m < n =>
                  \E x, y \in 1..Len(rest) : x < y /\ t[m].of = rest[x].of /\ t[n].of = rest[y].of
<1> DEFINE l == Len(rest)
           From(m) == IF Len(t) = l \/ m < i THEN m ELSE m + 1
<1>1. /\ l \in Nat /\ i \in 1..l
      /\ \/ Len(t) = l - 1 /\ \A m \in 1..(l - 1) : t[m] = IF m < i THEN rest[m] ELSE rest[m + 1]
         \/ Len(t) = l /\ t[i].of = rest[i].of /\ \A m \in 1..l : m # i => t[m] = rest[m]
  BY Zenon DEF Damaged
<1> HIDE DEF l
<1>2. Len(t) \in Nat /\ Len(t) <= l /\ l - 1 <= Len(t)
  BY <1>1
<1>3. ASSUME NEW m \in 1..Len(t)
      PROVE  From(m) \in {m, m + 1} /\ From(m) \in 1..l /\ t[m].of = rest[From(m)].of
  <2>1. CASE Len(t) = l
    <3>1. t[i].of = rest[i].of /\ \A n \in 1..l : n # i => t[n] = rest[n]
      BY <1>1, <2>1
    <3>2. m \in 1..l /\ From(m) = m
      BY <2>1
    <3> QED
      BY <3>1, <3>2
  <2>2. CASE Len(t) # l
    <3>1. Len(t) = l - 1 /\ \A n \in 1..(l - 1) : t[n] = IF n < i THEN rest[n] ELSE rest[n + 1]
      BY <1>1, <2>2
    <3>2. m \in 1..(l - 1) /\ From(m) = IF m < i THEN m ELSE m + 1
      BY <2>2, <3>1
    <3>3. t[m] = rest[From(m)]
      BY <3>1, <3>2
    <3> QED
      BY <1>1, <3>2, <3>3
  <2> QED
    BY <2>1, <2>2
<1>4. ASSUME NEW m \in 1..Len(t), NEW n \in 1..Len(t), m < n
      PROVE  From(m) < From(n)
  BY <1>1, <1>2, <1>4
<1> HIDE DEF From
<1>5. \A m \in 1..Len(t) : \E n \in {m, m + 1} : n \in 1..l /\ t[m].of = rest[n].of
  BY <1>3
<1>6. \A m, n \in 1..Len(t) : m < n =>
          \E x, y \in 1..l : x < y /\ t[m].of = rest[x].of /\ t[n].of = rest[y].of
  BY <1>3, <1>4
<1> QED
  BY <1>2, <1>5, <1>6 DEF l

\* Damage outside a frame leaves it whole, where it was or one place earlier.
LEMMA HoldsDespite ==
    ASSUME NEW e \in ZeroFree, NEW rest, Len(rest) \in Nat, NEW k \in Nat, NEW p \in Nat,
           NEW j \in 0..Len(e), Holds(e, rest, p, k, j),
           NEW i \in 1..Len(rest), rest[i].of # k, NEW t, Damaged(rest, i, t),
           \A m \in 1..Len(rest) : rest[m].of \in Nat
    PROVE  IF Len(t) # Len(rest) /\ i <= p THEN Holds(e, t, p - 1, k, j)
           ELSE Holds(e, t, p, k, j)
<1> DEFINE n == Len(e)
           l == Len(rest)
           end == p + (n + 1 - j)
<1>1. n \in Nat /\ j \in Nat /\ j <= n /\ l \in Nat
  BY DEF ZeroFree
<1>2. /\ end <= l
      /\ \A m \in 1..(n - j) : rest[p + m] = [of |-> k, byte |-> e[j + m]]
      /\ rest[end] = [of |-> k, byte |-> 0]
      /\ \A m \in 1..l : m > end => rest[m].of > k
  BY Zenon DEF Holds
<1>3. \/ Len(t) = l - 1 /\ \A m \in 1..(l - 1) : t[m] = IF m < i THEN rest[m] ELSE rest[m + 1]
      \/ Len(t) = l /\ t[i].of = rest[i].of /\ \A m \in 1..l : m # i => t[m] = rest[m]
  BY Zenon DEF Damaged
<1>4. Len(t) \in Nat /\ \A m \in 1..Len(t) : \E x \in {m, m + 1} : x \in 1..l /\ t[m].of = rest[x].of
  BY DamagedFrom
<1> HIDE DEF n, l
<1>5. end \in Nat /\ p < end
  BY <1>1
<1>6. i <= p \/ i > end
  <2> SUFFICES ASSUME i > p, i <= end PROVE FALSE
    BY <1>1, <1>5 DEF l
  <2>1. rest[i].of = k
    <3>1. CASE i = end
      BY <1>2, <3>1
    <3>2. CASE i # end
      <4>1. i - p \in 1..(n - j) /\ p + (i - p) = i
        BY <1>1, <3>2 DEF l
      <4>2. rest[p + (i - p)] = [of |-> k, byte |-> e[j + (i - p)]]
        BY <1>2, <4>1
      <4> QED
        BY <4>1, <4>2
    <3> QED
      BY <3>1, <3>2
  <2> QED
    BY <2>1
<1>7. CASE Len(t) # l /\ i <= p
  <2>1. Len(t) = l - 1 /\ \A m \in 1..(l - 1) : t[m] = IF m < i THEN rest[m] ELSE rest[m + 1]
    BY <1>3, <1>7
  <2>2. p # 0 /\ \A m \in p..(l - 1) : m \in 1..(l - 1) /\ ~(m < i)
    BY <1>1, <1>7 DEF l
  <2>3. \A m \in p..(l - 1) : t[m] = rest[m + 1]
    BY <2>1, <2>2
  <2>4. Holds(e, t, p - 1, k, j)
    BY <1>1, <2>1, <2>2, <2>3, HoldsLater DEF l
  <2> QED
    BY <1>7, <2>4 DEF l
<1>8. CASE ~(Len(t) # l /\ i <= p)
  <2> HIDE DEF end
  <2>1. end <= Len(t)
    BY <1>1, <1>2, <1>3, <1>5, <1>6, <1>8 DEF l
  <2>2. ASSUME NEW m \in (p + 1)..end PROVE t[m] = rest[m]
    <3>1. m \in 1..l /\ m # i
      BY <1>1, <1>2, <1>5, <1>6 DEF l
    <3>2. CASE Len(t) = l
      BY <1>1, <1>3, <3>1, <3>2
    <3>3. CASE Len(t) # l
      <4>1. m < i /\ m \in 1..(l - 1)
        BY <1>1, <1>2, <1>5, <1>6, <1>8, <3>3 DEF l
      <4> QED
        BY <1>3, <3>3, <4>1
    <3> QED
      BY <3>2, <3>3
  <2>3. ASSUME NEW m \in 1..Len(t), m > end PROVE t[m].of > k
    <3>1. PICK x \in {m, m + 1} : x \in 1..l /\ t[m].of = rest[x].of
      BY <1>4
    <3>2. x > end
      BY <1>4, <1>5, <2>3, <3>1
    <3> QED
      BY <1>2, <3>1, <3>2
  <2>4. Holds(e, t, p, k, j)
    BY <2>1, <2>2, <2>3, HoldsSame DEF end, n
  <2> QED
    BY <1>8, <2>4 DEF l
<1> QED
  BY <1>7, <1>8

\* Damage to a byte leaves the other frames as they are.
LEMMA NoiseBeside ==
    ASSUME NEW W \in Seq(Sent), NEW T, NEW rest \in Seq(Marked), NEW piece, NEW got,
           Arriving(W, T, rest, piece, got), NEW i \in 1..Len(rest), NEW t,
           Damaged(rest, i, t)
    PROVE  Arriving(W, T \cup Touches(rest[i]), t, piece, got)
<1> DEFINE U == T \cup Touches(rest[i])
           l == Len(rest)
<1>1. l \in Nat /\ \A m \in 1..l : rest[m] \in Marked /\ rest[m].of \in Nat
  <2>1. l \in Nat /\ \A m \in 1..l : rest[m] \in Marked
    OBVIOUS
  <2>2. \A b \in Marked : b.of \in Nat
    BY DEF Marked
  <2> QED
    BY <2>1, <2>2
<1>2. /\ \A m \in 1..l : rest[m].of \in 1..Len(W)
      /\ \A m, n \in 1..l : m < n => rest[m].of <= rest[n].of
      /\ \A k \in (1..Len(W)) \ T : OnItsWay(W, rest, piece, got, k)
      /\ Genuine(W, T, rest, got) /\ InOrder(T, got)
  BY Zenon DEF Arriving
<1>3. /\ Len(t) \in Nat /\ Len(t) <= l /\ l - 1 <= Len(t)
      /\ \A m \in 1..Len(t) : \E n \in 1..l : t[m].of = rest[n].of
      /\ \A m, n \in 1..Len(t) : m < n =>
             \E x, y \in 1..l : x < y /\ t[m].of = rest[x].of /\ t[n].of = rest[y].of
  BY <1>1, DamagedFrom
<1>4. \A m \in 1..Len(t) : t[m].of \in 1..Len(W)
  BY <1>2, <1>3
<1>5. \A m, n \in 1..Len(t) : m < n => t[m].of <= t[n].of
  BY <1>2, <1>3
<1>6. ASSUME NEW k \in (1..Len(W)) \ U PROVE OnItsWay(W, t, piece, got, k)
  <2> DEFINE e == Encoded(W[k])
  <2>1. k \in Nat /\ k \in (1..Len(W)) \ T /\ W[k] \in Sent
    OBVIOUS
  <2>2. e \in ZeroFree /\ Len(e) \in Nat
    BY <2>1, SentEncoded DEF ZeroFree
  <2>3. rest[i].of # k /\ (rest[i].byte = 0 => rest[i].of # k - 1)
    <3>1. k \notin Touches(rest[i])
      OBVIOUS
    <3>2. rest[i].of # k /\ (rest[i].byte = 0 => rest[i].of + 1 # k)
      BY <3>1 DEF Touches
    <3> QED
      BY <1>1, <2>1, <3>2
  <2>4. OnItsWay(W, rest, piece, got, k)
    BY <1>2, <2>1
  <2> HIDE DEF e, U
  <2>5. CASE Waits(e, rest, piece, k)
    <3>1. PICK p \in 0..l : /\ Holds(e, rest, p, k, 0)
                            /\ p = 0 => piece = <<>>
                            /\ p # 0 => rest[p] = [of |-> k - 1, byte |-> 0]
      BY <2>5, Zenon DEF Waits
    <3>2. p \in Nat /\ 0 \in 0..Len(e) /\ i # p
      <4>1. p \in Nat /\ 0 \in 0..Len(e)
        BY <1>1, <2>2
      <4>2. ASSUME i = p PROVE FALSE
        <5>1. rest[i] = [of |-> k - 1, byte |-> 0]
          BY <3>1, <4>2
        <5> QED
          BY <2>3, <5>1
      <4> QED
        BY <4>1, <4>2
    <3>3. IF Len(t) # l /\ i <= p THEN Holds(e, t, p - 1, k, 0) ELSE Holds(e, t, p, k, 0)
      <4>1. Holds(e, rest, p, k, 0)
        BY <3>1
      <4> QED
        BY <1>1, <2>1, <2>2, <2>3, <3>2, <4>1, HoldsDespite
    <3>4. CASE Len(t) # l /\ i <= p
      <4>1. Len(t) = l - 1 /\ \A m \in 1..(l - 1) : t[m] = IF m < i THEN rest[m] ELSE rest[m + 1]
        BY <3>4 DEF Damaged
      <4>2. p - 1 \in 1..(l - 1) /\ ~(p - 1 < i) /\ (p - 1) + 1 = p /\ p # 0
        BY <1>1, <3>2, <3>4
      <4>3. t[p - 1] = rest[(p - 1) + 1]
        BY <4>1, <4>2
      <4>4. t[p - 1] = [of |-> k - 1, byte |-> 0]
        BY <3>1, <4>2, <4>3
      <4>5. p - 1 \in 0..Len(t) /\ p - 1 # 0
        BY <4>1, <4>2
      <4>6. Holds(e, t, p - 1, k, 0)
        BY <3>3, <3>4
      <4>7. Waits(e, t, piece, k)
        BY <4>4, <4>5, <4>6, Zenon DEF Waits
      <4> QED
        BY <4>7, Zenon DEF OnItsWay, e
    <3>5. CASE ~(Len(t) # l /\ i <= p)
      <4>1. Holds(e, t, p, k, 0)
        BY <3>3, <3>5
      <4>2. p \in 0..Len(t)
        BY <1>1, <1>3, <3>2, <3>5
      <4>3. p # 0 => t[p] = rest[p]
        <5> SUFFICES ASSUME p # 0 PROVE t[p] = rest[p]
          OBVIOUS
        <5>1. p \in 1..l /\ (Len(t) # l => p < i /\ p \in 1..(l - 1))
          BY <1>1, <3>2, <3>5
        <5> QED
          BY <3>2, <5>1 DEF Damaged
      <4>4. p # 0 => t[p] = [of |-> k - 1, byte |-> 0]
        BY <3>1, <4>3
      <4>5. Waits(e, t, piece, k)
        BY <3>1, <4>1, <4>2, <4>4, Zenon DEF Waits
      <4> QED
        BY <4>5, Zenon DEF OnItsWay, e
    <3> QED
      BY <3>4, <3>5
  <2>6. CASE Partly(e, rest, piece, k)
    <3>1. PICK j \in 1..Len(e) : /\ Holds(e, rest, 0, k, j)
                                 /\ Len(piece) = j /\ \A m \in 1..j : piece[m] = e[m]
      BY <2>6, Zenon DEF Partly
    <3>2. j \in 0..Len(e) /\ 0 \in Nat /\ ~(i <= 0)
      BY <2>2
    <3>3. Holds(e, t, 0, k, j)
      <4>1. Holds(e, rest, 0, k, j)
        BY <3>1
      <4>2. IF Len(t) # l /\ i <= 0 THEN Holds(e, t, 0 - 1, k, j) ELSE Holds(e, t, 0, k, j)
        BY <1>1, <2>1, <2>2, <2>3, <3>2, <4>1, HoldsDespite
      <4> QED
        BY <3>2, <4>2
    <3>4. Partly(e, t, piece, k)
      BY <3>1, <3>3, Zenon DEF Partly
    <3> QED
      BY <3>4, Zenon DEF OnItsWay, e
  <2> QED
    BY <2>4, <2>5, <2>6 DEF OnItsWay, e
<1> HIDE DEF U
<1>7. T \subseteq U
  BY DEF U
<1>8. Genuine(W, U, t, got)
  <2> SUFFICES ASSUME NEW n \in 1..Len(got), got[n].of \notin U
               PROVE  /\ got[n].of \in 1..Len(W) /\ got[n].data = W[got[n].of]
                      /\ \A j \in 1..Len(t) : got[n].of < t[j].of
    BY Zenon DEF Genuine
  <2>1. /\ got[n].of \in 1..Len(W) /\ got[n].data = W[got[n].of]
        /\ \A j \in 1..l : got[n].of < rest[j].of
    BY <1>2, <1>7, Zenon DEF Genuine, l
  <2> QED
    BY <1>3, <2>1
<1>9. InOrder(U, got)
  BY <1>2, <1>7, Zenon DEF InOrder
<1> QED
  BY <1>4, <1>5, <1>6, <1>8, <1>9, Zenon DEF Arriving, U

\* The next frame to be written will not be joined with what is there.
Clear(W, T, rest, piece) ==
    Len(W) + 1 \notin T => /\ rest = <<>> => piece = <<>>
                           /\ rest # <<>> => rest[Len(rest)] = [of |-> Len(W), byte |-> 0]

\* A frame more is written behind the others.
LEMMA FrameIsWritten ==
    ASSUME NEW W \in Seq(Sent), NEW data \in Sent, NEW T, NEW rest \in Seq(Marked), NEW piece,
           Arriving(W, T, rest, piece, <<>>), Clear(W, T, rest, piece)
    PROVE  LET V == Append(W, data)
               t == rest \o OnLine(Len(W) + 1, data)
           IN  Arriving(V, T, t, piece, <<>>) /\ Clear(V, T, t, piece)
<1> DEFINE V == Append(W, data)
           o == OnLine(Len(W) + 1, data)
           t == rest \o o
           e == Encoded(data)
           l == Len(rest)
           w == Len(W)
           n == Len(e)
<1>1. /\ w \in Nat /\ l \in Nat /\ Len(V) = w + 1 /\ V[w + 1] = data
      /\ \A k \in 1..w : V[k] = W[k]
  <2> HIDE DEF V
  <2>1. /\ Len(Append(W, data)) = Len(W) + 1 /\ Append(W, data)[Len(W) + 1] = data
        /\ \A k \in 1..Len(W) : Append(W, data)[k] = W[k]
    BY AppendProperties
  <2>2. w \in Nat /\ l \in Nat
    OBVIOUS
  <2> QED
    BY <2>1, <2>2 DEF V
<1>2. e \in ZeroFree /\ n \in Nat
  BY SentEncoded DEF ZeroFree
<1>3. /\ o \in Seq(Marked) /\ Len(o) = n + 1 /\ o[n + 1] = [of |-> w + 1, byte |-> 0]
      /\ \A i \in 1..n : o[i] = [of |-> w + 1, byte |-> e[i]]
  <2>1. Len(W) + 1 \in Nat /\ data \in Seq(Bytes)
    BY <1>1 DEF Sent
  <2> QED
    BY <2>1, OnLineType
<1> HIDE DEF o, n, e, V, w
<1>4. /\ t \in Seq(Marked) /\ Len(t) = l + (n + 1)
      /\ \A m \in 1..(l + (n + 1)) : t[m] = IF m <= l THEN rest[m] ELSE o[m - l]
  <2>1. /\ rest \o o \in Seq(Marked) /\ Len(rest \o o) = Len(rest) + Len(o)
        /\ \A m \in 1..(Len(rest) + Len(o)) :
               (rest \o o)[m] = IF m <= Len(rest) THEN rest[m] ELSE o[m - Len(rest)]
    BY <1>3, ConcatProperties
  <2> QED
    BY <1>3, <2>1
<1> HIDE DEF t, l
<1>5. \A m \in 1..l : m \in 1..Len(t) /\ t[m] = rest[m]
  BY <1>1, <1>2, <1>4
<1>6. /\ \A i \in 1..n : t[l + i] = [of |-> w + 1, byte |-> e[i]]
      /\ t[l + (n + 1)] = [of |-> w + 1, byte |-> 0]
  <2>1. ASSUME NEW i \in 1..(n + 1) PROVE t[l + i] = o[i]
    <3>1. l + i \in 1..(l + (n + 1)) /\ ~(l + i <= l) /\ (l + i) - l = i
      BY <1>1, <1>2
    <3> QED
      BY <1>4, <3>1
  <2>2. n + 1 \in 1..(n + 1) /\ \A i \in 1..n : i \in 1..(n + 1)
    BY <1>2
  <2> QED
    BY <1>3, <2>1, <2>2
<1>7. ASSUME NEW m \in 1..Len(t) PROVE m \in 1..l \/ (m > l /\ t[m].of = w + 1)
  <2> SUFFICES ASSUME m > l PROVE t[m].of = w + 1
    BY <1>1
  <2>1. m - l \in 1..(n + 1) /\ l + (m - l) = m
    BY <1>1, <1>2, <1>4
  <2>2. CASE m - l = n + 1
    BY <1>6, <2>1, <2>2
  <2>3. CASE m - l # n + 1
    <3>1. m - l \in 1..n
      BY <1>2, <2>1, <2>3
    <3>2. t[l + (m - l)] = [of |-> w + 1, byte |-> e[m - l]]
      BY <1>6, <3>1
    <3> QED
      BY <2>1, <3>2
  <2> QED
    BY <2>2, <2>3
<1>8. /\ \A i \in 1..l : rest[i].of \in 1..w
      /\ \A i, j \in 1..l : i < j => rest[i].of <= rest[j].of
      /\ \A k \in (1..w) \ T : OnItsWay(W, rest, piece, <<>>, k)
  BY Zenon DEF Arriving, l, w
<1>9. \A m \in 1..Len(t) : t[m].of \in 1..Len(V)
  <2> SUFFICES ASSUME NEW m \in 1..Len(t) PROVE t[m].of \in 1..(w + 1)
    BY <1>1
  <2>1. CASE m \in 1..l
    <3>1. rest[m].of \in 1..w /\ t[m] = rest[m]
      BY <1>5, <1>8, <2>1
    <3> QED
      BY <1>1, <3>1
  <2>2. CASE m > l /\ t[m].of = w + 1
    BY <1>1, <2>2
  <2> QED
    BY <1>7, <2>1, <2>2
<1>10. ASSUME NEW i \in 1..Len(t), NEW j \in 1..Len(t), i < j PROVE t[i].of <= t[j].of
  <2>1. CASE i \in 1..l /\ j \in 1..l
    BY <1>5, <1>8, <1>10, <2>1
  <2>2. CASE i \in 1..l /\ t[j].of = w + 1
    <3>1. rest[i].of \in 1..w /\ t[i] = rest[i]
      BY <1>5, <1>8, <2>2
    <3> QED
      BY <1>1, <2>2, <3>1
  <2>3. CASE i > l /\ t[i].of = w + 1
    <3>1. j > l /\ j \notin 1..l
      BY <1>1, <1>4, <1>10, <2>3
    <3>2. t[j].of = w + 1
      BY <1>7, <3>1
    <3> QED
      BY <1>1, <2>3, <3>2
  <2> QED
    BY <1>7, <2>1, <2>2, <2>3
<1>11. ASSUME NEW k \in (1..w) \ T PROVE OnItsWay(V, t, piece, <<>>, k)
  <2> DEFINE c == Encoded(W[k])
  <2>1. k \in Nat /\ k <= w /\ W[k] \in Sent /\ V[k] = W[k]
    BY <1>1 DEF w
  <2>2. c \in ZeroFree /\ Len(c) \in Nat
    BY <2>1, SentEncoded DEF ZeroFree
  <2> HIDE DEF c
  <2>3. ASSUME NEW p \in Nat, NEW j \in 0..Len(c), Holds(c, rest, p, k, j)
        PROVE  Holds(c, t, p, k, j)
    <3> DEFINE end == p + (Len(c) + 1 - j)
    <3>1. end <= l /\ \A m \in 1..l : m > end => rest[m].of > k
      BY <2>3, Zenon DEF Holds, l
    <3>2. end \in Nat /\ \A m \in (p + 1)..end : m \in 1..l
      BY <1>1, <2>2, <3>1
    <3> HIDE DEF end
    <3>3. end <= Len(t)
      BY <1>1, <1>2, <1>4, <3>1, <3>2
    <3>4. \A m \in (p + 1)..end : t[m] = rest[m]
      BY <1>5, <3>2
    <3>5. ASSUME NEW m \in 1..Len(t), m > end PROVE t[m].of > k
      <4>1. CASE m \in 1..l
        BY <1>5, <3>1, <3>5, <4>1
      <4>2. CASE t[m].of = w + 1
        BY <1>1, <2>1, <4>2
      <4> QED
        BY <1>7, <4>1, <4>2
    <3> QED
      BY <2>2, <2>3, <3>3, <3>4, <3>5, HoldsSame DEF end
  <2>4. OnItsWay(W, rest, piece, <<>>, k)
    BY <1>8
  <2>5. CASE Waits(c, rest, piece, k)
    <3>1. PICK p \in 0..l : /\ Holds(c, rest, p, k, 0)
                            /\ p = 0 => piece = <<>>
                            /\ p # 0 => rest[p] = [of |-> k - 1, byte |-> 0]
      BY <2>5, Zenon DEF Waits, l
    <3>2. p \in Nat /\ 0 \in 0..Len(c) /\ p \in 0..Len(t) /\ (p # 0 => p \in 1..l)
      BY <1>1, <1>2, <1>4, <2>2
    <3>3. Holds(c, t, p, k, 0)
      BY <2>3, <3>1, <3>2
    <3>4. p # 0 => t[p] = [of |-> k - 1, byte |-> 0]
      BY <1>5, <3>1, <3>2
    <3>5. Waits(c, t, piece, k)
      BY <3>1, <3>2, <3>3, <3>4, Zenon DEF Waits
    <3> QED
      BY <2>1, <3>5, Zenon DEF OnItsWay, c
  <2>6. CASE Partly(c, rest, piece, k)
    <3>1. PICK j \in 1..Len(c) : /\ Holds(c, rest, 0, k, j)
                                 /\ Len(piece) = j /\ \A m \in 1..j : piece[m] = c[m]
      BY <2>6, Zenon DEF Partly
    <3>2. j \in 0..Len(c) /\ 0 \in Nat
      BY <2>2
    <3>3. Holds(c, t, 0, k, j)
      BY <2>3, <3>1, <3>2
    <3>4. Partly(c, t, piece, k)
      BY <3>1, <3>3, Zenon DEF Partly
    <3> QED
      BY <2>1, <3>4, Zenon DEF OnItsWay, c
  <2> QED
    BY <2>1, <2>4, <2>5, <2>6, Zenon DEF OnItsWay, c
<1>12. Len(V) + 1 \in Nat /\ t # <<>> /\ t[Len(t)] = [of |-> Len(V), byte |-> 0]
  <2>1. Len(t) # 0
    BY <1>1, <1>2, <1>4
  <2>2. t # <<>>
    <3>1. Len(<<>>) = 0
      OBVIOUS
    <3> QED
      BY <2>1, <3>1, Zenon
  <2> QED
    BY <1>1, <1>4, <1>6, <2>2
<1>13. ASSUME w + 1 \notin T PROVE OnItsWay(V, t, piece, <<>>, w + 1)
  <2>1. /\ rest = <<>> => piece = <<>>
        /\ rest # <<>> => rest[l] = [of |-> w, byte |-> 0]
    BY <1>13 DEF Clear, w, l
  <2>2. Holds(e, t, l, w + 1, 0)
    <3> DEFINE end == l + (n + 1 - 0)
    <3>1. end = l + (n + 1)
      BY <1>1, <1>2
    <3> HIDE DEF end
    <3>2. end <= Len(t) /\ t[end] = [of |-> w + 1, byte |-> 0]
      BY <1>1, <1>2, <1>4, <1>6, <3>1
    <3>3. \A i \in 1..(n - 0) : t[l + i] = [of |-> w + 1, byte |-> e[0 + i]]
      <4>1. n - 0 = n /\ \A i \in 1..n : 0 + i = i
        BY <1>2
      <4> QED
        BY <1>6, <4>1
    <3>4. \A i \in 1..Len(t) : i > end => t[i].of > w + 1
      BY <1>1, <1>2, <1>4, <3>1
    <3> QED
      BY <3>2, <3>3, <3>4, Zenon DEF Holds, end, n
  <2>3. l \in 0..Len(t)
    BY <1>1, <1>2, <1>4
  <2>4. l = 0 => piece = <<>>
    <3>1. l = 0 => rest = <<>>
      BY DEF l
    <3> QED
      BY <2>1, <3>1
  <2>5. l # 0 => t[l] = [of |-> (w + 1) - 1, byte |-> 0]
    <3> SUFFICES ASSUME l # 0 PROVE t[l] = [of |-> (w + 1) - 1, byte |-> 0]
      OBVIOUS
    <3>1. l \in 1..l /\ (w + 1) - 1 = w
      BY <1>1
    <3>2. rest # <<>>
      BY DEF l
    <3> QED
      BY <1>5, <2>1, <3>1, <3>2
  <2>6. Waits(e, t, piece, w + 1)
    BY <2>2, <2>3, <2>4, <2>5, Zenon DEF Waits
  <2> QED
    BY <1>1, <2>6, Zenon DEF OnItsWay, e
<1>14. \A k \in (1..Len(V)) \ T : OnItsWay(V, t, piece, <<>>, k)
  <2> SUFFICES ASSUME NEW k \in (1..Len(V)) \ T PROVE OnItsWay(V, t, piece, <<>>, k)
    OBVIOUS
  <2>1. k = w + 1 \/ k \in (1..w) \ T
    BY <1>1
  <2> QED
    BY <1>11, <1>13, <2>1
<1>15. Genuine(V, T, t, <<>>) /\ InOrder(T, <<>>)
  BY DEF Genuine, InOrder
<1>16. Arriving(V, T, t, piece, <<>>)
  BY <1>9, <1>10, <1>14, <1>15, Zenon DEF Arriving
<1>17. Clear(V, T, t, piece)
  BY <1>12, Zenon DEF Clear
<1> QED
  BY <1>16, <1>17 DEF V, t, o

\* Once nothing is left, every frame that is not touched is delivered.
LEMMA NothingLeft ==
    ASSUME NEW W, Len(W) \in Nat, W \in Seq(Sent), NEW T, NEW piece, NEW got,
           Arriving(W, T, <<>>, piece, got)
    PROVE  /\ \A k \in (1..Len(W)) \ T : Done(W[k], got, k)
           /\ \A q : Arriving(W, T, <<>>, q, got)
<1>1. ASSUME NEW k \in (1..Len(W)) \ T PROVE Done(W[k], got, k)
  <2> DEFINE e == Encoded(W[k])
  <2>1. e \in ZeroFree /\ Len(e) \in Nat
    BY SentEncoded DEF ZeroFree
  <2>2. OnItsWay(W, <<>>, piece, got, k)
    BY DEF Arriving
  <2> HIDE DEF e
  <2>3. ASSUME NEW p \in Nat, NEW j \in 0..Len(e), Holds(e, <<>>, p, k, j) PROVE FALSE
    <3>1. p + (Len(e) + 1 - j) <= Len(<<>>)
      BY <2>3, Zenon DEF Holds
    <3>2. Len(<<>>) = 0
      OBVIOUS
    <3> QED
      BY <2>1, <3>1, <3>2
  <2>4. ~Waits(e, <<>>, piece, k)
    <3> SUFFICES ASSUME NEW p \in 0..Len(<<>>), Holds(e, <<>>, p, k, 0) PROVE FALSE
      BY Zenon DEF Waits
    <3>1. p \in Nat /\ 0 \in 0..Len(e)
      BY <2>1
    <3> QED
      BY <2>3, <3>1
  <2>5. ~Partly(e, <<>>, piece, k)
    <3> SUFFICES ASSUME NEW j \in 1..Len(e), Holds(e, <<>>, 0, k, j) PROVE FALSE
      BY Zenon DEF Partly
    <3>1. 0 \in Nat /\ j \in 0..Len(e)
      BY <2>1
    <3> QED
      BY <2>3, <3>1
  <2> QED
    BY <2>2, <2>4, <2>5 DEF OnItsWay, e
<1>2. ASSUME NEW q PROVE Arriving(W, T, <<>>, q, got)
  <2>1. \A k \in (1..Len(W)) \ T : OnItsWay(W, <<>>, q, got, k)
    BY <1>1, Zenon DEF OnItsWay
  <2> QED
    BY <2>1, Zenon DEF Arriving
<1> QED
  BY <1>1, <1>2

SplitStates == [piece : ZeroFree, frames : Deliveries]

\* What the two sides decode is data or an error.
LEMMA DecodedType ==
    ASSUME NEW e \in ZeroFree
    PROVE  DeviceDecode(e) \in Outputs /\ Frame(HostDecode(e)) \in Outputs
<1> DEFINE d == DeviceBlocks(e)
<1>1. e \in Seq(Bytes) /\ Len(e) \in Nat
  BY CodecAssumption DEF ZeroFree, Bytes
<1>2. d[Len(e)] \in DeviceStates
  <2>1. d \in [0..Len(e) -> DeviceStates]
    BY <1>1, DeviceRounds
  <2>2. Len(e) \in 0..Len(e)
    BY <1>1
  <2> HIDE DEF d
  <2> QED
    BY <2>1, <2>2
<1>3. d[Len(e)].out \in Outputs
  <2> HIDE DEF d
  <2> QED
    BY <1>2 DEF DeviceStates, Outputs
<1>4. DeviceDecode(e) = IF d[Len(e)].out = <<>> THEN Bad ELSE d[Len(e)].out
  BY DEF DeviceDecode
<1> HIDE DEF d
<1>5. DeviceDecode(e) \in Outputs /\ DeviceDecode(e) # <<>>
  <2>1. Bad \in Outputs /\ Bad # <<>>
    BY DEF Outputs, Bad
  <2> QED
    BY <1>3, <1>4, <2>1
<1>6. Frame(DeviceDecode(e)) = DeviceDecode(e)
  BY <1>5 DEF Frame
<1> QED
  BY <1>5, <1>6, SidesDecodeAlike

\* split(b"\x00") takes each byte as the device does, but gives up no piece.
LEMMA CutStep ==
    ASSUME NEW s \in SplitStates, NEW b \in Marked
    PROVE  /\ Cut(s, b) \in SplitStates
           /\ Takes(s.piece, b, Cut(s, b).piece)
           /\ Delivers(s.piece, b, s.frames, Cut(s, b).frames)
<1> DEFINE p == s.piece
           f == s.frames
           S == 1..Full
           c == Cut(s, b)
<1>1. p \in ZeroFree /\ f \in Deliveries /\ b.of \in Nat /\ b.byte \in Bytes
  BY DEF SplitStates, Marked
<1>2. s = [piece |-> p, frames |-> f]
  BY DEF SplitStates
<1>3. CASE b.byte # 0
  <2>1. c = [piece |-> Append(p, b.byte), frames |-> f]
    BY <1>2, <1>3 DEF Cut
  <2>2. Append(p, b.byte) \in ZeroFree
    <3>1. b.byte \in S /\ p \in Seq(S)
      BY <1>1, <1>3, CodecAssumption DEF ZeroFree, Bytes
    <3> HIDE DEF S, p
    <3>2. Append(p, b.byte) \in Seq(S)
      BY <3>1
    <3> QED
      BY <3>2 DEF ZeroFree, S
  <2> HIDE DEF c, p, f
  <2>3. c \in SplitStates
    BY <1>1, <2>1, <2>2 DEF SplitStates
  <2>4. c.piece = Append(p, b.byte) /\ c.frames = f
    BY <2>1
  <2>5. Takes(p, b, c.piece) /\ Delivers(p, b, f, c.frames)
    BY <1>3, <2>4 DEF Takes, Delivers
  <2> QED
    BY <2>3, <2>5 DEF c, p, f
<1>4. CASE b.byte = 0
  <2> DEFINE d == Frame(HostDecode(p))
             r == [of |-> b.of, data |-> d]
             more == IF p = <<>> THEN f ELSE Append(f, r)
  <2>1. c = [piece |-> <<>>, frames |-> more]
    BY <1>4 DEF Cut
  <2>2. d \in Outputs
    BY <1>1, DecodedType
  <2>3. \A data \in Sent : p = Encoded(data) => d = data
    BY SentEncoded
  <2> HIDE DEF d
  <2>4. more \in Deliveries
    <3> DEFINE R == [of : Nat, data : Seq(Bytes) \cup {Bad}]
    <3>1. r \in R /\ f \in Seq(R)
      BY <1>1, <2>2 DEF Outputs, Deliveries
    <3> HIDE DEF R, r, f, p
    <3>2. more \in Seq(R)
      BY <3>1
    <3> QED
      BY <3>2 DEF Deliveries, R
  <2>5. Delivers(p, b, f, more)
    <3>1. CASE p = <<>>
      BY <3>1 DEF Delivers
    <3>2. CASE p # <<>>
      <4>1. more = Append(f, [of |-> b.of, data |-> d])
        BY <3>2
      <4> HIDE DEF p, f, more
      <4> QED
        BY <1>4, <2>2, <2>3, <3>2, <4>1, Zenon DEF Delivers
    <3> QED
      BY <3>1, <3>2
  <2> HIDE DEF c, more, p, f
  <2>6. <<>> \in ZeroFree
    BY DEF ZeroFree
  <2>7. c \in SplitStates /\ c.piece = <<>> /\ c.frames = more
    BY <2>1, <2>4, <2>6 DEF SplitStates
  <2>8. Takes(p, b, c.piece)
    BY <1>4, <2>7 DEF Takes
  <2> QED
    BY <2>5, <2>7, <2>8 DEF c, p, f
<1> QED
  BY <1>3, <1>4

\* The states of the reader, byte by byte.
LEMMA SplitRounds ==
    ASSUME NEW bytes \in Seq(Marked)
    PROVE  LET f == Split(bytes)
           IN  /\ f[0] = [piece |-> <<>>, frames |-> <<>>]
               /\ \A n \in 0..(Len(bytes) - 1) : f[n + 1] = Cut(f[n], bytes[n + 1])
               /\ \A n \in 0..Len(bytes) : f[n] \in SplitStates
<1> DEFINE start == [piece |-> <<>>, frames |-> <<>>]
           Defines(f) == f = [n \in 0..Len(bytes) |-> IF n = 0 THEN start ELSE Cut(f[n - 1], bytes[n])]
           step == [p \in (1..Len(bytes)) \X SplitStates |-> Cut(p[2], bytes[p[1]])]
           g == Split(bytes)
<1>1. Len(bytes) \in Nat /\ \A i \in 1..Len(bytes) : bytes[i] \in Marked
  OBVIOUS
<1>2. start \in SplitStates
  <2>1. <<>> \in ZeroFree /\ <<>> \in Deliveries
    BY DEF ZeroFree, Deliveries
  <2> QED
    BY <2>1 DEF SplitStates
<1>3. step \in [(1..Len(bytes)) \X SplitStates -> SplitStates]
  BY <1>1, CutStep
<1>4. PICK f \in [0..Len(bytes) -> SplitStates] :
          f[0] = start /\ \A i \in 0..(Len(bytes) - 1) : f[i + 1] = step[<<i + 1, f[i]>>]
  <2> HIDE DEF start, step
  <2>1. \E f : IsLoop(f, SplitStates, start, Len(bytes), step)
    BY <1>1, <1>2, <1>3, LoopHasStates
  <2> QED
    BY <2>1 DEF IsLoop
<1>5. \A i \in 0..(Len(bytes) - 1) : f[i + 1] = Cut(f[i], bytes[i + 1])
  <2> SUFFICES ASSUME NEW i \in 0..(Len(bytes) - 1) PROVE f[i + 1] = Cut(f[i], bytes[i + 1])
    OBVIOUS
  <2>1. i + 1 \in 1..Len(bytes) /\ i \in 0..Len(bytes)
    BY <1>1
  <2>2. <<i + 1, f[i]>> \in (1..Len(bytes)) \X SplitStates
    BY <2>1
  <2> QED
    BY <1>4, <2>2
<1>6. \A n \in 0..Len(bytes) : n = 0 \/ (n - 1 \in 0..(Len(bytes) - 1) /\ n - 1 + 1 = n)
  BY <1>1
<1>7. Defines(f)
  <2> HIDE DEF start
  <2>1. \A n \in 0..Len(bytes) : f[n] = IF n = 0 THEN start ELSE Cut(f[n - 1], bytes[n])
    BY <1>4, <1>5, <1>6
  <2> QED
    BY <2>1
<1>8. Split(bytes) = CHOOSE h : Defines(h)
  BY DEF Split
<1>9. Defines(Split(bytes))
  <2> HIDE DEF Defines
  <2> QED
    BY <1>7, <1>8
<1>10. g[0] = start /\ \A n \in 0..(Len(bytes) - 1) : g[n + 1] = Cut(g[n], bytes[n + 1])
  <2> HIDE DEF start, g
  <2>1. g = [n \in 0..Len(bytes) |-> IF n = 0 THEN start ELSE Cut(g[n - 1], bytes[n])]
    BY <1>9 DEF g
  <2>2. \A n \in 0..(Len(bytes) - 1) : n + 1 \in 0..Len(bytes) /\ n + 1 # 0 /\ n + 1 - 1 = n
    BY <1>1
  <2>3. 0 \in 0..Len(bytes)
    BY <1>1
  <2> QED
    BY <2>1, <2>2, <2>3
<1>11. \A n \in 0..Len(bytes) : g[n] \in SplitStates
  <2> DEFINE P == {n \in 0..Len(bytes) : g[n] \in SplitStates}
  <2> HIDE DEF g, start
  <2>1. 0 \in P
    BY <1>1, <1>2, <1>10
  <2>2. \A n \in 0..(Len(bytes) - 1) : n \in P => n + 1 \in P
    <3> SUFFICES ASSUME NEW n \in 0..(Len(bytes) - 1), g[n] \in SplitStates
                 PROVE  g[n + 1] \in SplitStates /\ n + 1 \in 0..Len(bytes)
      OBVIOUS
    <3>1. n + 1 \in 1..Len(bytes) /\ n + 1 \in 0..Len(bytes)
      BY <1>1
    <3>2. bytes[n + 1] \in Marked
      BY <1>1, <3>1
    <3> QED
      BY <1>10, <3>1, <3>2, CutStep
  <2>3. \A n \in 0..Len(bytes) : n \in P
    <3> HIDE DEF P
    <3> QED
      BY <1>1, <2>1, <2>2, LoopInvariant
  <2> QED
    BY <2>3
<1> QED
  BY <1>10, <1>11

\* What is left of a sequence after n of its members.
LEMMA RestOf ==
    ASSUME NEW s \in Seq(Marked), NEW n \in Nat, n < Len(s)
    PROVE  LET r == SubSeq(s, n + 1, Len(s))
           IN  /\ r \in Seq(Marked) /\ r # <<>> /\ Head(r) = s[n + 1]
               /\ Tail(r) = SubSeq(s, (n + 1) + 1, Len(s))
<1> DEFINE l == Len(s)
           r == SubSeq(s, n + 1, l)
           t == SubSeq(s, (n + 1) + 1, l)
<1>1. l \in Nat /\ n + 1 \in 1..l
  OBVIOUS
<1>2. r \in Seq(Marked) /\ Len(r) = l - n /\ \A i \in 1..(l - n) : r[i] = s[n + i]
  <2>1. /\ r \in Seq(Marked) /\ Len(r) = l - (n + 1) + 1
        /\ \A i \in 1..(l - (n + 1) + 1) : r[i] = s[(n + 1) + i - 1]
    BY <1>1
  <2>2. /\ l - (n + 1) + 1 = l - n
        /\ \A i \in 1..(l - n) : (n + 1) + i - 1 = n + i
    BY <1>1
  <2> HIDE DEF r, l
  <2> QED
    BY <2>1, <2>2
<1>3. t \in Seq(Marked) /\ Len(t) = l - (n + 1) /\ \A i \in 1..(l - (n + 1)) : t[i] = s[(n + 1) + i]
  <2>1. /\ t \in Seq(Marked)
        /\ Len(t) = IF (n + 1) + 1 <= l THEN l - ((n + 1) + 1) + 1 ELSE 0
        /\ \A i \in 1..Len(t) : t[i] = s[((n + 1) + 1) + i - 1]
    BY <1>1
  <2>2. Len(t) = l - (n + 1)
    BY <1>1, <2>1
  <2>3. \A i \in 1..(l - (n + 1)) : ((n + 1) + 1) + i - 1 = (n + 1) + i
    BY <1>1
  <2> HIDE DEF t, l
  <2> QED
    BY <2>1, <2>2, <2>3
<1> HIDE DEF r, t
<1>4. r # <<>>
  <2>1. Len(r) # 0
    BY <1>1, <1>2
  <2>2. Len(<<>>) = 0
    OBVIOUS
  <2> QED
    BY <2>1, <2>2, Zenon
<1>5. /\ Head(r) = r[1] /\ Tail(r) \in Seq(Marked) /\ Len(Tail(r)) = Len(r) - 1
      /\ \A i \in 1..(Len(r) - 1) : Tail(r)[i] = r[i + 1]
  BY <1>2, <1>4, HeadTailProperties
<1>6. Head(r) = s[n + 1]
  <2>1. 1 \in 1..(l - n)
    BY <1>1
  <2> QED
    BY <1>2, <1>5, <2>1
<1>7. Tail(r) = t
  <2>1. Len(Tail(r)) = Len(t)
    BY <1>1, <1>2, <1>3, <1>5
  <2>2. ASSUME NEW i \in 1..Len(t) PROVE Tail(r)[i] = t[i]
    <3>1. i \in 1..(l - (n + 1)) /\ i \in 1..(Len(r) - 1) /\ i + 1 \in 1..(l - n)
          /\ n + (i + 1) = (n + 1) + i
      BY <1>1, <1>2, <1>3
    <3>2. Tail(r)[i] = s[n + (i + 1)]
      BY <1>2, <1>5, <3>1
    <3> QED
      BY <1>3, <3>1, <3>2
  <2> QED
    BY <1>3, <1>5, <2>1, <2>2, SeqEqual
<1> QED
  BY <1>2, <1>4, <1>6, <1>7 DEF r, t, l

\* decode_stream reads the whole line.
LEMMA AllArrives ==
    ASSUME NEW W \in Seq(Sent), NEW T, NEW bytes \in Seq(Marked), Arriving(W, T, bytes, <<>>, <<>>)
    PROVE  LET s == Split(bytes)[Len(bytes)]
           IN  s \in SplitStates /\ Arriving(W, T, <<>>, <<>>, s.frames)
<1> DEFINE f == Split(bytes)
           l == Len(bytes)
           Left(n) == SubSeq(bytes, n + 1, l)
           Good(n) == Arriving(W, T, Left(n), f[n].piece, f[n].frames)
           P == {n \in 0..l : Good(n)}
<1>1. /\ f[0] = [piece |-> <<>>, frames |-> <<>>]
      /\ \A n \in 0..(l - 1) : f[n + 1] = Cut(f[n], bytes[n + 1])
      /\ \A n \in 0..l : f[n] \in SplitStates
  BY SplitRounds
<1>2. l \in Nat
  OBVIOUS
<1>3. Left(0) = bytes
  <2>1. SubSeq(bytes, 1, Len(bytes)) = bytes
    OBVIOUS
  <2>2. 0 + 1 = 1
    OBVIOUS
  <2> QED
    BY <2>1, <2>2
<1>4. Left(l) = <<>>
  <2>1. Left(l) \in Seq(Marked) /\ Len(Left(l)) = 0
    BY <1>2
  <2> QED
    BY <2>1
<1>5. ASSUME NEW n \in 0..(l - 1)
      PROVE  /\ Left(n) \in Seq(Marked) /\ Left(n) # <<>>
             /\ Head(Left(n)) = bytes[n + 1] /\ Tail(Left(n)) = Left(n + 1)
  <2>1. n \in Nat /\ n < Len(bytes)
    BY <1>2
  <2> QED
    BY <2>1, RestOf
<1> HIDE DEF f, Left
<1>6. 0 \in P
  <2>1. f[0].piece = <<>> /\ f[0].frames = <<>>
    BY <1>1
  <2>2. Good(0)
    BY <1>3, <2>1
  <2> QED
    BY <1>2, <2>2
<1>7. ASSUME NEW n \in 0..(l - 1), n \in P PROVE n + 1 \in P
  <2> DEFINE r == Left(n)
             s == f[n]
             b == bytes[n + 1]
  <2>1. n \in 0..l /\ n + 1 \in 0..l /\ n + 1 \in 1..l
    BY <1>2
  <2>2. s \in SplitStates /\ f[n + 1] = Cut(s, b) /\ b \in Marked
    BY <1>1, <2>1
  <2>3. /\ r \in Seq(Marked) /\ r # <<>> /\ Head(r) = b /\ Tail(r) = Left(n + 1)
    BY <1>5
  <2>4. Arriving(W, T, r, s.piece, s.frames)
    BY <1>7
  <2> HIDE DEF r, s, b
  <2>5. /\ s.piece \in ZeroFree /\ s.frames \in Deliveries /\ Cut(s, b).piece \in ZeroFree
        /\ Takes(s.piece, b, Cut(s, b).piece)
        /\ Delivers(s.piece, b, s.frames, Cut(s, b).frames)
    BY <2>2, CutStep DEF SplitStates
  <2>6. Arriving(W, T, Tail(r), Cut(s, b).piece, Cut(s, b).frames)
    BY <2>3, <2>4, <2>5, ByteArrives
  <2>7. Good(n + 1)
    BY <2>2, <2>3, <2>6
  <2> QED
    BY <2>1, <2>7
<1>8. \A n \in 0..l : n \in P
  <2> HIDE DEF P
  <2> QED
    BY <1>2, <1>6, <1>7, LoopInvariant
<1>9. l \in 0..l
  BY <1>2
<1>10. Arriving(W, T, <<>>, f[l].piece, f[l].frames)
  BY <1>4, <1>8, <1>9
<1>11. Arriving(W, T, <<>>, <<>>, f[l].frames)
  <2>1. Len(W) \in Nat
    OBVIOUS
  <2> QED
    BY <1>10, <2>1, NothingLeft
<1>12. f[l] \in SplitStates
  BY <1>1, <1>9
<1> QED
  BY <1>11, <1>12 DEF f

\* decode_stream gave up: something was damaged.
Refused == /\ way = "answer" /\ touched # {} /\ line = <<>>
           /\ delivered = << [of |-> 0, data |-> Bad] >>

Arrival ==
    /\ LineType
    /\ delivered \in Deliveries
    /\ way = "answer" => buffer = <<>>
    /\ (way = "answer" /\ line # <<>>) => delivered = <<>>
    /\ \/ Refused
       \/ /\ Arriving(written, touched, line, buffer, delivered)
          /\ Clear(written, touched, line, buffer)

\* At first nothing was written.
LEMMA ArrivalInit == CodecInit => Arrival
<1> SUFFICES ASSUME CodecInit PROVE Arrival
  OBVIOUS
<1>1. /\ line = <<>> /\ buffer = <<>> /\ written = <<>> /\ delivered = <<>> /\ tlvs = <<>>
  BY DEF CodecInit
<1>2. Len(<<>>) = 0
  OBVIOUS
<1>3. LineType /\ delivered \in Deliveries
  BY <1>1 DEF LineType, Deliveries, ZeroFree
<1>4. Arriving(<<>>, touched, <<>>, <<>>, <<>>)
  BY <1>2 DEF Arriving, Genuine, InOrder
<1>5. Clear(<<>>, touched, <<>>, <<>>)
  BY Zenon DEF Clear
<1> QED
  BY <1>1, <1>3, <1>4, <1>5, Zenon DEF Arrival

\* Every step keeps what Arrival says of the frames.
LEMMA ArrivalInductive ==
    ASSUME Arrival, [CodecNext]_codecVars
    PROVE  Arrival'
<1>1. LineType /\ LineType'
  BY LineTypeInductive DEF Arrival
<1>2. /\ line \in Seq(Marked) /\ buffer \in ZeroFree /\ written \in Seq(Sent)
      /\ delivered \in Deliveries
      /\ way = "answer" => buffer = <<>>
      /\ (way = "answer" /\ line # <<>>) => delivered = <<>>
  BY <1>1 DEF LineType, Arrival
<1>3. (line # <<>> \/ delivered = <<>> \/ way = "request") =>
          /\ Arriving(written, touched, line, buffer, delivered)
          /\ Clear(written, touched, line, buffer)
  BY SMTT(30) DEF Arrival, Refused
<1>4. ASSUME NEW n \in 1..MaxLength, NEW data \in [1..n -> Values], WriteFrame(data)
      PROVE  Arrival'
  <2>1. data \in Sent
    BY SentIsData
  <2>2. /\ delivered = <<>> /\ delivered' = delivered /\ buffer' = buffer
        /\ touched' = touched /\ way' = way
        /\ written' = Append(written, data)
        /\ line' = line \o OnLine(Len(written) + 1, data)
    BY <1>4 DEF WriteFrame, OnLine
  <2>3. Arriving(written, touched, line, buffer, <<>>) /\ Clear(written, touched, line, buffer)
    BY <1>3, <2>2
  <2>4. /\ Arriving(written', touched', line', buffer', <<>>)
        /\ Clear(written', touched', line', buffer')
    BY <1>2, <2>1, <2>2, <2>3, FrameIsWritten
  <2> QED
    BY <1>1, <1>2, <2>2, <2>4 DEF Arrival
<1>5. ASSUME NEW i \in DOMAIN line, NEW t, Noise(i, t), t \in Seq(Marked), Damaged(line, i, t)
      PROVE  Arrival'
  <2>1. i \in 1..Len(line) /\ line # <<>> /\ Len(line) \in Nat
    BY <1>2
  <2>2. /\ line' = t /\ touched' = touched \cup Touches(line[i])
        /\ way' = way /\ buffer' = buffer /\ written' = written /\ delivered' = delivered
    BY <1>5 DEF Noise, Touches
  <2>3. /\ Arriving(written, touched, line, buffer, delivered)
        /\ Clear(written, touched, line, buffer)
    BY <1>3, <2>1
  <2>4. Arriving(written, touched \cup Touches(line[i]), t, buffer, delivered)
    BY <1>2, <1>5, <2>1, <2>3, NoiseBeside
  <2>5. Clear(written, touched \cup Touches(line[i]), t, buffer)
    <3> DEFINE l == Len(line)
               w == Len(written)
    <3> SUFFICES ASSUME w + 1 \notin touched \cup Touches(line[i])
                 PROVE  /\ t = <<>> => buffer = <<>>
                        /\ t # <<>> => t[Len(t)] = [of |-> w, byte |-> 0]
      BY Zenon DEF Clear
    <3>1. line[l] = [of |-> w, byte |-> 0]
      BY <2>1, <2>3 DEF Clear
    <3>2. i # l
      <4> SUFFICES ASSUME i = l PROVE FALSE
        OBVIOUS
      <4>1. line[i].of = w /\ line[i].byte = 0
        BY <3>1
      <4> QED
        BY <4>1 DEF Touches
    <3> HIDE DEF l, w
    <3>3. Len(t) # 0 /\ t[Len(t)] = line[l]
      <4>1. l \in Nat /\ i \in 1..l /\ i < l
        BY <2>1, <3>2 DEF l
      <4>2. CASE /\ Len(t) = l - 1
                 /\ \A m \in 1..(l - 1) : t[m] = IF m < i THEN line[m] ELSE line[m + 1]
        <5>1. l - 1 \in 1..(l - 1) /\ ~(l - 1 < i) /\ (l - 1) + 1 = l
          BY <4>1
        <5>2. t[l - 1] = line[(l - 1) + 1]
          BY <4>2, <5>1
        <5> QED
          BY <4>2, <5>1, <5>2
      <4>3. CASE Len(t) = l /\ \A m \in 1..l : m # i => t[m] = line[m]
        <5>1. l \in 1..l /\ l # i /\ l # 0
          BY <4>1
        <5> QED
          BY <4>3, <5>1
      <4> QED
        BY <1>5, <4>2, <4>3 DEF Damaged, l
    <3>4. t # <<>>
      <4>1. Len(<<>>) = 0
        OBVIOUS
      <4> QED
        BY <3>3, <4>1, Zenon
    <3> QED
      BY <3>1, <3>3, <3>4
  <2>6. /\ Arriving(written', touched', line', buffer', delivered')
        /\ Clear(written', touched', line', buffer')
    BY <2>2, <2>4, <2>5
  <2> QED
    BY <1>1, <1>2, <2>1, <2>2, <2>6 DEF Arrival
<1>6. ASSUME NEW i \in DOMAIN line
      PROVE  /\ RemoveAt(line, i) \in Seq(Marked) /\ Damaged(line, i, RemoveAt(line, i))
             /\ \A v \in Values : /\ [line EXCEPT ![i].byte = v] \in Seq(Marked)
                                  /\ Damaged(line, i, [line EXCEPT ![i].byte = v])
  <2>1. i \in 1..Len(line) /\ Values \subseteq Bytes
    BY <1>2, CodecAssumption DEF Bytes
  <2>2. RemoveAt(line, i) \in Seq(Marked) /\ Damaged(line, i, RemoveAt(line, i))
    BY <1>2, <2>1, LostOrChanged DEF Damaged
  <2>3. ASSUME NEW v \in Values
        PROVE  /\ [line EXCEPT ![i].byte = v] \in Seq(Marked)
               /\ Damaged(line, i, [line EXCEPT ![i].byte = v])
    <3> DEFINE t == [line EXCEPT ![i].byte = v]
    <3>1. /\ t \in Seq(Marked) /\ Len(t) = Len(line)
          /\ \A k \in 1..Len(line) : t[k] = IF k = i THEN [line[i] EXCEPT !.byte = v] ELSE line[k]
      BY <1>2, <2>1, LostOrChanged
    <3> HIDE DEF t
    <3>2. t[i].of = line[i].of
      <4>1. t[i] = [line[i] EXCEPT !.byte = v]
        BY <2>1, <3>1
      <4>2. line[i] \in Marked
        BY <1>2, <2>1
      <4> QED
        BY <4>1, <4>2 DEF Marked
    <3>3. Damaged(line, i, t)
      BY <3>1, <3>2 DEF Damaged
    <3> QED
      BY <3>1, <3>3 DEF t
  <2> QED
    BY <2>2, <2>3
<1>7. CASE ReadByte
  <2> DEFINE b == Head(line)
             d == DeviceDecode(buffer)
  <2>1. /\ way = "request" /\ line # <<>> /\ line' = Tail(line)
        /\ way' = way /\ written' = written /\ touched' = touched
    BY <1>7 DEF ReadByte
  <2>2. b \in Marked /\ b = line[1]
    BY <1>2, <2>1, HeadTailProperties
  <2>3. Takes(buffer, b, buffer')
    <3>1. CASE b.byte = 0
      <4>1. buffer' = <<>>
        BY <1>7, <3>1 DEF ReadByte
      <4> QED
        BY <3>1, <4>1 DEF Takes
    <3>2. CASE b.byte # 0
      <4>1. buffer' = IF Len(buffer) >= Capacity THEN <<>> ELSE Append(buffer, b.byte)
        BY <1>7, <3>2 DEF ReadByte
      <4>2. Len(buffer) \in Nat /\ Capacity \in Nat
        BY <1>2, CodecAssumption DEF ZeroFree
      <4>3. Len(buffer) < Capacity => ~(Len(buffer) >= Capacity)
        BY <4>2
      <4>4. Len(buffer) < Capacity => buffer' = Append(buffer, b.byte)
        BY <4>1, <4>3, Zenon
      <4> QED
        BY <3>2, <4>4, Zenon DEF Takes
    <3> QED
      BY <3>1, <3>2
  <2>4. Delivers(buffer, b, delivered, delivered')
    <3>1. d \in Outputs /\ \A data \in Sent : buffer = Encoded(data) => d = data
      BY <1>2, DecodedType, SentEncoded
    <3>2. CASE b.byte # 0 \/ buffer = <<>>
      <4>1. delivered' = delivered
        BY <1>7, <3>2 DEF ReadByte
      <4> QED
        BY <3>2, <4>1 DEF Delivers
    <3>3. CASE b.byte = 0 /\ buffer # <<>>
      <4>1. delivered' = Append(delivered, [of |-> b.of, data |-> d])
        BY <1>7, <3>3 DEF ReadByte
      <4> HIDE DEF d, b
      <4> QED
        BY <3>1, <3>3, <4>1, Zenon DEF Delivers
    <3> QED
      BY <3>2, <3>3
  <2> HIDE DEF d
  <2>5. buffer' \in ZeroFree
    BY <1>1 DEF LineType
  <2>6. delivered' \in Deliveries
    BY <1>2, <2>2, <2>4, DeliveriesGrow
  <2>7. /\ Arriving(written, touched, line, buffer, delivered)
        /\ Clear(written, touched, line, buffer)
    BY <1>3, <2>1
  <2>8. Arriving(written, touched, Tail(line), buffer', delivered')
    BY <1>2, <2>1, <2>3, <2>4, <2>5, <2>7, ByteArrives
  <2>9. Clear(written, touched, Tail(line), buffer')
    <3> DEFINE l == Len(line)
               w == Len(written)
               t == Tail(line)
    <3> SUFFICES ASSUME w + 1 \notin touched
                 PROVE  /\ t = <<>> => buffer' = <<>>
                        /\ t # <<>> => t[Len(t)] = [of |-> w, byte |-> 0]
      BY Zenon DEF Clear
    <3>1. line[l] = [of |-> w, byte |-> 0]
      BY <2>1, <2>7 DEF Clear
    <3>2. l \in Nat /\ Len(t) = l - 1 /\ \A m \in 1..(l - 1) : t[m] = line[m + 1]
      BY <1>2, <2>1, HeadTailProperties
    <3>3. ASSUME t = <<>> PROVE buffer' = <<>>
      <4>1. l = 1
        <5> HIDE DEF t, l
        <5>1. Len(t) = 0
          <6>1. Len(<<>>) = 0
            OBVIOUS
          <6> QED
            BY <3>3, <6>1, Zenon
        <5> QED
          BY <3>2, <5>1
      <4>2. b = [of |-> w, byte |-> 0]
        BY <2>2, <3>1, <4>1
      <4>3. b.byte = 0
        BY <4>2
      <4> QED
        BY <2>3, <4>3 DEF Takes
    <3>4. ASSUME t # <<>> PROVE t[Len(t)] = [of |-> w, byte |-> 0]
      <4>1. t \in Seq(Marked)
        BY <1>2, <2>1, HeadTailProperties
      <4> HIDE DEF t, l
      <4>2. Len(t) # 0
        BY <3>4, <4>1
      <4>3. l - 1 \in 1..(l - 1) /\ (l - 1) + 1 = l
        BY <3>2, <4>2
      <4>4. t[l - 1] = line[(l - 1) + 1]
        BY <3>2, <4>3
      <4> QED
        BY <3>1, <3>2, <4>3, <4>4
    <3> QED
      BY <3>3, <3>4
  <2>10. /\ Arriving(written', touched', line', buffer', delivered')
         /\ Clear(written', touched', line', buffer')
    BY <2>1, <2>8, <2>9
  <2> QED
    BY <1>1, <2>1, <2>6, <2>10 DEF Arrival
<1>8. CASE ReadAll
  <2> DEFINE frames == Split(line)[Len(line)].frames
  <2>1. /\ way = "answer" /\ line # <<>> /\ line' = <<>>
        /\ delivered' = IF Last(line).byte # 0 \/ \E i \in DOMAIN frames : frames[i].data = Bad
                        THEN << [of |-> 0, data |-> Bad] >> ELSE frames
        /\ way' = way /\ written' = written /\ touched' = touched /\ buffer' = buffer
    BY <1>8 DEF ReadAll
  <2>2. buffer = <<>> /\ delivered = <<>>
    BY <1>2, <2>1
  <2>3. /\ Arriving(written, touched, line, <<>>, <<>>)
        /\ Clear(written, touched, line, <<>>)
    BY <1>3, <2>1, <2>2
  <2>4. frames \in Deliveries /\ Arriving(written, touched, <<>>, <<>>, frames)
    BY <1>2, <2>3, AllArrives DEF SplitStates
  <2> HIDE DEF frames
  <2>5. Clear(written, touched, <<>>, <<>>)
    BY Zenon DEF Clear
  <2>6. CASE Last(line).byte # 0 \/ \E i \in DOMAIN frames : frames[i].data = Bad
    <3>1. delivered' = << [of |-> 0, data |-> Bad] >>
      BY <2>1, <2>6
    <3>2. touched # {}
      <4> SUFFICES ASSUME touched = {} PROVE FALSE
        OBVIOUS
      <4>1. line[Len(line)] = [of |-> Len(written), byte |-> 0]
        BY <2>1, <2>3 DEF Clear
      <4>2. Last(line).byte = 0
        <5>1. Last(line) = line[Len(line)]
          BY DEF Last
        <5> QED
          BY <4>1, <5>1
      <4>3. PICK i \in DOMAIN frames : frames[i].data = Bad
        BY <2>6, <4>2
      <4>4. i \in 1..Len(frames)
        BY <2>4 DEF Deliveries
      <4>5. frames[i].of \in 1..Len(written) /\ frames[i].data = written[frames[i].of]
        BY <2>4, <4>4 DEF Arriving, Genuine
      <4>6. Bad \in Seq(Bytes)
        <5>1. written[frames[i].of] \in Sent
          BY <1>2, <4>5
        <5> QED
          BY <4>3, <4>5, <5>1 DEF Sent
      <4> QED
        BY <4>6, BadIsNoOutput
    <3>3. delivered' \in Deliveries
      <4> DEFINE S == [of : Nat, data : Seq(Bytes) \cup {Bad}]
                 r == [of |-> 0, data |-> Bad]
      <4>1. r \in S
        OBVIOUS
      <4> HIDE DEF S, r
      <4>2. <<r>> \in Seq(S)
        BY <4>1
      <4> QED
        BY <3>1, <4>2 DEF Deliveries, S, r
    <3>4. Refused'
      BY <2>1, <3>1, <3>2 DEF Refused
    <3> QED
      BY <1>1, <2>1, <2>2, <3>3, <3>4 DEF Arrival
  <2>7. CASE ~(Last(line).byte # 0 \/ \E i \in DOMAIN frames : frames[i].data = Bad)
    <3>1. delivered' = frames
      BY <2>1, <2>7
    <3>2. /\ Arriving(written', touched', line', buffer', delivered')
          /\ Clear(written', touched', line', buffer')
      BY <2>1, <2>2, <2>4, <2>5, <3>1
    <3> QED
      BY <1>1, <2>1, <2>2, <2>4, <3>1, <3>2 DEF Arrival
  <2> QED
    BY <2>6, <2>7
<1>9. ASSUME UNCHANGED <<way, line, buffer, written, delivered, touched, noise>> PROVE Arrival'
  BY <1>1, <1>9 DEF Arrival, Refused
<1>10. CASE CodecNext
  <2>1. CASE \E n \in 1..MaxLength : \E data \in [1..n -> Values] : WriteFrame(data)
    BY <1>4, <2>1
  <2>2. CASE \E i \in DOMAIN line : \/ Noise(i, RemoveAt(line, i))
                                    \/ \E v \in Values : Noise(i, [line EXCEPT ![i].byte = v])
    <3>1. PICK i \in DOMAIN line : \/ Noise(i, RemoveAt(line, i))
                                   \/ \E v \in Values : Noise(i, [line EXCEPT ![i].byte = v])
      BY <2>2
    <3> QED
      BY <1>5, <1>6, <3>1
  <2>3. CASE \E v \in Values : ExtendBody(v)
    BY <1>9, <2>3 DEF ExtendBody
  <2> QED
    BY <1>7, <1>8, <1>10, <2>1, <2>2, <2>3 DEF CodecNext
<1>11. CASE UNCHANGED codecVars
  BY <1>9, <1>11 DEF codecVars
<1> QED
  BY <1>10, <1>11

\* A lost or changed byte costs the frames it belongs to or delimits and no
\* other: encoded_input and split find the next frame again at a delimiter.
THEOREM DamageIsLocal == CodecSpec => []UntouchedArrive
<1>1. CodecInit => Arrival
  BY ArrivalInit
<1>2. Arrival /\ [CodecNext]_codecVars => Arrival'
  BY ArrivalInductive
<1>3. Arrival => UntouchedArrive
  <2> SUFFICES ASSUME Arrival, line = <<>>, ~Refused PROVE
        /\ \A k \in DOMAIN written \ touched :
               \E i \in DOMAIN delivered : delivered[i] = [of |-> k, data |-> written[k]]
        /\ \A i, j \in {n \in DOMAIN delivered : delivered[n].of \notin touched} :
               i < j => delivered[i].of < delivered[j].of
    BY DEF UntouchedArrive, Refused
  <2>1. Arriving(written, touched, <<>>, buffer, delivered)
    BY DEF Arrival
  <2>2. written \in Seq(Sent) /\ Len(written) \in Nat /\ DOMAIN written = 1..Len(written)
    BY DEF Arrival, LineType
  <2>3. DOMAIN delivered = 1..Len(delivered)
    BY DEF Arrival, Deliveries
  <2>4. \A k \in (1..Len(written)) \ touched : Done(written[k], delivered, k)
    BY <2>1, <2>2, NothingLeft
  <2>5. InOrder(touched, delivered)
    BY <2>1 DEF Arriving
  <2>6. ASSUME NEW k \in DOMAIN written \ touched
        PROVE  \E i \in DOMAIN delivered : delivered[i] = [of |-> k, data |-> written[k]]
    BY <2>2, <2>3, <2>4 DEF Done
  <2>7. \A i, j \in {n \in DOMAIN delivered : delivered[n].of \notin touched} :
            i < j => delivered[i].of < delivered[j].of
    BY <2>3, <2>5 DEF InOrder
  <2> QED
    BY <2>6, <2>7
<1> QED
  BY <1>1, <1>2, <1>3, PTL DEF CodecSpec

-----------------------------------------------------------------------------
(* The slices of the receive queues                                         *)

\* The cells of the firmware's array, the places of one slice of it, what a cell
\* may hold, and the arrays that there are.
Cells == 0..(QueueCount * Slice - 1)
Places == 0..(Slice - 1)
CellValues == Channels \cup Nat
Storage == [Cells -> CellValues]

\* A place of one slice is no place of another.
LEMMA CellsApart ==
    ASSUME NEW p \in Queues, NEW q \in Queues, NEW i \in Places, NEW j \in Places
    PROVE  /\ Cell(q, i) \in Cells
           /\ Cell(p, i) = Cell(q, j) => p = q /\ i = j
<1>1. ASSUME NEW a \in Nat, NEW b \in Nat, a < b PROVE a * Slice + Slice <= b * Slice
  BY <1>1, SizesAssumption
<1>2. p \in Nat /\ q \in Nat /\ p < QueueCount /\ q < QueueCount
  BY SizesAssumption DEF Queues
<1>3. p * Slice \in Nat /\ q * Slice \in Nat /\ QueueCount * Slice \in Nat
  BY <1>2, SizesAssumption
<1>4. q * Slice + Slice <= QueueCount * Slice
  BY <1>1, <1>2, SizesAssumption
<1>5. p < q => p * Slice + Slice <= q * Slice
  BY <1>1, <1>2
<1>6. q < p => q * Slice + Slice <= p * Slice
  BY <1>1, <1>2
<1> QED
  BY <1>2, <1>3, <1>4, <1>5, <1>6, SizesAssumption DEF Cell, Cells, Places

\* Places do not wrap.
LEMMA Wraps == /\ \A x \in Places : x % Slice = x
               /\ Slice % Slice = 0 /\ 0 \in Places
               /\ Places \subseteq Nat
  BY SizesAssumption DEF Places

\* A number below the size of a slice is a place.
LEMMA PlaceAt == \A x \in Nat : x < Slice => x \in Places
  BY SizesAssumption DEF Places

\* What is in the cells of a slice.
SliceOf(st, q) == [i \in Places |-> st[Cell(q, i)]]

\* Another value in one place.
Put(st, q, i, v) == [st EXCEPT ![Cell(q, i)] = v]

\* One byte written changes one place of one slice.
LEMMA OneWritten ==
    ASSUME NEW st \in Storage, NEW q \in Queues, NEW i \in Places, NEW v \in CellValues,
           NEW w, w = Put(st, q, i, v)
    PROVE  /\ w \in Storage
           /\ \A p \in Queues : p # q => SliceOf(w, p) = SliceOf(st, p)
           /\ \A j \in Places : SliceOf(w, q)[j] = IF j = i THEN v ELSE SliceOf(st, q)[j]
<1>1. \A p \in Queues, j \in Places :
        Cell(p, j) \in Cells /\ (Cell(p, j) = Cell(q, i) => p = q /\ j = i)
  BY CellsApart
<1>2. w \in Storage
  BY <1>1 DEF Storage, Put
<1>3. \A p \in Queues, j \in Places : w[Cell(p, j)] = IF p = q /\ j = i THEN v ELSE st[Cell(p, j)]
  BY <1>1 DEF Storage, Put
<1>4. \A p \in Queues : p # q => SliceOf(w, p) = SliceOf(st, p)
  BY <1>3 DEF SliceOf
<1>5. \A j \in Places : SliceOf(w, q)[j] = IF j = i THEN v ELSE SliceOf(st, q)[j]
  BY <1>3 DEF SliceOf
<1> QED
  BY <1>2, <1>4, <1>5

\* write, round by round.
WriteStep(q, head, data, st, n) == Put(st, q, (head + n - 1) % Slice, data[n])

IsWriting(g, st, q, head, data) ==
    /\ g[0] = st /\ Written(st, q, head, data) = g[Len(data)]
    /\ \A n \in 0..(Len(data) - 1) : g[n + 1] = WriteStep(q, head, data, g[n], n + 1)

\* write has such rounds, and its result is the array after the last of them.
LEMMA WrittenRounds ==
    ASSUME NEW st \in Storage, NEW q \in Queues, NEW head \in Places, NEW data \in Seq(CellValues),
           head + Len(data) <= Slice
    PROVE  \E g : IsWriting(g, st, q, head, data)
<1> DEFINE size == Len(data)
           Defines(f) == f = [n \in 0..size |-> IF n = 0 THEN st
                                                ELSE [f[n - 1] EXCEPT ![Cell(q, (head + n - 1) % Slice)] = data[n]]]
           step == [p \in (1..size) \X Storage |-> WriteStep(q, head, data, p[2], p[1])]
           g == CHOOSE f : Defines(f)
<1>1. size \in Nat /\ \A i \in 1..size : data[i] \in CellValues
  OBVIOUS
<1>2. step \in [(1..size) \X Storage -> Storage]
  <2> SUFFICES ASSUME NEW n \in 1..size, NEW s \in Storage PROVE WriteStep(q, head, data, s, n) \in Storage
    OBVIOUS
  <2>1. head + n - 1 \in Places
    BY <1>1, SizesAssumption DEF Places
  <2>2. PICK i \in Places, v \in CellValues : i = (head + n - 1) % Slice /\ v = data[n]
    BY <1>1, <2>1, Wraps
  <2>3. WriteStep(q, head, data, s, n) = Put(s, q, i, v)
    BY <2>2 DEF WriteStep
  <2> QED
    BY <2>3, OneWritten
<1>3. PICK f \in [0..size -> Storage] :
          f[0] = st /\ \A i \in 0..(size - 1) : f[i + 1] = step[<<i + 1, f[i]>>]
  <2> HIDE DEF step, size
  <2>1. \E f : IsLoop(f, Storage, st, size, step)
    BY <1>1, <1>2, LoopHasStates
  <2> QED
    BY <2>1 DEF IsLoop
<1>4. \A i \in 0..(size - 1) : f[i + 1] = WriteStep(q, head, data, f[i], i + 1)
  <2> SUFFICES ASSUME NEW i \in 0..(size - 1)
               PROVE  f[i + 1] = WriteStep(q, head, data, f[i], i + 1)
    OBVIOUS
  <2>1. <<i + 1, f[i]>> \in (1..size) \X Storage
    BY <1>1
  <2> QED
    BY <1>3, <2>1
<1>5. \A n \in 0..size : n = 0 \/ (n - 1 \in 0..(size - 1) /\ n - 1 + 1 = n)
  BY <1>1
<1> HIDE DEF size
<1>6. Defines(f)
  <2>1. \A n \in 0..size : f[n] = IF n = 0 THEN st
                                  ELSE [f[n - 1] EXCEPT ![Cell(q, (head + n - 1) % Slice)] = data[n]]
    BY <1>3, <1>4, <1>5 DEF WriteStep, Put
  <2> QED
    BY <2>1
<1>7. Written(st, q, head, data) = g[size]
  BY DEF Written, size
<1>8. Defines(g)
  <2> HIDE DEF Defines
  <2> QED
    BY <1>6
<1> HIDE DEF g
<1>9. g[0] = st /\ \A n \in 0..(size - 1) : g[n + 1] = WriteStep(q, head, data, g[n], n + 1)
  <2>1. \A m \in 0..size : g[m] = IF m = 0 THEN st
                                  ELSE [g[m - 1] EXCEPT ![Cell(q, (head + m - 1) % Slice)] = data[m]]
    BY <1>8, Zenon
  <2>2. \A m \in 0..size : m # 0 => g[m] = WriteStep(q, head, data, g[m - 1], m)
    BY <2>1 DEF WriteStep, Put
  <2>3. \A n \in 0..(size - 1) : n + 1 \in 0..size /\ n + 1 # 0 /\ n + 1 - 1 = n
    BY <1>1
  <2>4. 0 \in 0..size
    BY <1>1
  <2>5. g[0] = st
    BY <2>1, <2>4
  <2> QED
    BY <2>2, <2>3, <2>5
<1> QED
  BY <1>7, <1>9 DEF size, IsWriting

\* write: the data from the head on, and nothing else changes.
WrittenAs(w, st, q, head, data) ==
    /\ w \in Storage
    /\ \A p \in Queues : p # q => SliceOf(w, p) = SliceOf(st, p)
    /\ \A j \in Places : SliceOf(w, q)[j] =
         IF j \in head..(head + Len(data) - 1) THEN data[j - head + 1] ELSE SliceOf(st, q)[j]

\* write does so when it does not reach the end of the slice.
LEMMA WrittenIs ==
    ASSUME NEW st \in Storage, NEW q \in Queues, NEW head \in Places, NEW data \in Seq(CellValues),
           head + Len(data) <= Slice
    PROVE  WrittenAs(Written(st, q, head, data), st, q, head, data)
<1> DEFINE size == Len(data)
           Good(w, n) == /\ w \in Storage
                         /\ \A p \in Queues : p # q => SliceOf(w, p) = SliceOf(st, p)
                         /\ \A j \in Places : SliceOf(w, q)[j] =
                              IF j \in head..(head + n - 1) THEN data[j - head + 1]
                              ELSE SliceOf(st, q)[j]
<1>1. PICK g : /\ g[0] = st /\ Written(st, q, head, data) = g[size]
               /\ \A n \in 0..(size - 1) : g[n + 1] = WriteStep(q, head, data, g[n], n + 1)
  <2>1. PICK g : IsWriting(g, st, q, head, data)
    BY WrittenRounds
  <2> QED
    BY <2>1, Zenon DEF IsWriting
<1>2. size \in Nat /\ \A i \in 1..size : data[i] \in CellValues
  OBVIOUS
<1>3. head \in Nat /\ head + size <= Slice
  BY Wraps
<1> DEFINE P == {n \in 0..size : Good(g[n], n)}
<1> HIDE DEF size
<1>4. 0 \in P
  <2>1. \A j \in Places : j \notin head..(head + 0 - 1)
    BY <1>3, Wraps
  <2> QED
    BY <1>1, <1>2, <2>1
<1>5. ASSUME NEW n \in 0..(size - 1), n \in P PROVE n + 1 \in P
  <2>1. Good(g[n], n)
    BY <1>5
  <2>0. n \in Nat /\ n + 1 \in 1..size /\ n + 1 \in 0..size
    BY <1>2
  <2> HIDE DEF P
  <2>2. head + n \in Places /\ head + (n + 1) - 1 = head + n /\ (head + n) % Slice = head + n
    BY <1>2, <1>3, <2>0, Wraps, SizesAssumption DEF Places
  <2>3. g[n + 1] = Put(g[n], q, head + n, data[n + 1])
    <3>1. g[n + 1] = WriteStep(q, head, data, g[n], n + 1)
      BY <1>1
    <3> QED
      BY <2>2, <3>1 DEF WriteStep
  <2>4. data[n + 1] \in CellValues /\ g[n] \in Storage
    BY <1>2, <2>0, <2>1
  <2>5. /\ g[n + 1] \in Storage
        /\ \A p \in Queues : p # q => SliceOf(g[n + 1], p) = SliceOf(g[n], p)
        /\ \A j \in Places : SliceOf(g[n + 1], q)[j] =
             IF j = head + n THEN data[n + 1] ELSE SliceOf(g[n], q)[j]
    <3> DEFINE i == head + n
               v == data[n + 1]
               s == g[n]
               w == g[n + 1]
    <3>1. w = Put(s, q, i, v) /\ i \in Places /\ v \in CellValues /\ s \in Storage
      BY <2>2, <2>3, <2>4
    <3> HIDE DEF i, v, s, w
    <3>2. /\ w \in Storage
          /\ \A p \in Queues : p # q => SliceOf(w, p) = SliceOf(s, p)
          /\ \A j \in Places : SliceOf(w, q)[j] = IF j = i THEN v ELSE SliceOf(s, q)[j]
      BY <3>1, OneWritten
    <3> QED
      BY <3>2 DEF i, v, s, w
  <2>6. \A j \in Places : j \in head..(head + (n + 1) - 1) <=> (j = head + n \/ j \in head..(head + n - 1))
    BY <1>3, <2>0, Wraps
  <2>7. (head + n) - head + 1 = n + 1
    BY <1>3, <2>0
  <2>8. \A j \in Places : SliceOf(g[n + 1], q)[j] =
          IF j \in head..(head + (n + 1) - 1) THEN data[j - head + 1] ELSE SliceOf(st, q)[j]
    BY <2>1, <2>5, <2>6, <2>7
  <2> QED
    BY <2>0, <2>1, <2>5, <2>8 DEF P
<1>6. \A n \in 0..size : n \in P
  <2> HIDE DEF P
  <2> QED
    BY <1>2, <1>4, <1>5, LoopInvariant
<1>7. Good(g[size], size)
  BY <1>2, <1>6
<1> QED
  BY <1>1, <1>7 DEF size, WrittenAs

\* copy, round by round.
CopyStep(q, source, destination, s, n) ==
    Put(s, q, (destination + n - 1) % Slice, s[Cell(q, (source + n - 1) % Slice)])

\* g is the array after each round of copy.
IsCopying(g, st, q, source, destination, size) ==
    /\ g[0] = st /\ Copied(st, q, source, destination, size) = g[size]
    /\ \A n \in 0..(size - 1) : g[n + 1] = CopyStep(q, source, destination, g[n], n + 1)

\* copy has such rounds, and its result is the array after the last of them.
LEMMA CopiedRounds ==
    ASSUME NEW st \in Storage, NEW q \in Queues, NEW source \in Places, NEW destination \in Places,
           NEW size \in Nat, source + size <= Slice, destination + size <= Slice
    PROVE  \E g : IsCopying(g, st, q, source, destination, size)
<1> DEFINE Defines(f) == f = [n \in 0..size |->
                 IF n = 0 THEN st
                 ELSE [f[n - 1] EXCEPT ![Cell(q, (destination + n - 1) % Slice)] =
                                         f[n - 1][Cell(q, (source + n - 1) % Slice)]]]
           step == [p \in (1..size) \X Storage |-> CopyStep(q, source, destination, p[2], p[1])]
           g == CHOOSE f : Defines(f)
<1>1. step \in [(1..size) \X Storage -> Storage]
  <2> SUFFICES ASSUME NEW n \in 1..size, NEW s \in Storage
               PROVE  CopyStep(q, source, destination, s, n) \in Storage
    OBVIOUS
  <2>1. destination + n - 1 \in Places /\ source + n - 1 \in Places
    BY SizesAssumption DEF Places
  <2>2. s[Cell(q, source + n - 1)] \in CellValues
    BY <2>1, CellsApart DEF Storage
  <2> QED
    BY <2>1, <2>2, Wraps, OneWritten DEF CopyStep
<1>2. PICK f \in [0..size -> Storage] :
          f[0] = st /\ \A i \in 0..(size - 1) : f[i + 1] = step[<<i + 1, f[i]>>]
  <2> HIDE DEF step
  <2>1. \E f : IsLoop(f, Storage, st, size, step)
    BY <1>1, LoopHasStates
  <2> QED
    BY <2>1 DEF IsLoop
<1>3. \A i \in 0..(size - 1) : f[i + 1] = CopyStep(q, source, destination, f[i], i + 1)
  <2> SUFFICES ASSUME NEW i \in 0..(size - 1)
               PROVE  f[i + 1] = CopyStep(q, source, destination, f[i], i + 1)
    OBVIOUS
  <2>1. <<i + 1, f[i]>> \in (1..size) \X Storage
    OBVIOUS
  <2> QED
    BY <1>2, <2>1
<1>4. \A n \in 0..size : n = 0 \/ (n - 1 \in 0..(size - 1) /\ n - 1 + 1 = n)
  OBVIOUS
<1>5. Defines(f)
  <2>1. \A n \in 0..size : f[n] =
          IF n = 0 THEN st
          ELSE [f[n - 1] EXCEPT ![Cell(q, (destination + n - 1) % Slice)] =
                                  f[n - 1][Cell(q, (source + n - 1) % Slice)]]
    <3> SUFFICES ASSUME NEW n \in 0..size
                 PROVE  f[n] = IF n = 0 THEN st ELSE CopyStep(q, source, destination, f[n - 1], n)
      BY Zenon DEF CopyStep, Put
    <3>1. n # 0 => n - 1 \in 0..(size - 1) /\ n - 1 + 1 = n
      BY <1>4
    <3> QED
      BY <1>2, <1>3, <3>1
  <2> QED
    BY <2>1
<1>6. Copied(st, q, source, destination, size) = g[size]
  BY DEF Copied
<1>7. Defines(g)
  <2> HIDE DEF Defines
  <2> QED
    BY <1>5
<1> HIDE DEF g
<1>8. g[0] = st /\ \A n \in 0..(size - 1) : g[n + 1] = CopyStep(q, source, destination, g[n], n + 1)
  <2>1. \A m \in 0..size : g[m] =
          IF m = 0 THEN st
          ELSE [g[m - 1] EXCEPT ![Cell(q, (destination + m - 1) % Slice)] =
                                  g[m - 1][Cell(q, (source + m - 1) % Slice)]]
    BY <1>7, Zenon
  <2>2. \A m \in 0..size : m # 0 => g[m] = CopyStep(q, source, destination, g[m - 1], m)
    BY <2>1 DEF CopyStep, Put
  <2>3. \A n \in 0..(size - 1) : n + 1 \in 0..size /\ n + 1 # 0 /\ n + 1 - 1 = n
    OBVIOUS
  <2>4. 0 \in 0..size
    OBVIOUS
  <2>5. g[0] = st
    BY <2>1, <2>4
  <2> QED
    BY <2>2, <2>3, <2>5
<1> QED
  BY <1>6, <1>8 DEF IsCopying

\* copy towards the tail: no cell is overwritten before it is read, and none
\* after the destination changes.
CopiedAs(w, st, q, source, destination, size) ==
    /\ w \in Storage
    /\ \A p \in Queues : p # q => SliceOf(w, p) = SliceOf(st, p)
    /\ \A j \in Places : SliceOf(w, q)[j] =
         IF j \in destination..(destination + size - 1)
         THEN SliceOf(st, q)[source + (j - destination)] ELSE SliceOf(st, q)[j]

\* copy does so when it moves down, although the two places may overlap: it goes
\* from the first byte to the last.
LEMMA CopiedIs ==
    ASSUME NEW st \in Storage, NEW q \in Queues, NEW source \in Places, NEW destination \in Places,
           NEW size \in Nat, source + size <= Slice, destination <= source
    PROVE  CopiedAs(Copied(st, q, source, destination, size), st, q, source, destination, size)
<1> DEFINE Good(w, n) == /\ w \in Storage
                         /\ \A p \in Queues : p # q => SliceOf(w, p) = SliceOf(st, p)
                         /\ \A j \in Places : SliceOf(w, q)[j] =
                              IF j \in destination..(destination + n - 1)
                              THEN SliceOf(st, q)[source + (j - destination)]
                              ELSE SliceOf(st, q)[j]
<1>1. source \in Nat /\ destination \in Nat /\ destination + size <= Slice
  BY Wraps, SizesAssumption
<1>2. PICK g : /\ g[0] = st /\ Copied(st, q, source, destination, size) = g[size]
               /\ \A n \in 0..(size - 1) : g[n + 1] = CopyStep(q, source, destination, g[n], n + 1)
  <2>1. PICK g : IsCopying(g, st, q, source, destination, size)
    BY <1>1, CopiedRounds
  <2> QED
    BY <2>1, Zenon DEF IsCopying
<1> DEFINE P == {n \in 0..size : Good(g[n], n)}
<1>3. 0 \in P
  <2>1. \A j \in Places : j \notin destination..(destination + 0 - 1)
    BY <1>1, Wraps
  <2> QED
    BY <1>2, <2>1
<1>4. ASSUME NEW n \in 0..(size - 1), n \in P PROVE n + 1 \in P
  <2> DEFINE s == g[n]
  <2>1. Good(s, n)
    BY <1>4
  <2>0. n \in Nat /\ n + 1 \in 0..size
    OBVIOUS
  <2>2. /\ destination + n \in Places /\ destination + (n + 1) - 1 = destination + n
        /\ source + n \in Places /\ source + (n + 1) - 1 = source + n
        /\ (destination + n) % Slice = destination + n /\ (source + n) % Slice = source + n
    BY <1>1, <2>0, Wraps, SizesAssumption DEF Places
  <2>3. g[n + 1] = Put(s, q, destination + n, s[Cell(q, source + n)])
    BY <1>2, <2>2 DEF CopyStep
  <2> HIDE DEF s, P
  <2>4. s[Cell(q, source + n)] = SliceOf(s, q)[source + n] /\ s[Cell(q, source + n)] \in CellValues
    BY <2>1, <2>2, CellsApart DEF SliceOf, Storage
  <2>5. SliceOf(s, q)[source + n] = SliceOf(st, q)[source + n]
    <3>1. source + n \notin destination..(destination + n - 1)
      BY <1>1, <2>0
    <3> QED
      BY <2>1, <2>2, <3>1
  <2>6. /\ g[n + 1] \in Storage
        /\ \A p \in Queues : p # q => SliceOf(g[n + 1], p) = SliceOf(s, p)
        /\ \A j \in Places : SliceOf(g[n + 1], q)[j] =
             IF j = destination + n THEN SliceOf(st, q)[source + n] ELSE SliceOf(s, q)[j]
    <3> DEFINE i == destination + n
               v == s[Cell(q, source + n)]
               w == g[n + 1]
    <3>1. w = Put(s, q, i, v) /\ i \in Places /\ v \in CellValues /\ s \in Storage
      BY <2>1, <2>2, <2>3, <2>4
    <3>2. v = SliceOf(st, q)[source + n]
      BY <2>4, <2>5
    <3> HIDE DEF i, v, w
    <3>3. /\ w \in Storage
          /\ \A p \in Queues : p # q => SliceOf(w, p) = SliceOf(s, p)
          /\ \A j \in Places : SliceOf(w, q)[j] = IF j = i THEN v ELSE SliceOf(s, q)[j]
      BY <3>1, OneWritten
    <3> QED
      BY <3>2, <3>3 DEF i, w
  <2>7. \A j \in Places : j \in destination..(destination + (n + 1) - 1)
                          <=> (j = destination + n \/ j \in destination..(destination + n - 1))
    BY <1>1, <2>0, Wraps
  <2>8. source + ((destination + n) - destination) = source + n
    BY <1>1, <2>0
  <2>9. \A j \in Places : SliceOf(g[n + 1], q)[j] =
          IF j \in destination..(destination + (n + 1) - 1)
          THEN SliceOf(st, q)[source + (j - destination)] ELSE SliceOf(st, q)[j]
    BY <2>1, <2>6, <2>7, <2>8
  <2> QED
    BY <2>0, <2>1, <2>6, <2>9 DEF P, s
<1>5. \A n \in 0..size : n \in P
  <2> HIDE DEF P
  <2> QED
    BY <1>3, <1>4, LoopInvariant
<1>6. Good(g[size], size)
  BY <1>5
<1> QED
  BY <1>2, <1>6, Zenon DEF CopiedAs

-----------------------------------------------------------------------------
(* Records                                                                  *)

\* The records of the queue, as the abstract specification has them.
Record == Promise!Record
Ends(s) == Promise!Ends(s)
TotalSize(s) == Promise!TotalSize(s)
SizeOf(r) == Promise!SizeOf(r)
Of(s, channels) == Promise!Of(s, channels)

\* A record takes its two header bytes and at least one byte of data.
LEMMA SizesOfRecords ==
    /\ \A r \in Record : /\ r.channel \in CellValues /\ r.length \in Nat \ {0} /\ r.stamp \in Nat
                         /\ SizeOf(r) = 2 + r.length /\ SizeOf(r) \in Nat /\ SizeOf(r) >= 3
    /\ Record = [channel : Channels, length : Lengths, stamp : UNION {1..MaxOffers[q] : q \in Queues}]
<1>1. Record = [channel : Channels, length : Lengths, stamp : UNION {1..MaxOffers[q] : q \in Queues}]
  BY DEF Record, Promise!Record
<1>2. \A x \in UNION {1..MaxOffers[q] : q \in Queues} : x \in Nat
  BY SizesAssumption
<1>3. \A r \in Record : r.channel \in CellValues /\ r.length \in Nat \ {0} /\ r.stamp \in Nat
  BY <1>1, <1>2, SizesAssumption DEF CellValues
<1>4. \A r \in Record : SizeOf(r) = 2 + r.length
  BY DEF SizeOf, Promise!SizeOf, HeaderSize
<1> QED
  BY <1>1, <1>3, <1>4

\* Where records end that lie one after the other.
LEMMA EndsRounds ==
    ASSUME NEW s \in Seq(Record)
    PROVE  /\ Ends(s)[0] = 0
           /\ \A n \in 0..(Len(s) - 1) : Ends(s)[n + 1] = Ends(s)[n] + SizeOf(s[n + 1])
           /\ \A n \in 0..Len(s) : Ends(s)[n] \in Nat
           /\ TotalSize(s) = Ends(s)[Len(s)] /\ TotalSize(s) \in Nat
<1> DEFINE size == Len(s)
           Defines(f) == f = [n \in 0..size |-> IF n = 0 THEN 0 ELSE f[n - 1] + SizeOf(s[n])]
           step == [p \in (1..size) \X Nat |-> p[2] + SizeOf(s[p[1]])]
           g == CHOOSE f : Defines(f)
<1>1. size \in Nat /\ \A i \in 1..size : s[i] \in Record
  OBVIOUS
<1>2. step \in [(1..size) \X Nat -> Nat]
  <2> SUFFICES ASSUME NEW n \in 1..size, NEW x \in Nat PROVE x + SizeOf(s[n]) \in Nat
    OBVIOUS
  <2>1. s[n] \in Record
    BY <1>1
  <2>2. SizeOf(s[n]) \in Nat
    BY <2>1, SizesOfRecords
  <2> QED
    BY <2>2
<1>3. PICK f \in [0..size -> Nat] :
          f[0] = 0 /\ \A i \in 0..(size - 1) : f[i + 1] = step[<<i + 1, f[i]>>]
  <2> HIDE DEF step, size
  <2>1. \E f : IsLoop(f, Nat, 0, size, step)
    BY <1>1, <1>2, LoopHasStates
  <2> QED
    BY <2>1 DEF IsLoop
<1>4. \A i \in 0..(size - 1) : f[i + 1] = f[i] + SizeOf(s[i + 1])
  <2> SUFFICES ASSUME NEW i \in 0..(size - 1) PROVE f[i + 1] = f[i] + SizeOf(s[i + 1])
    OBVIOUS
  <2>1. <<i + 1, f[i]>> \in (1..size) \X Nat
    BY <1>1
  <2> QED
    BY <1>3, <2>1
<1>5. \A n \in 0..size : n = 0 \/ (n - 1 \in 0..(size - 1) /\ n - 1 + 1 = n)
  BY <1>1
<1>6. Ends(s) = g
  BY DEF Ends, Promise!Ends, SizeOf
<1> HIDE DEF size
<1>7. Defines(f)
  <2>1. \A n \in 0..size : f[n] = IF n = 0 THEN 0 ELSE f[n - 1] + SizeOf(s[n])
    BY <1>3, <1>4, <1>5
  <2> QED
    BY <2>1
<1>8. Defines(g)
  <2> HIDE DEF Defines
  <2> QED
    BY <1>7
<1> HIDE DEF g
<1>9. g[0] = 0 /\ \A n \in 0..(size - 1) : g[n + 1] = g[n] + SizeOf(s[n + 1])
  <2>1. \A m \in 0..size : g[m] = IF m = 0 THEN 0 ELSE g[m - 1] + SizeOf(s[m])
    BY <1>8, Zenon
  <2>2. \A n \in 0..(size - 1) : n + 1 \in 0..size /\ n + 1 # 0 /\ n + 1 - 1 = n
    BY <1>1
  <2>3. 0 \in 0..size
    BY <1>1
  <2> QED
    BY <2>1, <2>2, <2>3
<1>10. \A n \in 0..size : g[n] \in Nat
  <2> DEFINE P == {n \in 0..size : g[n] \in Nat}
  <2>1. 0 \in P
    BY <1>1, <1>9
  <2>2. ASSUME NEW n \in 0..(size - 1), n \in P PROVE n + 1 \in P
    <3>1. n + 1 \in 1..size /\ n + 1 \in 0..size
      BY <1>1
    <3>2. s[n + 1] \in Record
      BY <1>1, <3>1
    <3>3. SizeOf(s[n + 1]) \in Nat
      BY <3>2, SizesOfRecords
    <3>4. g[n + 1] = g[n] + SizeOf(s[n + 1]) /\ g[n] \in Nat
      BY <1>9, <2>2
    <3>5. g[n + 1] \in Nat
      BY <3>3, <3>4
    <3> QED
      BY <3>1, <3>5
  <2>3. \A n \in 0..size : n \in P
    <3> HIDE DEF P
    <3> QED
      BY <1>1, <2>1, <2>2, LoopInvariant
  <2> QED
    BY <2>3
<1>11. TotalSize(s) = Ends(s)[size]
  BY DEF TotalSize, Promise!TotalSize, Ends, size
<1> QED
  BY <1>1, <1>6, <1>9, <1>10, <1>11 DEF size

\* The m records from k on are those of t from l on.
Alike(s, k, t, l, m) ==
    k + m <= Len(s) /\ l + m <= Len(t) /\ \A i \in 1..m : s[k + i] = t[l + i]

EndsAlike(s, k, t, l, m) ==
    \A i \in 0..m : Ends(s)[k + i] - Ends(s)[k] = Ends(t)[l + i] - Ends(t)[l]

\* Equal records have equal sizes wherever they are in a sequence.
LEMMA EndsShift ==
    ASSUME NEW s \in Seq(Record), NEW t \in Seq(Record), NEW k \in Nat, NEW l \in Nat, NEW m \in Nat,
           Alike(s, k, t, l, m)
    PROVE  EndsAlike(s, k, t, l, m)
<1> USE DEF Alike
<1> DEFINE P == {i \in 0..m : Ends(s)[k + i] - Ends(s)[k] = Ends(t)[l + i] - Ends(t)[l]}
<1>1. \A i \in 0..m : Ends(s)[k + i] \in Nat /\ Ends(t)[l + i] \in Nat
  <2>1. \A i \in 0..m : k + i \in 0..Len(s) /\ l + i \in 0..Len(t)
    OBVIOUS
  <2> QED
    BY <2>1, EndsRounds
<1>2. 0 \in P
  <2>1. k + 0 = k /\ l + 0 = l /\ 0 \in 0..m
    OBVIOUS
  <2>2. Ends(s)[k] \in Nat /\ Ends(t)[l] \in Nat
    BY <1>1, <2>1
  <2>3. Ends(s)[k] - Ends(s)[k] = Ends(t)[l] - Ends(t)[l]
    BY <2>2
  <2> QED
    BY <2>1, <2>3
<1>3. ASSUME NEW i \in 0..(m - 1), i \in P PROVE i + 1 \in P
  <2>1. /\ k + i \in 0..(Len(s) - 1) /\ l + i \in 0..(Len(t) - 1) /\ i + 1 \in 1..m /\ i + 1 \in 0..m
        /\ k + (i + 1) = (k + i) + 1 /\ l + (i + 1) = (l + i) + 1
    OBVIOUS
  <2>2. Ends(s)[(k + i) + 1] = Ends(s)[k + i] + SizeOf(s[(k + i) + 1])
    BY <2>1, EndsRounds
  <2>3. Ends(t)[(l + i) + 1] = Ends(t)[l + i] + SizeOf(t[(l + i) + 1])
    BY <2>1, EndsRounds
  <2>4. s[(k + i) + 1] = t[(l + i) + 1] /\ s[(k + i) + 1] \in Record
    <3>1. s[k + (i + 1)] = t[l + (i + 1)]
      BY <2>1
    <3>2. (k + i) + 1 \in 1..Len(s)
      BY <2>1
    <3> QED
      BY <2>1, <3>1, <3>2
  <2>5. SizeOf(s[(k + i) + 1]) \in Nat
    BY <2>4, SizesOfRecords
  <2>6. Ends(s)[k + i] \in Nat /\ Ends(t)[l + i] \in Nat /\ Ends(s)[k] \in Nat /\ Ends(t)[l] \in Nat
    <3>1. k \in 0..Len(s) /\ l \in 0..Len(t)
      OBVIOUS
    <3> QED
      BY <1>1, <3>1, EndsRounds
  <2>7. Ends(s)[k + i] - Ends(s)[k] = Ends(t)[l + i] - Ends(t)[l]
    BY <1>3
  <2> DEFINE a == Ends(s)[k + i]
             b == Ends(s)[k]
             c == Ends(t)[l + i]
             d == Ends(t)[l]
             x == SizeOf(s[(k + i) + 1])
  <2>8. a \in Nat /\ b \in Nat /\ c \in Nat /\ d \in Nat /\ x \in Nat /\ a - b = c - d
    BY <2>5, <2>6, <2>7
  <2>9. (a + x) - b = (c + x) - d
    <3> HIDE DEF a, b, c, d, x
    <3> QED
      BY <2>8
  <2>10. Ends(s)[(k + i) + 1] - Ends(s)[k] = Ends(t)[(l + i) + 1] - Ends(t)[l]
    BY <2>2, <2>3, <2>4, <2>9
  <2> QED
    BY <2>1, <2>10
<1>4. \A i \in 0..m : i \in P
  <2> HIDE DEF P
  <2> QED
    BY <1>2, <1>3, LoopInvariant
<1> HIDE DEF P
<1>5. \A i \in 0..m : Ends(s)[k + i] - Ends(s)[k] = Ends(t)[l + i] - Ends(t)[l]
  BY <1>4 DEF P
<1> QED
  BY <1>5 DEF EndsAlike

\* Records take three cells at least.
LEMMA EndsGrow ==
    ASSUME NEW s \in Seq(Record), NEW k \in 0..Len(s), NEW m \in k..Len(s)
    PROVE  Ends(s)[k] + 3 * (m - k) <= Ends(s)[m]
<1> DEFINE P == {i \in 0..(m - k) : Ends(s)[k] + 3 * i <= Ends(s)[k + i]}
<1>1. k \in Nat /\ m - k \in Nat /\ Ends(s)[k] \in Nat
  BY EndsRounds
<1>2. 0 \in P
  <2>1. k + 0 = k /\ 3 * 0 = 0 /\ 0 \in 0..(m - k)
    BY <1>1
  <2> QED
    BY <1>1, <2>1
<1>3. ASSUME NEW i \in 0..((m - k) - 1), i \in P PROVE i + 1 \in P
  <2>1. k + i \in 0..(Len(s) - 1) /\ k + (i + 1) = (k + i) + 1 /\ (k + i) + 1 \in 1..Len(s)
    BY <1>1
  <2>2. Ends(s)[(k + i) + 1] = Ends(s)[k + i] + SizeOf(s[(k + i) + 1]) /\ Ends(s)[k + i] \in Nat
    BY <2>1, EndsRounds
  <2>3. SizeOf(s[(k + i) + 1]) \in Nat /\ SizeOf(s[(k + i) + 1]) >= 3
    <3>1. s[(k + i) + 1] \in Record
      BY <2>1
    <3> QED
      BY <3>1, SizesOfRecords
  <2>4. Ends(s)[k] + 3 * i <= Ends(s)[k + i] /\ i \in Nat /\ i + 1 \in 0..(m - k)
    BY <1>1, <1>3
  <2>5. Ends(s)[k] + 3 * (i + 1) <= Ends(s)[k + (i + 1)]
    BY <1>1, <2>1, <2>2, <2>3, <2>4
  <2> QED
    BY <2>4, <2>5
<1>4. \A i \in 0..(m - k) : i \in P
  <2> HIDE DEF P
  <2> QED
    BY <1>1, <1>2, <1>3, LoopInvariant
<1>5. m - k \in P /\ k + (m - k) = m
  BY <1>1, <1>4
<1> QED
  BY <1>5

-----------------------------------------------------------------------------
(* Prefixes and the records of some channels                                *)

\* The first n entries of a sequence, one entry after the other.
LEMMA PrefixGrows ==
    ASSUME NEW S, NEW s \in Seq(S)
    PROVE  /\ SubSeq(s, 1, 0) = <<>> /\ SubSeq(s, 1, Len(s)) = s
           /\ \A n \in 0..Len(s) : SubSeq(s, 1, n) \in Seq(S) /\ Len(SubSeq(s, 1, n)) = n
                                   /\ \A i \in 1..n : SubSeq(s, 1, n)[i] = s[i]
           /\ \A n \in 0..(Len(s) - 1) : SubSeq(s, 1, n + 1) = Append(SubSeq(s, 1, n), s[n + 1])
<1>1. \A n \in 0..Len(s) : SubSeq(s, 1, n) \in Seq(S) /\ Len(SubSeq(s, 1, n)) = n
                           /\ \A i \in 1..n : SubSeq(s, 1, n)[i] = s[i]
  <2> SUFFICES ASSUME NEW n \in 0..Len(s)
               PROVE  SubSeq(s, 1, n) \in Seq(S) /\ Len(SubSeq(s, 1, n)) = n
                      /\ \A i \in 1..n : SubSeq(s, 1, n)[i] = s[i]
    OBVIOUS
  <2>1. \A i \in 1..n : s[i] \in S
    OBVIOUS
  <2> QED
    BY <2>1, SubSeqProperties
<1>2. \A n \in 0..(Len(s) - 1) : SubSeq(s, 1, n + 1) = Append(SubSeq(s, 1, n), s[n + 1])
  <2> SUFFICES ASSUME NEW n \in 0..(Len(s) - 1)
               PROVE  SubSeq(s, 1, n + 1) = Append(SubSeq(s, 1, n), s[n + 1])
    OBVIOUS
  <2> DEFINE a == SubSeq(s, 1, n + 1)
             p == SubSeq(s, 1, n)
             b == Append(p, s[n + 1])
  <2>0. n \in 0..Len(s) /\ n + 1 \in 0..Len(s) /\ n + 1 \in 1..Len(s) /\ s[n + 1] \in S
    OBVIOUS
  <2>1. a \in Seq(S) /\ Len(a) = n + 1 /\ \A i \in 1..(n + 1) : a[i] = s[i]
    BY <1>1, <2>0
  <2>2. p \in Seq(S) /\ Len(p) = n /\ \A i \in 1..n : p[i] = s[i]
    BY <1>1, <2>0
  <2> HIDE DEF a, p
  <2>3. b \in Seq(S) /\ Len(b) = n + 1 /\ b[n + 1] = s[n + 1] /\ \A i \in 1..n : b[i] = p[i]
    BY <2>0, <2>2, AppendProperties
  <2> HIDE DEF b
  <2>4. \A i \in 1..(n + 1) : a[i] = b[i]
    <3>1. \A i \in 1..(n + 1) : i = n + 1 \/ i \in 1..n
      BY <2>0
    <3> QED
      BY <2>1, <2>2, <2>3, <3>1
  <2>5. a = b
    BY <2>1, <2>3, <2>4, SeqEqual
  <2> QED
    BY <2>5 DEF a, b, p
<1>3. SubSeq(s, 1, 0) = <<>>
  OBVIOUS
<1>4. SubSeq(s, 1, Len(s)) = s
  <2>1. Len(s) \in 0..Len(s)
    OBVIOUS
  <2> QED
    BY <1>1, <2>1, SeqEqual
<1> QED
  BY <1>1, <1>2, <1>3, <1>4

\* g[n] is what the first n records have of the channels C.
PicksOf(s, C, g) ==
    /\ g[0] = <<>>
    /\ Of(s, C) = g[Len(s)]
    /\ \A n \in 0..(Len(s) - 1) :
         g[n + 1] = IF s[n + 1].channel \in C THEN Append(g[n], s[n + 1]) ELSE g[n]
    /\ \A n \in 0..Len(s) : g[n] \in Seq(Record)

\* The records of some channels are picked record by record.
LEMMA OfRounds ==
    ASSUME NEW s \in Seq(Record), NEW C
    PROVE  \E g : PicksOf(s, C, g)
<1> DEFINE size == Len(s)
           Defines(f) == f = [n \in 0..size |-> IF n = 0 THEN <<>>
                                                ELSE IF s[n].channel \in C THEN Append(f[n - 1], s[n])
                                                ELSE f[n - 1]]
           R(n, x) == IF s[n].channel \in C THEN Append(x, s[n]) ELSE x
           step == [p \in (1..size) \X Seq(Record) |-> R(p[1], p[2])]
           g == CHOOSE f : Defines(f)
<1>1. size \in Nat /\ \A i \in 1..size : s[i] \in Record
  OBVIOUS
<1>2. step \in [(1..size) \X Seq(Record) -> Seq(Record)]
  <2> SUFFICES ASSUME NEW n \in 1..size, NEW x \in Seq(Record) PROVE R(n, x) \in Seq(Record)
    OBVIOUS
  <2>1. s[n] \in Record
    BY <1>1
  <2>2. Append(x, s[n]) \in Seq(Record)
    BY <2>1, AppendProperties
  <2> QED
    BY <2>2
<1>3. PICK f \in [0..size -> Seq(Record)] :
          f[0] = <<>> /\ \A i \in 0..(size - 1) : f[i + 1] = step[<<i + 1, f[i]>>]
  <2> HIDE DEF step, size
  <2>0. <<>> \in Seq(Record)
    OBVIOUS
  <2>1. \E f : IsLoop(f, Seq(Record), <<>>, size, step)
    BY <1>1, <1>2, <2>0, LoopHasStates
  <2> QED
    BY <2>1 DEF IsLoop
<1>4. \A i \in 0..(size - 1) : f[i + 1] = R(i + 1, f[i])
  <2> SUFFICES ASSUME NEW i \in 0..(size - 1) PROVE f[i + 1] = R(i + 1, f[i])
    OBVIOUS
  <2>1. <<i + 1, f[i]>> \in (1..size) \X Seq(Record)
    <3>1. i + 1 \in 1..size /\ i \in 0..size
      BY <1>1
    <3>2. f[i] \in Seq(Record)
      BY <3>1, Zenon
    <3> QED
      BY <3>1, <3>2, Zenon
  <2> HIDE DEF R
  <2>2. step[<<i + 1, f[i]>>] = R(i + 1, f[i])
    BY <2>1
  <2> QED
    BY <1>3, <2>2
<1>5. \A n \in 0..size : n = 0 \/ (n - 1 \in 0..(size - 1) /\ n - 1 + 1 = n)
  BY <1>1
<1>6. Of(s, C) = g[size]
  BY DEF Of, Promise!Of
<1> HIDE DEF size
<1>7. Defines(f)
  <2>1. \A n \in 0..size : f[n] = IF n = 0 THEN <<>> ELSE R(n, f[n - 1])
    <3> HIDE DEF R
    <3> SUFFICES ASSUME NEW n \in 0..size PROVE f[n] = IF n = 0 THEN <<>> ELSE R(n, f[n - 1])
      OBVIOUS
    <3>1. CASE n = 0
      BY <1>3, <3>1
    <3>2. CASE n # 0
      <4>1. n - 1 \in 0..(size - 1) /\ n - 1 + 1 = n
        BY <1>5, <3>2
      <4>2. f[n - 1 + 1] = R(n - 1 + 1, f[n - 1])
        BY <1>4, <4>1
      <4> QED
        BY <3>2, <4>1, <4>2
    <3> QED
      BY <3>1, <3>2
  <2>2. \A n \in 0..size : f[n] = IF n = 0 THEN <<>>
                                  ELSE IF s[n].channel \in C THEN Append(f[n - 1], s[n])
                                  ELSE f[n - 1]
    BY <2>1, Zenon
  <2> QED
    BY <2>2
<1>8. Defines(g)
  <2> HIDE DEF Defines
  <2> QED
    BY <1>7
<1> HIDE DEF g
<1>9. g[0] = <<>> /\ \A n \in 0..(size - 1) : g[n + 1] = R(n + 1, g[n])
  <2>1. \A m \in 0..size : g[m] = IF m = 0 THEN <<>>
                                  ELSE IF s[m].channel \in C THEN Append(g[m - 1], s[m])
                                  ELSE g[m - 1]
    BY <1>8, Zenon
  <2>4. \A m \in 0..size : g[m] = IF m = 0 THEN <<>> ELSE R(m, g[m - 1])
    BY <2>1, Zenon
  <2>2. \A n \in 0..(size - 1) : n + 1 \in 0..size /\ n + 1 # 0 /\ n + 1 - 1 = n
    BY <1>1
  <2>3. 0 \in 0..size
    BY <1>1
  <2> HIDE DEF R
  <2> QED
    BY <2>2, <2>3, <2>4
<1>10. \A n \in 0..size : g[n] \in Seq(Record)
  <2> DEFINE P == {n \in 0..size : g[n] \in Seq(Record)}
  <2>0. <<>> \in Seq(Record) /\ 0 \in 0..size
    BY <1>1
  <2>1. 0 \in P
    BY <1>9, <2>0
  <2>2. ASSUME NEW n \in 0..(size - 1), n \in P PROVE n + 1 \in P
    <3>1. n + 1 \in 1..size /\ n + 1 \in 0..size
      BY <1>1
    <3>2. s[n + 1] \in Record /\ g[n] \in Seq(Record)
      BY <1>1, <2>2, <3>1
    <3>3. Append(g[n], s[n + 1]) \in Seq(Record)
      BY <3>2, AppendProperties
    <3>4. g[n + 1] \in Seq(Record)
      BY <1>9, <3>2, <3>3
    <3> QED
      BY <3>1, <3>4
  <2>3. \A n \in 0..size : n \in P
    <3> HIDE DEF P
    <3> QED
      BY <1>1, <2>1, <2>2, LoopInvariant
  <2> QED
    BY <2>3
<1>11. PicksOf(s, C, g)
  BY <1>6, <1>9, <1>10 DEF PicksOf, size
<1> QED
  BY <1>11

\* One record more.
LEMMA OfStep ==
    ASSUME NEW s \in Seq(Record), NEW r \in Record, NEW C
    PROVE  Of(Append(s, r), C) = IF r.channel \in C THEN Append(Of(s, C), r) ELSE Of(s, C)
<1> DEFINE t == Append(s, r)
           size == Len(s)
<1>1. /\ size \in Nat /\ t \in Seq(Record) /\ Len(t) = size + 1 /\ t[size + 1] = r
      /\ \A i \in 1..size : t[i] = s[i]
  BY AppendProperties
<1>10. t \in Seq(Record)
  BY <1>1
<1>11. PICK f : PicksOf(s, C, f)
  BY OfRounds
<1>2. /\ f[0] = <<>> /\ Of(s, C) = f[size]
      /\ \A n \in 0..(size - 1) :
           f[n + 1] = IF s[n + 1].channel \in C THEN Append(f[n], s[n + 1]) ELSE f[n]
  BY <1>11, Zenon DEF PicksOf
<1> HIDE DEF t, size
<1>12. PICK g : PicksOf(t, C, g)
  BY <1>10, OfRounds
<1>3. /\ g[0] = <<>> /\ Of(t, C) = g[Len(t)]
      /\ \A n \in 0..(Len(t) - 1) :
           g[n + 1] = IF t[n + 1].channel \in C THEN Append(g[n], t[n + 1]) ELSE g[n]
  BY <1>12, Zenon DEF PicksOf
<1> DEFINE P == {n \in 0..size : f[n] = g[n]}
<1>4. 0 \in P
  BY <1>1, <1>2, <1>3
<1>5. ASSUME NEW n \in 0..(size - 1), n \in P PROVE n + 1 \in P
  <2>1. n + 1 \in 1..size /\ n + 1 \in 0..size /\ n \in 0..(Len(t) - 1)
    BY <1>1
  <2>2. f[n] = g[n] /\ s[n + 1] = t[n + 1]
    BY <1>1, <1>5, <2>1
  <2>3. f[n + 1] = IF s[n + 1].channel \in C THEN Append(f[n], s[n + 1]) ELSE f[n]
    BY <1>2
  <2>4. g[n + 1] = IF t[n + 1].channel \in C THEN Append(g[n], t[n + 1]) ELSE g[n]
    BY <1>3, <2>1
  <2>5. f[n + 1] = g[n + 1]
    BY <2>2, <2>3, <2>4, Zenon
  <2> QED
    BY <2>1, <2>5
<1>6. \A n \in 0..size : n \in P
  <2> HIDE DEF P
  <2> QED
    BY <1>1, <1>4, <1>5, LoopInvariant
<1>7. f[size] = g[size]
  BY <1>1, <1>6
<1>8. size \in 0..(Len(t) - 1)
  BY <1>1
<1>9. Of(t, C) = IF r.channel \in C THEN Append(g[size], r) ELSE g[size]
  <2>1. g[size + 1] = IF t[size + 1].channel \in C THEN Append(g[size], t[size + 1]) ELSE g[size]
    BY <1>3, <1>8
  <2>2. Of(t, C) = g[size + 1] /\ t[size + 1] = r
    BY <1>1, <1>3
  <2> QED
    BY <2>1, <2>2, Zenon
<1> QED
  <2>1. Of(s, C) = g[size]
    BY <1>2, <1>7
  <2> QED
    BY <1>9, <2>1 DEF t

\* Induction over the sequences of records, for a property that a set expresses.
LEMMA RecordsFromNone ==
    ASSUME NEW P, <<>> \in P, \A s \in Seq(Record), r \in Record : s \in P => Append(s, r) \in P
    PROVE  Seq(Record) \subseteq P
<1> SUFFICES ASSUME NEW s \in Seq(Record) PROVE s \in P
  OBVIOUS
<1> DEFINE N == {n \in 0..Len(s) : SubSeq(s, 1, n) \in P}
<1>1. 0 \in N
  <2>1. SubSeq(s, 1, 0) = <<>> /\ 0 \in 0..Len(s)
    BY PrefixGrows
  <2> QED
    BY <2>1
<1>2. ASSUME NEW n \in 0..(Len(s) - 1), n \in N PROVE n + 1 \in N
  <2>1. n + 1 \in 0..Len(s) /\ n \in 0..Len(s) /\ s[n + 1] \in Record
    OBVIOUS
  <2>2. SubSeq(s, 1, n) \in Seq(Record) /\ SubSeq(s, 1, n + 1) = Append(SubSeq(s, 1, n), s[n + 1])
    BY <2>1, PrefixGrows
  <2>3. SubSeq(s, 1, n + 1) \in P
    BY <1>2, <2>1, <2>2
  <2> QED
    BY <2>1, <2>3
<1>3. \A n \in 0..Len(s) : n \in N
  <2>1. Len(s) \in Nat
    OBVIOUS
  <2> HIDE DEF N
  <2> QED
    BY <1>1, <1>2, <2>1, LoopInvariant
<1>4. Len(s) \in N
  BY <1>3
<1> QED
  BY <1>4, PrefixGrows

\* No records take no bytes, and none of them is of any channel.
LEMMA NoRecords ==
    /\ <<>> \in Seq(Record) /\ Len(<<>>) = 0 /\ TotalSize(<<>>) = 0
    /\ \A C : Of(<<>>, C) = <<>>
<1>1. <<>> \in Seq(Record) /\ Len(<<>>) = 0
  OBVIOUS
<1>2. TotalSize(<<>>) = 0
  BY <1>1, EndsRounds
<1>3. ASSUME NEW C PROVE Of(<<>>, C) = <<>>
  <2>1. PICK g : PicksOf(<<>>, C, g)
    BY <1>1, OfRounds
  <2> QED
    BY <1>1, <2>1 DEF PicksOf
<1> QED
  BY <1>1, <1>2, <1>3

\* One record more takes the room of that record.
LEMMA TotalStep ==
    ASSUME NEW s \in Seq(Record), NEW r \in Record
    PROVE  /\ TotalSize(Append(s, r)) = TotalSize(s) + SizeOf(r)
           /\ \A i \in 0..Len(s) : Ends(Append(s, r))[i] = Ends(s)[i]
<1> DEFINE t == Append(s, r)
           size == Len(s)
<1>1. /\ size \in Nat /\ t \in Seq(Record) /\ Len(t) = size + 1 /\ t[size + 1] = r
      /\ \A i \in 1..size : t[i] = s[i]
  BY AppendProperties
<1>2. TotalSize(s) = Ends(s)[size] /\ Ends(s)[0] = 0 /\ \A i \in 0..size : Ends(s)[i] \in Nat
  BY EndsRounds
<1> HIDE DEF t
<1>3. /\ TotalSize(t) = Ends(t)[Len(t)] /\ Ends(t)[0] = 0 /\ \A i \in 0..Len(t) : Ends(t)[i] \in Nat
      /\ \A n \in 0..(Len(t) - 1) : Ends(t)[n + 1] = Ends(t)[n] + SizeOf(t[n + 1])
  BY <1>1, EndsRounds
<1>4. ASSUME NEW i \in 0..size PROVE Ends(t)[i] = Ends(s)[i]
  <2>1. PICK z \in Nat : z = 0
    OBVIOUS
  <2>2. size \in Nat /\ z + size <= Len(t) /\ z + size <= Len(s)
    BY <1>1, <2>1
  <2>3. \A n \in 1..size : t[z + n] = s[z + n]
    BY <1>1, <2>1
  <2>4. t \in Seq(Record) /\ s \in Seq(Record)
    BY <1>1
  <2>9. Alike(t, z, s, z, size)
    BY <2>2, <2>3 DEF Alike
  <2>5. \A n \in 0..size : Ends(t)[z + n] - Ends(t)[z] = Ends(s)[z + n] - Ends(s)[z]
    <3>1. EndsAlike(t, z, s, z, size)
      <4> HIDE DEF size
      <4> QED
        BY <2>2, <2>4, <2>9, EndsShift
    <3> QED
      BY <3>1 DEF EndsAlike
  <2>6. i \in 0..Len(t) /\ z + i = i
    BY <1>1, <2>1
  <2>7. Ends(t)[i] \in Nat /\ Ends(s)[i] \in Nat
    BY <1>2, <1>3, <2>6
  <2>8. Ends(t)[i] - 0 = Ends(s)[i] - 0
    BY <1>2, <1>3, <2>1, <2>5, <2>6
  <2> QED
    BY <2>7, <2>8
<1>5. TotalSize(t) = TotalSize(s) + SizeOf(r)
  <2>1. size \in 0..(Len(t) - 1) /\ size \in 0..size
    BY <1>1
  <2>2. Ends(t)[size + 1] = Ends(t)[size] + SizeOf(t[size + 1])
    BY <1>3, <2>1
  <2>3. Ends(t)[size] = Ends(s)[size]
    BY <1>4, <2>1
  <2> QED
    BY <1>1, <1>2, <1>3, <2>2, <2>3
<1> QED
  BY <1>4, <1>5 DEF t

\* The numbers of the records grow along a queue.
Rising(s) == \A i, j \in 1..Len(s) : i < j => s[i].stamp < s[j].stamp

\* The records of some channels are among the records and in their order.
LEMMA OfIsPart ==
    ASSUME NEW s \in Seq(Record), NEW C
    PROVE  /\ Of(s, C) \in Seq(Record)
           /\ \A i \in 1..Len(Of(s, C)) :
                \E j \in 1..Len(s) : Of(s, C)[i] = s[j] /\ s[j].channel \in C
           /\ Rising(s) => Rising(Of(s, C))
<1> DEFINE Among(x, y) == \A i \in 1..Len(y) : \E j \in 1..Len(x) : y[i] = x[j] /\ x[j].channel \in C
           P == {x \in Seq(Record) : /\ Of(x, C) \in Seq(Record)
                                     /\ Among(x, Of(x, C))
                                     /\ Rising(x) => Rising(Of(x, C))}
<1>1. <<>> \in P
  <2>1. \A i \in 1..Len(<<>>) : FALSE
    OBVIOUS
  <2>2. Among(<<>>, <<>>) /\ Rising(<<>>)
    BY <2>1 DEF Rising
  <2> QED
    BY <2>2, NoRecords
<1>2. ASSUME NEW x \in Seq(Record), NEW r \in Record, x \in P PROVE Append(x, r) \in P
  <2> DEFINE y == Of(x, C)
             a == Append(x, r)
             b == Append(y, r)
  <2>1. y \in Seq(Record) /\ Among(x, y) /\ (Rising(x) => Rising(y))
    BY <1>2
  <2>2. Of(a, C) = IF r.channel \in C THEN b ELSE y
    BY OfStep
  <2> HIDE DEF y
  <2>3. /\ a \in Seq(Record) /\ Len(a) = Len(x) + 1 /\ a[Len(x) + 1] = r
        /\ \A i \in 1..Len(x) : a[i] = x[i]
    BY AppendProperties
  <2>4. /\ b \in Seq(Record) /\ Len(b) = Len(y) + 1 /\ b[Len(y) + 1] = r
        /\ \A i \in 1..Len(y) : b[i] = y[i]
    BY <2>1, AppendProperties
  <2> HIDE DEF a, b
  <2>5. Len(x) \in Nat /\ Len(y) \in Nat
    BY <2>1
  <2>6. \A i \in 1..Len(y) : \E j \in 1..Len(a) : y[i] = a[j] /\ a[j].channel \in C
    <3> SUFFICES ASSUME NEW i \in 1..Len(y) PROVE \E j \in 1..Len(a) : y[i] = a[j] /\ a[j].channel \in C
      OBVIOUS
    <3>1. PICK j \in 1..Len(x) : y[i] = x[j] /\ x[j].channel \in C
      BY <2>1
    <3>2. j \in 1..Len(a) /\ a[j] = x[j]
      BY <2>3, <2>5
    <3> QED
      BY <3>1, <3>2
  <2>7. Rising(a) => Rising(x)
    <3> SUFFICES ASSUME Rising(a), NEW i \in 1..Len(x), NEW j \in 1..Len(x), i < j
                 PROVE  x[i].stamp < x[j].stamp
      BY DEF Rising
    <3>1. i \in 1..Len(a) /\ j \in 1..Len(a) /\ a[i] = x[i] /\ a[j] = x[j]
      BY <2>3, <2>5
    <3>2. a[i].stamp < a[j].stamp
      BY <3>1 DEF Rising
    <3> QED
      BY <3>1, <3>2
  <2>8. CASE r.channel \notin C
    <3>1. Of(a, C) = y
      BY <2>2, <2>8
    <3>2. Among(a, y)
      BY <2>6
    <3> QED
      BY <2>1, <2>3, <2>7, <3>1, <3>2 DEF a
  <2>9. CASE r.channel \in C
    <3>1. Of(a, C) = b
      BY <2>2, <2>9
    <3>2. Among(a, b)
      <4> SUFFICES ASSUME NEW i \in 1..Len(b) PROVE \E j \in 1..Len(a) : b[i] = a[j] /\ a[j].channel \in C
        OBVIOUS
      <4>1. CASE i \in 1..Len(y)
        BY <2>4, <2>6, <4>1
      <4>2. CASE i = Len(y) + 1
        <5>1. Len(x) + 1 \in 1..Len(a) /\ b[i] = r /\ a[Len(x) + 1] = r
          BY <2>3, <2>4, <2>5, <4>2
        <5> QED
          BY <2>9, <5>1
      <4> QED
        BY <2>4, <2>5, <4>1, <4>2
    <3>3. ASSUME Rising(a) PROVE Rising(b)
      <4>1. Rising(y)
        BY <2>1, <2>7, <3>3
      <4> SUFFICES ASSUME NEW i \in 1..Len(b), NEW j \in 1..Len(b), i < j PROVE b[i].stamp < b[j].stamp
        BY DEF Rising
      <4>2. i \in 1..Len(y) /\ b[i] = y[i]
        BY <2>4, <2>5
      <4>3. CASE j \in 1..Len(y)
        <5>1. y[i].stamp < y[j].stamp
          BY <4>1, <4>2, <4>3 DEF Rising
        <5>2. b[j] = y[j]
          BY <2>4, <4>3
        <5> QED
          BY <4>2, <5>1, <5>2
      <4>4. CASE j = Len(y) + 1
        <5>1. PICK m \in 1..Len(x) : y[i] = x[m]
          BY <2>1, <4>2
        <5>2. m \in 1..Len(a) /\ Len(x) + 1 \in 1..Len(a) /\ m < Len(x) + 1 /\ a[m] = x[m]
          BY <2>3, <2>5
        <5>3. a[m].stamp < a[Len(x) + 1].stamp
          BY <3>3, <5>2 DEF Rising
        <5>4. b[j] = r /\ a[Len(x) + 1] = r
          BY <2>3, <2>4, <4>4
        <5> QED
          BY <4>2, <5>1, <5>2, <5>3, <5>4
      <4>5. j \in 1..Len(y) \/ j = Len(y) + 1
        BY <2>4, <2>5
      <4> QED
        BY <4>3, <4>4, <4>5
    <3>4. a \in P
      <4> HIDE DEF Among
      <4> QED
        BY <2>3, <2>4, <3>1, <3>2, <3>3
    <3> QED
      BY <3>4 DEF a
  <2> QED
    BY <2>8, <2>9
<1>3. s \in P
  <2> HIDE DEF P
  <2> QED
    BY <1>1, <1>2, RecordsFromNone
<1> QED
  BY <1>3

\* What is not of some channels is of the others.
LEMMA OfBoth ==
    ASSUME NEW s \in Seq(Record), NEW C, NEW D,
           \A r \in Record : r.channel \in C <=> r.channel \notin D
    PROVE  /\ Len(Of(s, C)) + Len(Of(s, D)) = Len(s)
           /\ TotalSize(Of(s, C)) + TotalSize(Of(s, D)) = TotalSize(s)
<1> DEFINE P == {x \in Seq(Record) : /\ Len(Of(x, C)) + Len(Of(x, D)) = Len(x)
                                     /\ TotalSize(Of(x, C)) + TotalSize(Of(x, D)) = TotalSize(x)}
<1>1. <<>> \in P
  BY NoRecords
<1>2. ASSUME NEW x \in Seq(Record), NEW r \in Record, x \in P PROVE Append(x, r) \in P
  <2> DEFINE y == Of(x, C)
             z == Of(x, D)
             a == Append(x, r)
  <2>1. y \in Seq(Record) /\ z \in Seq(Record)
    BY OfIsPart
  <2>2. Len(y) + Len(z) = Len(x) /\ TotalSize(y) + TotalSize(z) = TotalSize(x)
    BY <1>2
  <2>3. /\ Of(a, C) = IF r.channel \in C THEN Append(y, r) ELSE y
        /\ Of(a, D) = IF r.channel \in D THEN Append(z, r) ELSE z
    BY OfStep
  <2> HIDE DEF y, z
  <2>4. /\ a \in Seq(Record) /\ Len(a) = Len(x) + 1
        /\ TotalSize(a) = TotalSize(x) + SizeOf(r)
    BY AppendProperties, TotalStep
  <2>5. /\ Len(Append(y, r)) = Len(y) + 1 /\ Len(Append(z, r)) = Len(z) + 1
        /\ TotalSize(Append(y, r)) = TotalSize(y) + SizeOf(r)
        /\ TotalSize(Append(z, r)) = TotalSize(z) + SizeOf(r)
    BY <2>1, AppendProperties, TotalStep
  <2>6. /\ Len(x) \in Nat /\ Len(y) \in Nat /\ Len(z) \in Nat
        /\ TotalSize(x) \in Nat /\ TotalSize(y) \in Nat /\ TotalSize(z) \in Nat /\ SizeOf(r) \in Nat
    <3>1. Len(x) \in Nat /\ Len(y) \in Nat /\ Len(z) \in Nat
      BY <2>1
    <3>2. \A u \in Seq(Record) : TotalSize(u) \in Nat
      BY EndsRounds
    <3>3. SizeOf(r) \in Nat
      BY SizesOfRecords
    <3> QED
      BY <2>1, <3>1, <3>2, <3>3
  <2> HIDE DEF a
  <2>7. CASE r.channel \in C
    <3>1. Of(a, C) = Append(y, r) /\ Of(a, D) = z
      BY <2>3, <2>7
    <3>2. /\ Len(Of(a, C)) + Len(Of(a, D)) = Len(a)
          /\ TotalSize(Of(a, C)) + TotalSize(Of(a, D)) = TotalSize(a)
      BY <2>2, <2>4, <2>5, <2>6, <3>1
    <3> QED
      BY <2>4, <3>2 DEF a
  <2>8. CASE r.channel \notin C
    <3>1. Of(a, C) = y /\ Of(a, D) = Append(z, r)
      BY <2>3, <2>8
    <3>2. /\ Len(Of(a, C)) + Len(Of(a, D)) = Len(a)
          /\ TotalSize(Of(a, C)) + TotalSize(Of(a, D)) = TotalSize(a)
      BY <2>2, <2>4, <2>5, <2>6, <3>1
    <3> QED
      BY <2>4, <3>2 DEF a
  <2> QED
    BY <2>7, <2>8
<1>3. s \in P
  <2> HIDE DEF P
  <2> QED
    BY <1>1, <1>2, RecordsFromNone
<1> QED
  BY <1>3

-----------------------------------------------------------------------------
(* Records that lie in cells, one after the other                           *)

\* From place p on f holds the header of r and its data, or the records s one
\* after the other.
RecordLies(f, p, r) ==
    f[p] = r.channel /\ f[p + 1] = r.length /\ \A j \in 2..(1 + r.length) : f[p + j] = r.stamp
Lies(f, p, s) == \A i \in 1..Len(s) : RecordLies(f, p + Ends(s)[i - 1], s[i])

\* The sizes of a part of a sequence.
EndsInside(s, k, t) == \A i \in 0..Len(t) : Ends(s)[k + i] = Ends(s)[k] + Ends(t)[i]

\* The entries of s after the k-th are those of t: t ends where they end.
LEMMA EndsOfPart ==
    ASSUME NEW s \in Seq(Record), NEW t \in Seq(Record), NEW k \in Nat,
           k + Len(t) <= Len(s), \A i \in 1..Len(t) : s[k + i] = t[i]
    PROVE  EndsInside(s, k, t)
<1>1. PICK z \in Nat : z = 0
  OBVIOUS
<1>2. Len(t) \in Nat /\ Len(s) \in Nat
  OBVIOUS
<1>3. Alike(s, k, t, z, Len(t))
  BY <1>1, <1>2 DEF Alike
<1>4. EndsAlike(s, k, t, z, Len(t))
  BY <1>2, <1>3, EndsShift
<1> SUFFICES ASSUME NEW i \in 0..Len(t) PROVE Ends(s)[k + i] = Ends(s)[k] + Ends(t)[i]
  BY DEF EndsInside
<1>5. Ends(s)[k + i] - Ends(s)[k] = Ends(t)[z + i] - Ends(t)[z]
  BY <1>4 DEF EndsAlike
<1>6. k + i \in 0..Len(s) /\ k \in 0..Len(s) /\ z + i = i
  BY <1>1, <1>2
<1>7. Ends(s)[k + i] \in Nat /\ Ends(s)[k] \in Nat /\ Ends(t)[i] \in Nat /\ Ends(t)[z] = 0
  BY <1>1, <1>6, EndsRounds
<1> DEFINE a == Ends(s)[k + i]
           b == Ends(s)[k]
           c == Ends(t)[i]
<1>8. a \in Nat /\ b \in Nat /\ c \in Nat /\ a - b = c - 0
  BY <1>5, <1>6, <1>7
<1>9. a = b + c
  <2> HIDE DEF a, b, c
  <2> QED
    BY <1>8
<1> QED
  BY <1>9

\* The first records of a sequence, and the rest.
Rest(s, k) == SubSeq(s, k + 1, Len(s))

\* The entries after the first k, and where they are found.
LEMMA RestIs ==
    ASSUME NEW S, NEW s \in Seq(S), NEW k \in 0..Len(s)
    PROVE  /\ Rest(s, k) \in Seq(S) /\ Len(Rest(s, k)) = Len(s) - k
           /\ \A i \in 1..(Len(s) - k) : Rest(s, k)[i] = s[k + i] /\ k + i \in 1..Len(s)
<1>1. k + 1 \in Int /\ Len(s) \in Int /\ \A i \in (k + 1)..Len(s) : s[i] \in S
  OBVIOUS
<1>2. /\ Rest(s, k) \in Seq(S)
      /\ Len(Rest(s, k)) = IF k + 1 <= Len(s) THEN Len(s) - (k + 1) + 1 ELSE 0
      /\ \A i \in 1..(Len(s) - (k + 1) + 1) : Rest(s, k)[i] = s[(k + 1) + i - 1]
  BY <1>1, SubSeqProperties DEF Rest
<1>3. Len(Rest(s, k)) = Len(s) - k
  BY <1>1, <1>2
<1>4. \A i \in 1..(Len(s) - k) : (k + 1) + i - 1 = k + i /\ i \in 1..(Len(s) - (k + 1) + 1) /\ k + i \in 1..Len(s)
  BY <1>1
<1> QED
  BY <1>2, <1>3, <1>4

\* The first k records take the bytes up to the end of the k-th.
LEMMA TotalOfFirst ==
    ASSUME NEW s \in Seq(Record), NEW k \in 0..Len(s)
    PROVE  TotalSize(SubSeq(s, 1, k)) = Ends(s)[k]
<1> DEFINE a == SubSeq(s, 1, k)
<1>1. a \in Seq(Record) /\ Len(a) = k /\ \A i \in 1..k : a[i] = s[i]
  BY PrefixGrows
<1>2. k \in Nat /\ Len(s) \in Nat
  OBVIOUS
<1> HIDE DEF a
<1>3. PICK z \in Nat : z = 0
  OBVIOUS
<1>4. z + Len(a) <= Len(s) /\ \A i \in 1..Len(a) : s[z + i] = a[i]
  BY <1>1, <1>2, <1>3
<1>5. EndsInside(s, z, a)
  BY <1>1, <1>4, EndsOfPart
<1>6. Ends(s)[z + k] = Ends(s)[z] + Ends(a)[k]
  BY <1>1, <1>2, <1>5 DEF EndsInside
<1>7. TotalSize(a) = Ends(a)[k] /\ TotalSize(a) \in Nat /\ Ends(s)[0] = 0
  BY <1>1, EndsRounds
<1> QED
  BY <1>2, <1>3, <1>6, <1>7 DEF a

\* The other records take the bytes that are left.
LEMMA TotalOfRest ==
    ASSUME NEW s \in Seq(Record), NEW k \in 0..Len(s)
    PROVE  /\ EndsInside(s, k, Rest(s, k))
           /\ TotalSize(s) = Ends(s)[k] + TotalSize(Rest(s, k))
<1> DEFINE b == Rest(s, k)
<1>1. b \in Seq(Record) /\ Len(b) = Len(s) - k /\ \A i \in 1..(Len(s) - k) : b[i] = s[k + i]
  BY RestIs
<1>2. k \in Nat /\ Len(s) \in Nat
  OBVIOUS
<1> HIDE DEF b
<1>3. EndsInside(s, k, b)
  <2>1. k + Len(b) <= Len(s) /\ \A i \in 1..Len(b) : s[k + i] = b[i]
    BY <1>1, <1>2
  <2>2. b \in Seq(Record)
    BY <1>1
  <2> QED
    BY <1>2, <2>1, <2>2, EndsOfPart
<1>4. Len(b) \in 0..Len(b) /\ k + Len(b) = Len(s)
  BY <1>1, <1>2
<1>5. Ends(s)[Len(s)] = Ends(s)[k] + Ends(b)[Len(b)]
  BY <1>3, <1>4 DEF EndsInside
<1>6. TotalSize(s) = Ends(s)[Len(s)] /\ TotalSize(b) = Ends(b)[Len(b)]
  BY <1>1, EndsRounds
<1> QED
  BY <1>3, <1>5, <1>6 DEF b

\* Two sequences of records together take the bytes of both.
LEMMA TotalOfBoth ==
    ASSUME NEW a \in Seq(Record), NEW b \in Seq(Record)
    PROVE  /\ a \o b \in Seq(Record) /\ Len(a \o b) = Len(a) + Len(b)
           /\ \A i \in 1..Len(a) : (a \o b)[i] = a[i]
           /\ \A i \in 1..Len(b) : (a \o b)[Len(a) + i] = b[i]
           /\ TotalSize(a \o b) = TotalSize(a) + TotalSize(b)
           /\ EndsInside(a \o b, 0, a) /\ EndsInside(a \o b, Len(a), b)
<1> DEFINE c == a \o b
<1>0. Len(a) \in Nat /\ Len(b) \in Nat
  OBVIOUS
<1>1. /\ c \in Seq(Record) /\ Len(c) = Len(a) + Len(b)
      /\ \A i \in 1..(Len(a) + Len(b)) : c[i] = IF i <= Len(a) THEN a[i] ELSE b[i - Len(a)]
  BY ConcatProperties
<1> HIDE DEF c
<1>2. \A i \in 1..Len(a) : c[i] = a[i]
  BY <1>0, <1>1
<1>3. \A i \in 1..Len(b) : c[Len(a) + i] = b[i]
  <2> SUFFICES ASSUME NEW i \in 1..Len(b) PROVE c[Len(a) + i] = b[i]
    OBVIOUS
  <2>1. Len(a) + i \in 1..(Len(a) + Len(b)) /\ ~(Len(a) + i <= Len(a)) /\ Len(a) + i - Len(a) = i
    BY <1>0
  <2> QED
    BY <1>1, <2>1
<1>4. EndsInside(c, Len(a), b)
  <2>1. Len(a) + Len(b) <= Len(c)
    BY <1>0, <1>1
  <2> QED
    BY <1>0, <1>1, <1>3, <2>1, EndsOfPart
<1>5. PICK z \in Nat : z = 0
  OBVIOUS
<1>6. EndsInside(c, z, a)
  <2>1. z + Len(a) <= Len(c) /\ \A i \in 1..Len(a) : c[z + i] = a[i]
    BY <1>0, <1>1, <1>2, <1>5
  <2> QED
    BY <1>1, <2>1, EndsOfPart
<1>7. TotalSize(c) = TotalSize(a) + TotalSize(b)
  <2>1. Len(a) \in 0..Len(a) /\ Len(b) \in 0..Len(b)
    BY <1>0
  <2>2. Ends(c)[z + Len(a)] = Ends(c)[z] + Ends(a)[Len(a)]
    BY <1>6, <2>1 DEF EndsInside
  <2>3. Ends(c)[Len(a) + Len(b)] = Ends(c)[Len(a)] + Ends(b)[Len(b)]
    BY <1>4, <2>1 DEF EndsInside
  <2>4. Ends(c)[0] = 0 /\ TotalSize(c) = Ends(c)[Len(c)]
    BY <1>1, EndsRounds
  <2>5. TotalSize(a) = Ends(a)[Len(a)] /\ TotalSize(b) = Ends(b)[Len(b)] /\ TotalSize(a) \in Nat
    BY EndsRounds
  <2>6. z + Len(a) = Len(a)
    BY <1>0, <1>5
  <2> QED
    BY <1>1, <1>5, <2>2, <2>3, <2>4, <2>5, <2>6
<1> QED
  BY <1>1, <1>2, <1>3, <1>4, <1>5, <1>6, <1>7 DEF c

\* The same cells elsewhere.
SameCells(f, p, g, d, size) == \A i \in 0..(size - 1) : g[d + i] = f[p + i]

\* Records lie where their cells are copied to.
LEMMA LiesMoved ==
    ASSUME NEW s \in Seq(Record), NEW f, NEW p \in Nat, NEW g, NEW d \in Nat,
           Lies(f, p, s), SameCells(f, p, g, d, TotalSize(s))
    PROVE  Lies(g, d, s)
<1> SUFFICES ASSUME NEW i \in 1..Len(s) PROVE RecordLies(g, d + Ends(s)[i - 1], s[i])
  BY DEF Lies
<1> DEFINE e == Ends(s)[i - 1]
           n == s[i].length
<1>1. RecordLies(f, p + e, s[i])
  BY DEF Lies
<1>2. s[i] \in Record /\ i - 1 \in 0..(Len(s) - 1) /\ i - 1 + 1 = i /\ i \in 0..Len(s)
  OBVIOUS
<1>3. n \in Nat \ {0} /\ SizeOf(s[i]) = 2 + n
  BY <1>2, SizesOfRecords
<1>4. e \in Nat /\ Ends(s)[i] = e + SizeOf(s[i])
  <2>1. Ends(s)[i - 1 + 1] = e + SizeOf(s[i - 1 + 1])
    BY <1>2, EndsRounds
  <2>2. e \in Nat
    BY <1>2, EndsRounds
  <2> QED
    BY <1>2, <2>1, <2>2
<1>5. Ends(s)[i] <= TotalSize(s) /\ Ends(s)[i] \in Nat /\ TotalSize(s) \in Nat
  <2>1. Len(s) \in i..Len(s) /\ Len(s) - i \in Nat
    OBVIOUS
  <2>2. Ends(s)[i] + 3 * (Len(s) - i) <= Ends(s)[Len(s)]
    BY <1>2, <2>1, EndsGrow
  <2>3. Ends(s)[i] \in Nat /\ TotalSize(s) \in Nat /\ TotalSize(s) = Ends(s)[Len(s)]
    BY <1>2, EndsRounds
  <2> QED
    BY <2>1, <2>2, <2>3
<1>6. ASSUME NEW j \in 0..(1 + n) PROVE g[(d + e) + j] = f[(p + e) + j]
  <2> HIDE DEF e, n
  <2>1. e + j \in 0..(TotalSize(s) - 1) /\ d + (e + j) = (d + e) + j /\ p + (e + j) = (p + e) + j
    BY <1>3, <1>4, <1>5
  <2>2. g[d + (e + j)] = f[p + (e + j)]
    BY <2>1 DEF SameCells
  <2> QED
    BY <2>1, <2>2
<1>7. /\ 0 \in 0..(1 + n) /\ 1 \in 0..(1 + n) /\ \A j \in 2..(1 + n) : j \in 0..(1 + n)
      /\ (d + e) + 0 = d + e /\ (p + e) + 0 = p + e
  BY <1>3, <1>4
<1>8. g[d + e] = f[p + e] /\ g[(d + e) + 1] = f[(p + e) + 1]
      /\ \A j \in 2..(1 + n) : g[(d + e) + j] = f[(p + e) + j]
  <2> HIDE DEF e, n
  <2>1. g[(d + e) + 0] = f[(p + e) + 0]
    BY <1>6, <1>7
  <2> QED
    BY <1>6, <1>7, <2>1
<1> QED
  <2> HIDE DEF e
  <2>1. RecordLies(g, d + e, s[i])
    BY <1>1, <1>8 DEF RecordLies
  <2> QED
    BY <2>1 DEF e

\* One record more lies behind those that lie there.
LEMMA LiesFirst ==
    ASSUME NEW s \in Seq(Record), NEW r \in Record, NEW f, NEW p \in Nat
    PROVE  Lies(f, p, Append(s, r)) <=> Lies(f, p, s) /\ RecordLies(f, p + TotalSize(s), r)
<1> DEFINE t == Append(s, r)
<1>1. /\ Len(s) \in Nat /\ Len(t) = Len(s) + 1 /\ t[Len(s) + 1] = r
      /\ \A i \in 1..Len(s) : t[i] = s[i]
  BY AppendProperties
<1>2. \A i \in 0..Len(s) : Ends(t)[i] = Ends(s)[i]
  BY TotalStep
<1>3. TotalSize(s) = Ends(s)[Len(s)]
  BY EndsRounds
<1> HIDE DEF t
<1>4. \A i \in 1..Len(s) : /\ i - 1 \in 0..Len(s) /\ i \in 1..Len(t)
                           /\ Ends(t)[i - 1] = Ends(s)[i - 1] /\ t[i] = s[i]
  BY <1>1, <1>2
<1>5. /\ Len(s) + 1 - 1 = Len(s) /\ Len(s) + 1 \in 1..Len(t) /\ Ends(t)[Len(s)] = TotalSize(s)
      /\ Len(s) \in 0..Len(s)
  BY <1>1, <1>2, <1>3
<1>6. ASSUME Lies(f, p, t) PROVE Lies(f, p, s) /\ RecordLies(f, p + TotalSize(s), r)
  <2>1. RecordLies(f, p + Ends(t)[Len(s) + 1 - 1], t[Len(s) + 1])
    BY <1>5, <1>6 DEF Lies
  <2>2. RecordLies(f, p + TotalSize(s), r)
    BY <1>1, <1>5, <2>1
  <2>3. Lies(f, p, s)
    BY <1>4, <1>6 DEF Lies
  <2> QED
    BY <2>2, <2>3
<1>7. ASSUME Lies(f, p, s), RecordLies(f, p + TotalSize(s), r) PROVE Lies(f, p, t)
  <2> SUFFICES ASSUME NEW i \in 1..Len(t) PROVE RecordLies(f, p + Ends(t)[i - 1], t[i])
    BY DEF Lies
  <2>1. CASE i \in 1..Len(s)
    <3>1. RecordLies(f, p + Ends(s)[i - 1], s[i])
      BY <1>7, <2>1 DEF Lies
    <3> QED
      BY <1>4, <2>1, <3>1
  <2>2. CASE i = Len(s) + 1
    BY <1>1, <1>5, <1>7, <2>2
  <2>3. i \in 1..Len(s) \/ i = Len(s) + 1
    BY <1>1
  <2> QED
    BY <2>1, <2>2, <2>3
<1> QED
  BY <1>6, <1>7 DEF t

\* The records after the first k lie where the k-th ends.
LEMMA LiesRest ==
    ASSUME NEW s \in Seq(Record), NEW k \in 0..Len(s), NEW f, NEW p \in Nat, Lies(f, p, s)
    PROVE  Lies(f, p + Ends(s)[k], Rest(s, k))
<1> DEFINE b == Rest(s, k)
<1>1. /\ b \in Seq(Record) /\ Len(b) = Len(s) - k
      /\ \A i \in 1..(Len(s) - k) : b[i] = s[k + i] /\ k + i \in 1..Len(s)
  BY RestIs
<1>2. EndsInside(s, k, b)
  BY TotalOfRest
<1> HIDE DEF b
<1> SUFFICES ASSUME NEW i \in 1..Len(b) PROVE RecordLies(f, (p + Ends(s)[k]) + Ends(b)[i - 1], b[i])
  BY DEF Lies, b
<1>3. /\ i - 1 \in 0..Len(b) /\ i - 1 \in 0..(Len(b) - 1) /\ (k + i) - 1 = k + (i - 1)
      /\ i \in 1..(Len(s) - k) /\ k + i \in 1..Len(s)
  BY <1>1
<1>4. RecordLies(f, p + Ends(s)[(k + i) - 1], s[k + i])
  BY <1>3 DEF Lies
<1>5. Ends(s)[k + (i - 1)] = Ends(s)[k] + Ends(b)[i - 1]
  BY <1>2, <1>3 DEF EndsInside
<1>6. Ends(s)[k] \in Nat /\ Ends(b)[i - 1] \in Nat
  BY <1>1, <1>3, EndsRounds
<1>7. p + (Ends(s)[k] + Ends(b)[i - 1]) = (p + Ends(s)[k]) + Ends(b)[i - 1]
  BY <1>6
<1> QED
  BY <1>1, <1>3, <1>4, <1>5, <1>7

\* Records that lie behind records lie with them.
LEMMA LiesBoth ==
    ASSUME NEW a \in Seq(Record), NEW b \in Seq(Record), NEW f, NEW p \in Nat,
           Lies(f, p, a), Lies(f, p + TotalSize(a), b)
    PROVE  Lies(f, p, a \o b)
<1> DEFINE c == a \o b
<1>0. Len(a) \in Nat /\ Len(b) \in Nat
  OBVIOUS
<1>1. /\ c \in Seq(Record) /\ Len(c) = Len(a) + Len(b)
      /\ \A i \in 1..Len(a) : c[i] = a[i]
      /\ \A i \in 1..Len(b) : c[Len(a) + i] = b[i]
      /\ EndsInside(c, 0, a) /\ EndsInside(c, Len(a), b)
  BY TotalOfBoth
<1> HIDE DEF c
<1>2. /\ Ends(c)[0] = 0 /\ TotalSize(a) = Ends(a)[Len(a)] /\ TotalSize(a) \in Nat
      /\ \A i \in 0..Len(a) : Ends(a)[i] \in Nat
      /\ \A i \in 0..Len(b) : Ends(b)[i] \in Nat
  BY <1>1, EndsRounds
<1>3. ASSUME NEW i \in 0..Len(a) PROVE Ends(c)[i] = Ends(a)[i]
  <2>1. Ends(c)[0 + i] = Ends(c)[0] + Ends(a)[i]
    BY <1>1 DEF EndsInside
  <2> QED
    BY <1>2, <2>1
<1>4. Ends(c)[Len(a)] = TotalSize(a)
  BY <1>0, <1>2, <1>3
<1> SUFFICES ASSUME NEW i \in 1..Len(c) PROVE RecordLies(f, p + Ends(c)[i - 1], c[i])
  BY DEF Lies, c
<1>5. CASE i \in 1..Len(a)
  <2>1. RecordLies(f, p + Ends(a)[i - 1], a[i])
    BY <1>5 DEF Lies
  <2>2. i - 1 \in 0..Len(a)
    BY <1>0, <1>5
  <2> QED
    BY <1>1, <1>3, <1>5, <2>1, <2>2
<1>6. CASE i \notin 1..Len(a)
  <2>1. PICK j \in 1..Len(b) : i = Len(a) + j
    <3>1. i - Len(a) \in 1..Len(b) /\ i = Len(a) + (i - Len(a))
      BY <1>0, <1>1, <1>6
    <3> QED
      BY <3>1
  <2>2. RecordLies(f, (p + TotalSize(a)) + Ends(b)[j - 1], b[j])
    BY DEF Lies
  <2>3. j - 1 \in 0..Len(b) /\ i - 1 = Len(a) + (j - 1)
    BY <1>0, <2>1
  <2>4. Ends(c)[Len(a) + (j - 1)] = TotalSize(a) + Ends(b)[j - 1]
    BY <1>1, <1>4, <2>3 DEF EndsInside
  <2>5. p + (TotalSize(a) + Ends(b)[j - 1]) = (p + TotalSize(a)) + Ends(b)[j - 1]
    <3>1. Ends(b)[j - 1] \in Nat /\ TotalSize(a) \in Nat
      BY <1>2, <2>3
    <3> QED
      BY <3>1
  <2>6. c[i] = b[j]
    BY <1>1, <2>1
  <2> QED
    BY <2>2, <2>3, <2>4, <2>5, <2>6
<1> QED
  BY <1>5, <1>6

-----------------------------------------------------------------------------
(* Parsing cells in which records lie                                       *)

\* The record at a cell, the cell after it, and the records from a cell on.
RecordAt(cells, i) == [channel |-> cells[i], length |-> cells[i + 1], stamp |-> cells[i + 2]]
NextAt(cells, i) == i + HeaderSize + cells[i + 1]
FromAt(cells, i, f) ==
    <<RecordAt(cells, i)>> \o (IF NextAt(cells, i) \in (i + 1)..Len(cells) THEN f[NextAt(cells, i)] ELSE <<>>)

\* Parsed is its entry for the first cell, and the entry of a cell is the record
\* there before the entry of the cell after it.
LEMMA ParsedRounds ==
    ASSUME NEW cells, NEW size, size = Len(cells), size \in Nat, cells # <<>>
    PROVE  \E f : Parsed(cells) = f[1] /\ \A i \in 1..size : f[i] = FromAt(cells, i, f)
<1> DEFINE V == {cells[i] : i \in 1..(size + 2)}
           R == [channel : V, length : V, stamp : V]
           D == Seq(R)
           value == [p \in (1..size) \X [1..size -> D] |-> FromAt(cells, p[1], p[2])]
           Defines(f) == f = [i \in 1..Len(cells) |->
                                LET next == i + HeaderSize + cells[i + 1] IN
                                << [channel |-> cells[i], length |-> cells[i + 1], stamp |-> cells[i + 2]] >>
                                \o (IF next \in (i + 1)..Len(cells) THEN f[next] ELSE <<>>)]
           g == CHOOSE f : Defines(f)
<1>1. \A i \in 1..size : RecordAt(cells, i) \in R
  <2> SUFFICES ASSUME NEW i \in 1..size PROVE RecordAt(cells, i) \in R
    OBVIOUS
  <2>1. i \in 1..(size + 2) /\ i + 1 \in 1..(size + 2) /\ i + 2 \in 1..(size + 2)
    OBVIOUS
  <2>2. cells[i] \in V /\ cells[i + 1] \in V /\ cells[i + 2] \in V
    BY <2>1
  <2> HIDE DEF V
  <2> QED
    BY <2>2 DEF RecordAt
<1> HIDE DEF R, V
<1>2. <<>> \in D
  OBVIOUS
<1>3. \A i \in 1..size, f \in [1..size -> D] : FromAt(cells, i, f) \in D
  <2> SUFFICES ASSUME NEW i \in 1..size, NEW f \in [1..size -> D] PROVE FromAt(cells, i, f) \in D
    OBVIOUS
  <2> DEFINE tail == IF NextAt(cells, i) \in (i + 1)..Len(cells) THEN f[NextAt(cells, i)] ELSE <<>>
  <2>1. \A n \in (i + 1)..Len(cells) : n \in 1..size
    OBVIOUS
  <2>2. tail \in D
    <3> HIDE DEF D
    <3> QED
      BY <1>2, <2>1
  <2>3. <<RecordAt(cells, i)>> \in D
    BY <1>1
  <2> HIDE DEF tail
  <2>4. <<RecordAt(cells, i)>> \o tail \in D
    BY <2>2, <2>3, ConcatProperties
  <2> QED
    BY <2>4 DEF FromAt, tail
<1> HIDE DEF D
<1>4. value \in [(1..size) \X [1..size -> D] -> D]
  <2> SUFFICES ASSUME NEW i \in 1..size, NEW f \in [1..size -> D] PROVE FromAt(cells, i, f) \in D
    OBVIOUS
  <2> QED
    BY <1>3
<1>5. \A i \in 1..size : \A f, h \in [1..size -> D] :
        (\A j \in 1..size : i < j => f[j] = h[j]) => value[<<i, f>>] = value[<<i, h>>]
  <2> SUFFICES ASSUME NEW i \in 1..size, NEW f \in [1..size -> D], NEW h \in [1..size -> D],
                      \A j \in 1..size : i < j => f[j] = h[j]
               PROVE  value[<<i, f>>] = value[<<i, h>>]
    <3> HIDE DEF value
    <3> QED
      OBVIOUS
  <2>1. \A n \in (i + 1)..Len(cells) : n \in 1..size /\ i < n
    OBVIOUS
  <2>2. \A n \in (i + 1)..Len(cells) : f[n] = h[n]
    BY <2>1
  <2>3. FromAt(cells, i, f) = FromAt(cells, i, h)
    BY <2>2, Zenon DEF FromAt
  <2>4. value[<<i, f>>] = FromAt(cells, i, f) /\ value[<<i, h>>] = FromAt(cells, i, h)
    OBVIOUS
  <2> QED
    BY <2>3, <2>4
<1>6. PICK f : IsBackward(f, D, size, value)
  <2> HIDE DEF value
  <2> QED
    BY <1>2, <1>4, <1>5, BackwardHasValues
<1>7. f \in [1..size -> D] /\ \A i \in 1..size : f[i] = FromAt(cells, i, f)
  <2>1. f \in [1..size -> D] /\ \A i \in 1..size : f[i] = value[<<i, f>>]
    BY <1>6 DEF IsBackward
  <2> QED
    BY <2>1
<1>8. Defines(f)
  <2>1. f = [i \in 1..size |-> f[i]]
    BY <1>7
  <2>2. \A i \in 1..size : f[i] =
          (LET next == i + HeaderSize + cells[i + 1] IN
           << [channel |-> cells[i], length |-> cells[i + 1], stamp |-> cells[i + 2]] >>
           \o (IF next \in (i + 1)..Len(cells) THEN f[next] ELSE <<>>))
    BY <1>7, Zenon DEF FromAt, RecordAt, NextAt
  <2> QED
    BY <2>1, <2>2, Zenon
<1>9. Defines(g)
  <2> HIDE DEF Defines
  <2> QED
    BY <1>8
<1>10. Parsed(cells) = g[1]
  BY DEF Parsed
<1> HIDE DEF g
<1>11. \A i \in 1..size : g[i] = FromAt(cells, i, g)
  BY <1>9, Zenon DEF FromAt, RecordAt, NextAt
<1> QED
  BY <1>10, <1>11

\* The records after the first k are the next one and those after it.
LEMMA RestStep ==
    ASSUME NEW s \in Seq(Record), NEW k \in 0..(Len(s) - 1)
    PROVE  Rest(s, k) = <<s[k + 1]>> \o Rest(s, k + 1)
<1> DEFINE a == Rest(s, k)
           b == Rest(s, k + 1)
           c == <<s[k + 1]>>
<1>1. k \in 0..Len(s) /\ k + 1 \in 0..Len(s) /\ k + 1 \in 1..Len(s) /\ Len(s) \in Nat
  OBVIOUS
<1>2. a \in Seq(Record) /\ Len(a) = Len(s) - k /\ \A i \in 1..(Len(s) - k) : a[i] = s[k + i]
  BY <1>1, RestIs
<1>3. /\ b \in Seq(Record) /\ Len(b) = Len(s) - (k + 1)
      /\ \A i \in 1..(Len(s) - (k + 1)) : b[i] = s[(k + 1) + i]
  BY <1>1, RestIs
<1>4. c \in Seq(Record) /\ Len(c) = 1 /\ c[1] = s[k + 1]
  BY <1>1
<1> HIDE DEF a, b, c
<1>5. /\ c \o b \in Seq(Record) /\ Len(c \o b) = 1 + Len(b)
      /\ \A i \in 1..(1 + Len(b)) : (c \o b)[i] = IF i <= 1 THEN c[i] ELSE b[i - 1]
  <2>1. /\ c \o b \in Seq(Record) /\ Len(c \o b) = Len(c) + Len(b)
        /\ \A i \in 1..(Len(c) + Len(b)) : (c \o b)[i] = IF i <= Len(c) THEN c[i] ELSE b[i - Len(c)]
    <3>1. c \in Seq(Record) /\ b \in Seq(Record)
      BY <1>3, <1>4
    <3> QED
      BY <3>1, ConcatProperties
  <2> QED
    BY <1>4, <2>1, Zenon
<1>6. ASSUME NEW i \in 1..Len(a) PROVE a[i] = (c \o b)[i]
  <2>1. CASE i = 1
    BY <1>1, <1>2, <1>3, <1>4, <1>5, <2>1
  <2>2. CASE i # 1
    <3>1. /\ i - 1 \in 1..(Len(s) - (k + 1)) /\ (k + 1) + (i - 1) = k + i /\ ~(i <= 1)
          /\ i \in 1..(1 + Len(b)) /\ i \in 1..(Len(s) - k)
      BY <1>1, <1>2, <1>3, <2>2
    <3>2. (c \o b)[i] = b[i - 1]
      BY <1>5, <3>1
    <3>3. b[i - 1] = s[(k + 1) + (i - 1)]
      BY <1>3, <3>1
    <3> QED
      BY <1>2, <3>1, <3>2, <3>3
  <2> QED
    BY <2>1, <2>2
<1>7. Len(a) = Len(c \o b)
  BY <1>1, <1>2, <1>3, <1>5
<1>8. a = c \o b
  BY <1>2, <1>5, <1>6, <1>7, SeqEqual
<1> QED
  BY <1>8 DEF a, b, c

\* Cells in which records lie are parsed into those records.
LEMMA ParsedIs ==
    ASSUME NEW cells, NEW s \in Seq(Record), Len(cells) = TotalSize(s), Lies(cells, 1, s),
           Len(cells) = 0 => cells = <<>>, Len(cells) # 0 => cells # <<>>
    PROVE  Parsed(cells) = s
<1> DEFINE size == Len(cells)
<1>1. Len(s) \in Nat /\ size \in Nat /\ size = Ends(s)[Len(s)] /\ Ends(s)[0] = 0
  BY EndsRounds
<1>2. \A k \in 0..Len(s) : Ends(s)[k] \in Nat /\ Ends(s)[k] + 3 * (Len(s) - k) <= size
  <2> SUFFICES ASSUME NEW k \in 0..Len(s) PROVE Ends(s)[k] \in Nat /\ Ends(s)[k] + 3 * (Len(s) - k) <= size
    OBVIOUS
  <2>1. Len(s) \in k..Len(s)
    OBVIOUS
  <2>2. Ends(s)[k] + 3 * (Len(s) - k) <= Ends(s)[Len(s)]
    BY <2>1, EndsGrow
  <2> QED
    BY <1>1, <2>2, EndsRounds
<1> HIDE DEF size
<1>3. CASE Len(s) = 0
  <2>1. size = 0 /\ s = <<>>
    BY <1>1, <1>3
  <2>2. cells = <<>>
    BY <2>1 DEF size
  <2> QED
    BY <2>1, <2>2 DEF Parsed
<1>4. CASE Len(s) # 0
  <2>0. size # 0
    <3>1. 0 \in 0..Len(s)
      BY <1>1
    <3>2. Ends(s)[0] + 3 * (Len(s) - 0) <= size
      BY <1>2, <3>1
    <3> QED
      BY <1>1, <1>4, <3>2
  <2>1. PICK f : Parsed(cells) = f[1] /\ \A i \in 1..size : f[i] = FromAt(cells, i, f)
    <3>1. cells # <<>>
      BY <2>0 DEF size
    <3> QED
      BY <1>1, <3>1, ParsedRounds DEF size
  <2> DEFINE P == {m \in 0..Len(s) : m = 0 \/ f[1 + Ends(s)[Len(s) - m]] = Rest(s, Len(s) - m)}
  <2>2. 0 \in P
    BY <1>1
  <2>3. ASSUME NEW m \in 0..(Len(s) - 1), m \in P PROVE m + 1 \in P
    <3>1. PICK k \in 0..(Len(s) - 1) : k = Len(s) - (m + 1) /\ k + 1 = Len(s) - m
      <4>1. Len(s) - (m + 1) \in 0..(Len(s) - 1) /\ (Len(s) - (m + 1)) + 1 = Len(s) - m
        BY <1>1
      <4> QED
        BY <4>1
    <3> DEFINE e == Ends(s)[k]
               i == 1 + e
               r == s[k + 1]
    <3>2. r \in Record /\ k \in 0..Len(s) /\ k + 1 \in 0..Len(s) /\ k + 1 \in 1..Len(s) /\ (k + 1) - 1 = k
      OBVIOUS
    <3>3. e \in Nat /\ Ends(s)[k + 1] \in Nat /\ Ends(s)[k + 1] = e + SizeOf(r)
      BY <3>2, EndsRounds
    <3>4. r.length \in Nat \ {0} /\ SizeOf(r) = 2 + r.length /\ HeaderSize = 2
      BY <3>2, SizesOfRecords DEF HeaderSize
    <3>5. Ends(s)[k + 1] + 3 * (Len(s) - (k + 1)) <= size
      BY <1>2, <3>2
    <3>6. RecordLies(cells, i, r)
      BY <3>2 DEF Lies
    <3> HIDE DEF e, r
    <3>7. cells[i] = r.channel /\ cells[i + 1] = r.length /\ cells[i + 2] = r.stamp
      <4>1. 2 \in 2..(1 + r.length)
        BY <3>4
      <4> HIDE DEF i
      <4> QED
        BY <3>6, <4>1 DEF RecordLies
    <3>8. RecordAt(cells, i) = r
      <4>1. r = [channel |-> r.channel, length |-> r.length, stamp |-> r.stamp]
        BY <3>2, SizesOfRecords
      <4> HIDE DEF i
      <4> QED
        BY <3>7, <4>1 DEF RecordAt
    <3>9. NextAt(cells, i) = 1 + Ends(s)[k + 1]
      <4>1. NextAt(cells, i) = i + 2 + r.length
        BY <3>4, <3>7 DEF NextAt
      <4> QED
        BY <3>3, <3>4, <4>1
    <3>10. f[i] = <<r>> \o (IF NextAt(cells, i) \in (i + 1)..size THEN f[NextAt(cells, i)] ELSE <<>>)
      <4>1. i \in 1..size
        <5>1. Len(s) - (k + 1) \in Nat
          BY <1>1, <3>2
        <5>2. (e + SizeOf(r)) + 3 * (Len(s) - (k + 1)) <= size
          BY <3>3, <3>5
        <5> QED
          BY <1>1, <3>3, <3>4, <5>1, <5>2, SMTT(30)
      <4>2. f[i] = FromAt(cells, i, f)
        BY <2>1, <4>1
      <4> HIDE DEF i
      <4> QED
        BY <3>8, <4>2, Zenon DEF FromAt, size
    <3>11. (IF NextAt(cells, i) \in (i + 1)..size THEN f[NextAt(cells, i)] ELSE <<>>) = Rest(s, k + 1)
      <4>1. CASE m = 0
        <5>1. k + 1 = Len(s)
          BY <1>1, <3>1, <4>1
        <5>2. NextAt(cells, i) = 1 + size
          BY <1>1, <3>9, <5>1
        <5>3. NextAt(cells, i) \notin (i + 1)..size
          BY <1>1, <5>2
        <5>4. Rest(s, k + 1) = <<>>
          <6>1. Rest(s, k + 1) \in Seq(Record) /\ Len(Rest(s, k + 1)) = Len(s) - (k + 1)
            BY <3>2, RestIs
          <6> QED
            BY <1>1, <5>1, <6>1
        <5> QED
          BY <5>3, <5>4
      <4>2. CASE m # 0
        <5>1. f[1 + Ends(s)[Len(s) - m]] = Rest(s, Len(s) - m)
          BY <2>3, <4>2
        <5>2. Len(s) - (k + 1) >= 1
          BY <1>1, <3>1, <4>2
        <5>3. NextAt(cells, i) \in (i + 1)..size
          <6> DEFINE n == Ends(s)[k + 1]
                     x == Len(s) - (k + 1)
          <6>1. n \in Nat /\ n + 3 * x <= size /\ x \in Nat /\ x >= 1
            BY <1>1, <3>3, <3>5, <5>2
          <6>2. n = e + 2 + r.length
            BY <3>3, <3>4
          <6> HIDE DEF n, x
          <6>4. PICK y \in Nat : y = r.length
            BY <3>4
          <6>5. n = e + 2 + y
            BY <6>2, <6>4
          <6>3. 1 + n \in (i + 1)..size
            BY <1>1, <3>3, <6>1, <6>5
          <6> QED
            BY <3>9, <6>3 DEF n
        <5> QED
          BY <3>1, <3>9, <5>1, <5>3
      <4> QED
        BY <4>1, <4>2
    <3>12. f[1 + Ends(s)[k]] = Rest(s, k)
      <4>1. Rest(s, k) = <<r>> \o Rest(s, k + 1)
        BY RestStep DEF r
      <4> QED
        BY <3>10, <3>11, <4>1 DEF e
    <3>13. m + 1 \in 0..Len(s)
      BY <1>1
    <3> QED
      BY <3>1, <3>12, <3>13
  <2>4. Len(s) \in P
    <3>1. \A m \in 0..Len(s) : m \in P
      <4> HIDE DEF P
      <4> QED
        BY <1>1, <2>2, <2>3, LoopInvariant
    <3> QED
      BY <1>1, <3>1
  <2>5. f[1] = Rest(s, 0)
    <3>1. Len(s) - Len(s) = 0 /\ 1 + Ends(s)[0] = 1
      BY <1>1
    <3>2. f[1 + Ends(s)[Len(s) - Len(s)]] = Rest(s, Len(s) - Len(s))
      BY <1>4, <2>4
    <3> QED
      BY <3>1, <3>2
  <2>6. Rest(s, 0) = s
    BY PrefixGrows DEF Rest
  <2> QED
    BY <2>1, <2>5, <2>6
<1> QED
  BY <1>3, <1>4

-----------------------------------------------------------------------------
(* Reading a queue                                                          *)

\* Of the first k records, those of the channel and the others.
Mine(s, c, k) == Of(SubSeq(s, 1, k), {c})
Left(s, c, k) == Of(SubSeq(s, 1, k), Channels \ {c})

\* Each of the first k records is of the channel or is one of the others.
LEMMA PartsOfFirst ==
    ASSUME NEW s \in Seq(Record), NEW c \in Channels, NEW k \in 0..Len(s)
    PROVE  /\ Mine(s, c, k) \in Seq(Record) /\ Left(s, c, k) \in Seq(Record)
           /\ TotalSize(Mine(s, c, k)) \in Nat /\ TotalSize(Left(s, c, k)) \in Nat
           /\ TotalSize(Mine(s, c, k)) + TotalSize(Left(s, c, k)) = Ends(s)[k]
           /\ Len(Mine(s, c, k)) + Len(Left(s, c, k)) = k
<1>1. SubSeq(s, 1, k) \in Seq(Record) /\ Len(SubSeq(s, 1, k)) = k
  BY PrefixGrows
<1>2. Mine(s, c, k) \in Seq(Record) /\ Left(s, c, k) \in Seq(Record)
  BY <1>1, OfIsPart DEF Mine, Left
<1>3. \A r \in Record : r.channel \in {c} <=> r.channel \notin Channels \ {c}
  BY SizesOfRecords
<1>4. /\ TotalSize(Mine(s, c, k)) + TotalSize(Left(s, c, k)) = TotalSize(SubSeq(s, 1, k))
      /\ Len(Mine(s, c, k)) + Len(Left(s, c, k)) = Len(SubSeq(s, 1, k))
  BY <1>1, <1>3, OfBoth DEF Mine, Left
<1>5. TotalSize(SubSeq(s, 1, k)) = Ends(s)[k]
  BY TotalOfFirst
<1>6. TotalSize(Mine(s, c, k)) \in Nat /\ TotalSize(Left(s, c, k)) \in Nat
  BY <1>2, EndsRounds
<1> QED
  BY <1>1, <1>2, <1>4, <1>5, <1>6

\* The next record joins those of the channel or the others.
LEMMA PartsStep ==
    ASSUME NEW s \in Seq(Record), NEW c \in Channels, NEW k \in 0..(Len(s) - 1)
    PROVE  /\ s[k + 1].channel = c => /\ Mine(s, c, k + 1) = Append(Mine(s, c, k), s[k + 1])
                                      /\ Left(s, c, k + 1) = Left(s, c, k)
           /\ s[k + 1].channel # c => /\ Mine(s, c, k + 1) = Mine(s, c, k)
                                      /\ Left(s, c, k + 1) = Append(Left(s, c, k), s[k + 1])
<1> DEFINE x == SubSeq(s, 1, k)
           r == s[k + 1]
<1>1. k \in 0..Len(s) /\ k + 1 \in 1..Len(s)
  OBVIOUS
<1>2. r \in Record /\ r.channel \in Channels
  <2>1. r \in Record
    BY <1>1
  <2> QED
    BY <2>1, SizesOfRecords
<1>3. x \in Seq(Record) /\ SubSeq(s, 1, k + 1) = Append(x, r)
  BY <1>1, PrefixGrows
<1> HIDE DEF x, r
<1>4. /\ Of(Append(x, r), {c}) = IF r.channel \in {c} THEN Append(Of(x, {c}), r) ELSE Of(x, {c})
      /\ Of(Append(x, r), Channels \ {c}) =
           IF r.channel \in Channels \ {c} THEN Append(Of(x, Channels \ {c}), r) ELSE Of(x, Channels \ {c})
  BY <1>2, <1>3, OfStep
<1>5. r.channel = c => r.channel \in {c} /\ r.channel \notin Channels \ {c}
  OBVIOUS
<1>6. r.channel # c => r.channel \notin {c} /\ r.channel \in Channels \ {c}
  BY <1>2
<1> QED
  BY <1>3, <1>4, <1>5, <1>6 DEF Mine, Left, x, r

\* The slice of a queue holds some records and has room for them.
QueueHolds(q, s) ==
    /\ storage \in Storage
    /\ ring[q].tail = 0 /\ ring[q].used = TotalSize(s) /\ TotalSize(s) <= Slice
    /\ s \in Seq(Record) /\ Lies(SliceOf(storage, q), 0, s)

\* What read has of the queue when it has passed over k records.
LoopState == [storage : Storage, cursor : Nat, remaining : Nat, retained : Nat, out : Seq(CellValues)]

\* The answer holds the records t; the other slices are as they were; the slice
\* of q is as it was from place e on.
OutHas(out, t) == Len(out) = TotalSize(t) /\ Lies(out, 1, t)
OthersSame(st, q) == \A p \in Queues : p # q => SliceOf(st, p) = SliceOf(storage, p)
SameFrom(st, q, e) == \A j \in Places : e <= j => SliceOf(st, q)[j] = SliceOf(storage, q)[j]

\* The state of the loop of read after the first k records: the cursor is at the
\* next one, the answer has those of the channel, and a drain has moved the others
\* to the start of the slice and touched nothing behind them.
AtRound(q, c, limit, drain, s, k, w) ==
    /\ w \in LoopState
    /\ w.cursor = Ends(s)[k] % Slice
    /\ w.remaining = TotalSize(s) - Ends(s)[k]
    /\ OutHas(w.out, Mine(s, c, k)) /\ Len(w.out) <= limit
    /\ OthersSame(w.storage, q) /\ SameFrom(w.storage, q, Ends(s)[k])
    /\ drain => w.retained = TotalSize(Left(s, c, k)) /\ Lies(SliceOf(w.storage, q), 0, Left(s, c, k))
    /\ ~drain => w.retained = 0 /\ w.storage = storage

\* There is no record more, or no room for the next one of the channel.
Halts(c, limit, s, k) ==
    \/ k = Len(s)
    \/ s[k + 1].channel = c /\ TotalSize(Mine(s, c, k)) + SizeOf(s[k + 1]) > limit

\* What a round does to each part of the state.
PassHalts(q, c, limit, w) ==
    LET size == SizeAt(w.storage, q, w.cursor)
    IN  \/ w.remaining < HeaderSize
        \/ size > w.remaining
        \/ ChannelAt(w.storage, q, w.cursor) = c /\ size > limit - Len(w.out)

\* A round that goes on: the record is taken or, in a drain, moved down.
PassMoves(q, c, drain, w, a) ==
    LET size == SizeAt(w.storage, q, w.cursor)
        mine == ChannelAt(w.storage, q, w.cursor) = c
    IN  /\ a = [storage |-> a.storage, cursor |-> a.cursor, remaining |-> a.remaining,
                retained |-> a.retained, out |-> a.out]
        /\ a.cursor = (w.cursor + size) % Slice
        /\ a.remaining = w.remaining - size
        /\ a.out = IF mine THEN w.out \o Peek(w.storage, q, w.cursor, size) ELSE w.out
        /\ a.storage = IF ~mine /\ drain
                       THEN Copied(w.storage, q, w.cursor, (ring[q].tail + w.retained) % Slice, size)
                       ELSE w.storage
        /\ a.retained = IF ~mine /\ drain THEN w.retained + size ELSE w.retained

\* A round of read either halts or goes on.
LEMMA PassDoes ==
    ASSUME NEW q, NEW c, NEW limit, NEW drain \in BOOLEAN, NEW w \in LoopState
    PROVE  /\ PassHalts(q, c, limit, w) => Pass(q, c, limit, drain, w) = w
           /\ ~PassHalts(q, c, limit, w) => PassMoves(q, c, drain, w, Pass(q, c, limit, drain, w))
<1> DEFINE size == SizeAt(w.storage, q, w.cursor)
           mine == ChannelAt(w.storage, q, w.cursor) = c
           cells == Peek(w.storage, q, w.cursor, size)
           moved == Copied(w.storage, q, w.cursor, (ring[q].tail + w.retained) % Slice, size)
           next == (w.cursor + size) % Slice
           rest == w.remaining - size
           a == Pass(q, c, limit, drain, w)
<1>1. PassHalts(q, c, limit, w) => a = w
  BY Zenon DEF PassHalts, Pass
<1>2. w = [storage |-> w.storage, cursor |-> w.cursor, remaining |-> w.remaining,
           retained |-> w.retained, out |-> w.out]
  BY DEF LoopState
<1>3. ASSUME ~PassHalts(q, c, limit, w) PROVE PassMoves(q, c, drain, w, a)
  <2> DEFINE on == [w EXCEPT !.cursor = next, !.remaining = rest]
  <2>1. a = IF mine THEN [on EXCEPT !.out = w.out \o cells]
            ELSE IF drain THEN [on EXCEPT !.storage = moved, !.retained = w.retained + size]
            ELSE on
    <3>1. on.out = w.out /\ on.storage = w.storage /\ on.retained = w.retained
      <4> HIDE DEF next, rest
      <4> QED
        BY <1>2
    <3>2. a = IF mine THEN [on EXCEPT !.out = on.out \o cells]
              ELSE IF drain THEN [on EXCEPT !.storage = Copied(on.storage, q, w.cursor, (ring[q].tail + w.retained) % Slice, size),
                                            !.retained = on.retained + size]
              ELSE on
      BY <1>3, Zenon DEF PassHalts, Pass
    <3> HIDE DEF on, mine, cells, size
    <3> QED
      BY <3>1, <3>2
  <2> HIDE DEF a, mine, cells, moved, size, next, rest
  <2>2. on = [storage |-> w.storage, cursor |-> next, remaining |-> rest,
              retained |-> w.retained, out |-> w.out]
    <3>1. PICK u : u = on
      BY Zenon
    <3>2. u = [storage |-> w.storage, cursor |-> next, remaining |-> rest,
               retained |-> w.retained, out |-> w.out]
      BY <1>2, <3>1
    <3> QED
      BY <3>1, <3>2, Zenon
  <2> HIDE DEF on
  <2>3. a = [storage |-> IF ~mine /\ drain THEN moved ELSE w.storage,
             cursor |-> next, remaining |-> rest,
             retained |-> IF ~mine /\ drain THEN w.retained + size ELSE w.retained,
             out |-> IF mine THEN w.out \o cells ELSE w.out]
    BY <2>1, <2>2
  <2>4. /\ a.storage = IF ~mine /\ drain THEN moved ELSE w.storage
        /\ a.cursor = next /\ a.remaining = rest
        /\ a.retained = IF ~mine /\ drain THEN w.retained + size ELSE w.retained
        /\ a.out = IF mine THEN w.out \o cells ELSE w.out
    BY <2>3
  <2>5. a = [storage |-> a.storage, cursor |-> a.cursor, remaining |-> a.remaining,
             retained |-> a.retained, out |-> a.out]
    BY <2>3, <2>4
  <2> QED
    BY <2>4, <2>5, Zenon DEF PassMoves, mine, cells, moved, size, next, rest
<1> QED
  BY <1>1, <1>3

\* The record at the cursor.
AtRecord(q, c, limit, s, k, w) ==
    LET e == Ends(s)[k]
        r == s[k + 1]
    IN  /\ r \in Record /\ e \in Places /\ Ends(s)[k + 1] = e + SizeOf(r)
        /\ e + SizeOf(r) <= TotalSize(s) /\ TotalSize(s) \in Nat
        /\ w.cursor = e
        /\ RecordLies(SliceOf(w.storage, q), e, r)
        /\ ChannelAt(w.storage, q, w.cursor) = r.channel
        /\ SizeAt(w.storage, q, w.cursor) = SizeOf(r)
        /\ PassHalts(q, c, limit, w) <=>
             r.channel = c /\ TotalSize(Mine(s, c, k)) + SizeOf(r) > limit

\* The round reads the header of the next record where that record lies, although
\* a drain has moved records below it.
LEMMA RoundAtRecord ==
    ASSUME NEW q \in Queues, NEW s, QueueHolds(q, s), NEW c \in Channels, NEW limit \in Nat,
           NEW drain \in BOOLEAN, NEW k \in 0..(Len(s) - 1), NEW w, AtRound(q, c, limit, drain, s, k, w)
    PROVE  AtRecord(q, c, limit, s, k, w)
<1> DEFINE e == Ends(s)[k]
           r == s[k + 1]
           f == SliceOf(storage, q)
           g == SliceOf(w.storage, q)
<1>1. s \in Seq(Record) /\ Lies(f, 0, s) /\ TotalSize(s) <= Slice
  BY DEF QueueHolds
<1>2. /\ k \in 0..Len(s) /\ k + 1 \in 0..Len(s) /\ k + 1 \in 1..Len(s) /\ (k + 1) - 1 = k /\ k \in Nat
      /\ Len(s) \in Nat
  BY <1>1
<1>3. r \in Record
  BY <1>1, <1>2
<1>4. SizeOf(r) \in Nat /\ SizeOf(r) >= 3 /\ SizeOf(r) = 2 + r.length /\ r.length \in Nat
  BY <1>3, SizesOfRecords
<1>5. /\ e \in Nat /\ Ends(s)[k + 1] = e + SizeOf(r) /\ Ends(s)[k + 1] \in Nat
      /\ TotalSize(s) = Ends(s)[Len(s)] /\ TotalSize(s) \in Nat
  BY <1>1, <1>2, EndsRounds
<1>6. Ends(s)[k + 1] <= TotalSize(s)
  <2>1. Len(s) \in (k + 1)..Len(s) /\ Len(s) - (k + 1) \in Nat
    BY <1>2
  <2>2. Ends(s)[k + 1] + 3 * (Len(s) - (k + 1)) <= Ends(s)[Len(s)]
    BY <1>1, <1>2, <2>1, EndsGrow
  <2> QED
    BY <1>5, <2>1, <2>2
<1>7. Slice \in Nat
  BY SizesAssumption
<1>15. e + SizeOf(r) <= Slice /\ e + SizeOf(r) <= TotalSize(s)
  BY <1>1, <1>4, <1>5, <1>6, <1>7
<1> HIDE DEF e, r
<1>8. e \in Places /\ e + 1 \in Places /\ e % Slice = e /\ (e + 1) % Slice = e + 1
  <2>1. e \in Nat /\ e + 1 \in Nat /\ e < Slice /\ e + 1 < Slice
    BY <1>4, <1>5, <1>7, <1>15
  <2>2. e \in Places /\ e + 1 \in Places
    BY <2>1, PlaceAt
  <2> QED
    BY <2>2, Wraps
<1>9. w.cursor = e
  BY <1>8 DEF AtRound, e
<1>10. \A j \in Places : e <= j => g[j] = f[j]
  BY DEF AtRound, SameFrom, e
<1>11. RecordLies(f, e, r)
  <2>1. RecordLies(f, 0 + Ends(s)[(k + 1) - 1], s[k + 1])
    BY <1>1, <1>2 DEF Lies
  <2> HIDE DEF f
  <2> QED
    BY <1>2, <1>5, <2>1 DEF e, r
<1>12. RecordLies(g, e, r)
  <2>1. g[e] = f[e] /\ g[e + 1] = f[e + 1]
    BY <1>5, <1>8, <1>10
  <2>2. \A j \in 2..(1 + r.length) : g[e + j] = f[e + j]
    <3> SUFFICES ASSUME NEW j \in 2..(1 + r.length) PROVE g[e + j] = f[e + j]
      OBVIOUS
    <3>1. e + j \in Nat /\ e + j < Slice /\ e <= e + j
      BY <1>4, <1>5, <1>7, <1>15, SMTT(30)
    <3>2. e + j \in Places
      BY <3>1, PlaceAt
    <3> QED
      BY <1>10, <3>1, <3>2
  <2> HIDE DEF f, g
  <2> QED
    BY <1>11, <2>1, <2>2 DEF RecordLies
<1>13. ChannelAt(w.storage, q, w.cursor) = r.channel /\ SizeAt(w.storage, q, w.cursor) = SizeOf(r)
  <2>1. g[e] = r.channel /\ g[e + 1] = r.length
    <3> HIDE DEF g
    <3> QED
      BY <1>12 DEF RecordLies
  <2>2. g[e] = w.storage[Cell(q, e)] /\ g[e + 1] = w.storage[Cell(q, e + 1)]
    BY <1>8 DEF SliceOf
  <2>3. ChannelAt(w.storage, q, e) = r.channel
    BY <2>1, <2>2 DEF ChannelAt
  <2>4. SizeAt(w.storage, q, e) = 2 + r.length
    BY <1>8, <2>1, <2>2 DEF SizeAt, HeaderSize
  <2> QED
    BY <1>4, <1>9, <2>3, <2>4
<1>14. PassHalts(q, c, limit, w) <=> r.channel = c /\ TotalSize(Mine(s, c, k)) + SizeOf(r) > limit
  <2>1. w.remaining = TotalSize(s) - e /\ Len(w.out) = TotalSize(Mine(s, c, k))
    BY DEF AtRound, OutHas, e
  <2>2. TotalSize(Mine(s, c, k)) \in Nat
    BY <1>1, <1>2, PartsOfFirst
  <2>3. ~(w.remaining < HeaderSize) /\ ~(SizeOf(r) > w.remaining)
    <3>1. TotalSize(s) - e >= SizeOf(r) /\ TotalSize(s) - e >= 2
      BY <1>4, <1>5, <1>15, SMTT(30)
    <3>2. TotalSize(s) - e \in Int /\ HeaderSize = 2
      BY <1>5 DEF HeaderSize
    <3> QED
      BY <1>4, <2>1, <3>1, <3>2
  <2>4. SizeOf(r) > limit - Len(w.out) <=> TotalSize(Mine(s, c, k)) + SizeOf(r) > limit
    BY <1>4, <2>1, <2>2
  <2> QED
    BY <1>13, <2>3, <2>4 DEF PassHalts
<1> QED
  BY <1>3, <1>5, <1>6, <1>8, <1>9, <1>12, <1>13, <1>14 DEF AtRecord, e, r

\* Reading past the last record, or past one there is no room for.
LEMMA PassAtEnd ==
    ASSUME NEW q \in Queues, NEW s, QueueHolds(q, s), NEW c \in Channels, NEW limit \in Nat,
           NEW drain \in BOOLEAN, NEW k \in 0..Len(s), NEW w, AtRound(q, c, limit, drain, s, k, w),
           Halts(c, limit, s, k)
    PROVE  Pass(q, c, limit, drain, w) = w
<1>1. w \in LoopState
  BY DEF AtRound
<1>2. s \in Seq(Record)
  BY DEF QueueHolds
<1>3. CASE k = Len(s)
  <2>1. TotalSize(s) = Ends(s)[Len(s)] /\ TotalSize(s) \in Nat
    BY <1>2, EndsRounds
  <2>2. w.remaining = TotalSize(s) - TotalSize(s)
    BY <1>3, <2>1 DEF AtRound
  <2>3. w.remaining < HeaderSize
    BY <2>1, <2>2 DEF HeaderSize
  <2>4. PassHalts(q, c, limit, w)
    BY <2>3 DEF PassHalts
  <2> QED
    BY <1>1, <2>4, PassDoes
<1>4. CASE k # Len(s)
  <2>1. k \in 0..(Len(s) - 1)
    BY <1>2, <1>4
  <2>2. AtRecord(q, c, limit, s, k, w)
    BY <2>1, RoundAtRecord
  <2>3. PassHalts(q, c, limit, w)
    BY <1>4, <2>2 DEF AtRecord, Halts
  <2> QED
    BY <1>1, <2>3, PassDoes
<1> QED
  BY <1>3, <1>4

\* A function of the first numbers is a sequence.
LEMMA FunctionIsSeq ==
    ASSUME NEW S, NEW n \in Nat, NEW f \in [1..n -> S]
    PROVE  f \in Seq(S) /\ Len(f) = n
  OBVIOUS

\* The cells of a record, taken at the end of the answer.
OutWith(out, st, q, e, r) == out \o Peek(st, q, e, SizeOf(r))

\* read appends whole records to its answer.
LEMMA OutGrows ==
    ASSUME NEW st \in Storage, NEW q \in Queues, NEW e \in Nat, NEW r \in Record, NEW t \in Seq(Record),
           NEW out \in Seq(CellValues), NEW w, OutHas(out, t), RecordLies(SliceOf(st, q), e, r),
           e + SizeOf(r) <= Slice, w = OutWith(out, st, q, e, r)
    PROVE  w \in Seq(CellValues) /\ OutHas(w, Append(t, r)) /\ Len(w) = Len(out) + SizeOf(r)
<1> DEFINE size == SizeOf(r)
           cells == Peek(st, q, e, size)
           g == SliceOf(st, q)
<1>1. size \in Nat /\ size >= 3 /\ size = 2 + r.length /\ r.length \in Nat
  BY SizesOfRecords
<1>2. Slice \in Nat
  BY SizesAssumption
<1> HIDE DEF size
<1>3. ASSUME NEW i \in 1..size
      PROVE  /\ e + (i - 1) \in Places /\ st[Cell(q, (e + i - 1) % Slice)] = g[e + (i - 1)]
             /\ st[Cell(q, (e + i - 1) % Slice)] \in CellValues
  <2>1. e + (i - 1) \in Places /\ e + i - 1 = e + (i - 1)
    BY <1>1, <1>2 DEF Places, size
  <2>2. (e + i - 1) % Slice = e + (i - 1)
    BY <2>1, Wraps
  <2>3. Cell(q, e + (i - 1)) \in Cells
    BY <2>1, CellsApart
  <2>4. g[e + (i - 1)] = st[Cell(q, e + (i - 1))]
    BY <2>1 DEF SliceOf
  <2>5. st[Cell(q, e + (i - 1))] \in CellValues
    BY <2>3 DEF Storage
  <2> QED
    BY <2>1, <2>2, <2>4, <2>5
<1>4. cells = [i \in 1..size |-> st[Cell(q, (e + i - 1) % Slice)]]
  BY DEF Peek
<1>5. cells \in Seq(CellValues) /\ Len(cells) = size /\ \A i \in 1..size : cells[i] = g[e + (i - 1)]
  <2> HIDE DEF cells, g
  <2>1. cells \in [1..size -> CellValues]
    BY <1>3, <1>4
  <2>2. \A i \in 1..size : cells[i] = g[e + (i - 1)]
    BY <1>3, <1>4
  <2>3. cells \in Seq(CellValues)
    BY <1>1, <2>1, FunctionIsSeq
  <2>4. Len(cells) = size
    BY <1>1, <2>1, FunctionIsSeq
  <2> QED
    BY <2>2, <2>3, <2>4
<1> HIDE DEF cells, g
<1>6. /\ w \in Seq(CellValues) /\ Len(w) = Len(out) + size
      /\ \A i \in 1..(Len(out) + Len(cells)) : w[i] = IF i <= Len(out) THEN out[i] ELSE cells[i - Len(out)]
  <2>1. w = out \o cells
    BY DEF OutWith, cells, size
  <2>2. cells \in Seq(CellValues) /\ out \in Seq(CellValues)
    BY <1>5
  <2>3. /\ out \o cells \in Seq(CellValues) /\ Len(out \o cells) = Len(out) + Len(cells)
        /\ \A i \in 1..(Len(out) + Len(cells)) :
             (out \o cells)[i] = IF i <= Len(out) THEN out[i] ELSE cells[i - Len(out)]
    BY <2>2, ConcatProperties
  <2> QED
    BY <1>5, <2>1, <2>3
<1>7. Len(out) \in Nat /\ Len(out) = TotalSize(t) /\ Lies(out, 1, t)
  BY DEF OutHas
<1>8. \A i \in 1..Len(out) : w[i] = out[i]
  <2> SUFFICES ASSUME NEW i \in 1..Len(out) PROVE w[i] = out[i]
    OBVIOUS
  <2>1. Len(out) \in Nat /\ Len(cells) \in Nat
    BY <1>1, <1>5, <1>7
  <2>2. i \in 1..(Len(out) + Len(cells)) /\ i <= Len(out)
    BY <2>1
  <2> QED
    BY <1>6, <2>2, Zenon
<1>9. ASSUME NEW j \in 0..(size - 1) PROVE w[(1 + Len(out)) + j] = g[e + j]
  <2>1. /\ (1 + Len(out)) + j \in 1..(Len(out) + Len(cells)) /\ ~((1 + Len(out)) + j <= Len(out))
        /\ ((1 + Len(out)) + j) - Len(out) = j + 1 /\ j + 1 \in 1..size /\ (j + 1) - 1 = j
    <3>1. PICK o \in Nat : o = Len(out)
      BY <1>7
    <3>2. PICK z \in Nat : z = size
      BY <1>1
    <3>3. /\ (1 + o) + j \in 1..(o + z) /\ ~((1 + o) + j <= o)
          /\ ((1 + o) + j) - o = j + 1 /\ j + 1 \in 1..z /\ (j + 1) - 1 = j
      BY <3>2
    <3> QED
      BY <1>5, <3>1, <3>2, <3>3
  <2>2. w[(1 + Len(out)) + j] = cells[((1 + Len(out)) + j) - Len(out)]
    BY <1>6, <2>1, Zenon
  <2>3. cells[j + 1] = g[e + ((j + 1) - 1)]
    BY <1>5, <2>1
  <2> QED
    BY <2>1, <2>2, <2>3
<1>10. Lies(w, 1, t)
  <2>1. SameCells(out, 1, w, 1, TotalSize(t))
    <3> SUFFICES ASSUME NEW i \in 0..(Len(out) - 1) PROVE w[1 + i] = out[1 + i]
      BY <1>7 DEF SameCells
    <3>1. 1 + i \in 1..Len(out)
      BY <1>7
    <3> QED
      BY <1>8, <3>1
  <2>2. 1 \in Nat
    OBVIOUS
  <2> QED
    BY <1>7, <2>1, <2>2, LiesMoved
<1>11. RecordLies(w, 1 + TotalSize(t), r)
  <2>1. g[e] = r.channel /\ g[e + 1] = r.length /\ \A j \in 2..(1 + r.length) : g[e + j] = r.stamp
    BY DEF RecordLies, g
  <2>2. /\ 0 \in 0..(size - 1) /\ 1 \in 0..(size - 1) /\ \A j \in 2..(1 + r.length) : j \in 0..(size - 1)
        /\ e + 0 = e /\ (1 + Len(out)) + 0 = 1 + Len(out)
    BY <1>1, <1>7
  <2>3. w[(1 + Len(out)) + 0] = g[e + 0] /\ w[(1 + Len(out)) + 1] = g[e + 1]
    BY <1>9, <2>2
  <2>4. \A j \in 2..(1 + r.length) : w[(1 + Len(out)) + j] = r.stamp
    BY <1>9, <2>1, <2>2
  <2>5. w[1 + Len(out)] = r.channel /\ w[(1 + Len(out)) + 1] = r.length
    BY <2>1, <2>2, <2>3
  <2> QED
    BY <1>7, <2>4, <2>5 DEF RecordLies
<1>12. Lies(w, 1, Append(t, r))
  <2>1. 1 \in Nat
    OBVIOUS
  <2> QED
    BY <1>10, <1>11, <2>1, LiesFirst
<1>13. TotalSize(Append(t, r)) = TotalSize(t) + size
  BY TotalStep DEF size
<1> QED
  BY <1>6, <1>7, <1>12, <1>13 DEF OutHas, size

\* A record moved down behind those that were kept.
MovedAs(w, st, q, e, t, r) ==
    /\ w \in Storage
    /\ \A p \in Queues : p # q => SliceOf(w, p) = SliceOf(st, p)
    /\ \A j \in Places : e + SizeOf(r) <= j => SliceOf(w, q)[j] = SliceOf(st, q)[j]
    /\ Lies(SliceOf(w, q), 0, Append(t, r))

\* A drain moves a record of another channel down behind those it has kept, and
\* the record survives the move although the two places may overlap.
LEMMA KeptGrows ==
    ASSUME NEW st \in Storage, NEW q \in Queues, NEW e \in Nat, NEW r \in Record, NEW t \in Seq(Record),
           Lies(SliceOf(st, q), 0, t), RecordLies(SliceOf(st, q), e, r),
           e + SizeOf(r) <= Slice, TotalSize(t) <= e,
           NEW w, w = Copied(st, q, e, TotalSize(t), SizeOf(r))
    PROVE  MovedAs(w, st, q, e, t, r)
<1> DEFINE size == SizeOf(r)
           d == TotalSize(t)
           g == SliceOf(st, q)
           h == SliceOf(w, q)
<1>1. size \in Nat /\ size >= 3 /\ size = 2 + r.length /\ r.length \in Nat
  BY SizesOfRecords
<1>2. Slice \in Nat /\ d \in Nat
  BY SizesAssumption, EndsRounds
<1> HIDE DEF size, d
<1>3. e \in Places /\ d \in Places /\ e + size <= Slice /\ d <= e
  BY <1>1, <1>2 DEF Places, size, d
<1>4. /\ w \in Storage
      /\ \A p \in Queues : p # q => SliceOf(w, p) = SliceOf(st, p)
      /\ \A j \in Places : h[j] = IF j \in d..(d + size - 1) THEN g[e + (j - d)] ELSE g[j]
  <2>1. w = Copied(st, q, e, d, size)
    BY DEF d, size
  <2>2. CopiedAs(Copied(st, q, e, d, size), st, q, e, d, size)
    BY <1>1, <1>3, CopiedIs
  <2>3. CopiedAs(w, st, q, e, d, size)
    BY <2>1, <2>2
  <2> QED
    BY <2>3, Zenon DEF CopiedAs, g, h
<1>9. e \in Nat /\ d \in Nat /\ e + size <= Slice /\ d <= e
  BY <1>3, Wraps
<1> HIDE DEF g, h
<1>5. \A j \in Places : e + size <= j => h[j] = g[j]
  <2> SUFFICES ASSUME NEW j \in Places, e + size <= j PROVE h[j] = g[j]
    OBVIOUS
  <2>1. j \in Nat
    BY Wraps
  <2>2. j \notin d..(d + size - 1)
    BY <1>1, <1>9, <2>1, SMTT(30)
  <2> QED
    BY <1>4, <2>2
<1>6. Lies(h, 0, t)
  <2>1. SameCells(g, 0, h, 0, d)
    <3> SUFFICES ASSUME NEW i \in 0..(d - 1) PROVE h[0 + i] = g[0 + i]
      BY DEF SameCells
    <3>0. i \in Nat /\ i < Slice /\ i \notin d..(d + size - 1) /\ 0 + i = i
      BY <1>1, <1>2, <1>9
    <3>1. i \in Places
      BY <3>0, PlaceAt
    <3> QED
      BY <1>4, <3>0, <3>1
  <2>2. 0 \in Nat /\ Lies(g, 0, t)
    BY DEF g
  <2> QED
    BY <2>1, <2>2, LiesMoved DEF d
<1>7. RecordLies(h, d, r)
  <2>1. g[e] = r.channel /\ g[e + 1] = r.length /\ \A j \in 2..(1 + r.length) : g[e + j] = r.stamp
    BY DEF RecordLies, g
  <2>2. ASSUME NEW j \in 0..(size - 1) PROVE h[d + j] = g[e + j]
    <3>0. /\ d + j \in Nat /\ d + j < Slice /\ d + j \in d..(d + size - 1)
          /\ e + ((d + j) - d) = e + j
      BY <1>1, <1>2, <1>9, SMTT(30)
    <3>1. d + j \in Places
      BY <3>0, PlaceAt
    <3>2. h[d + j] = g[e + ((d + j) - d)]
      BY <1>4, <3>0, <3>1
    <3> QED
      BY <3>0, <3>2
  <2>3. /\ 0 \in 0..(size - 1) /\ 1 \in 0..(size - 1) /\ \A j \in 2..(1 + r.length) : j \in 0..(size - 1)
        /\ e + 0 = e /\ d + 0 = d
    BY <1>1, <1>2
  <2>4. h[d + 0] = g[e + 0] /\ h[d + 1] = g[e + 1]
    BY <2>2, <2>3
  <2>5. \A j \in 2..(1 + r.length) : h[d + j] = r.stamp
    BY <2>1, <2>2, <2>3
  <2>6. h[d] = r.channel /\ h[d + 1] = r.length
    BY <2>1, <2>3, <2>4
  <2> QED
    BY <2>5, <2>6 DEF RecordLies
<1>8. Lies(h, 0, Append(t, r))
  <2>1. 0 \in Nat /\ 0 + d = d
    BY <1>2
  <2> QED
    BY <1>6, <1>7, <2>1, LiesFirst DEF d
<1> QED
  BY <1>4, <1>5, <1>8 DEF g, h, size, MovedAs

\* A round that passes over a record.
LEMMA PassAdvances ==
    ASSUME NEW q \in Queues, NEW s, QueueHolds(q, s), NEW c \in Channels, NEW limit \in Nat,
           NEW drain \in BOOLEAN, NEW k \in 0..(Len(s) - 1), NEW w, AtRound(q, c, limit, drain, s, k, w),
           ~Halts(c, limit, s, k)
    PROVE  AtRound(q, c, limit, drain, s, k + 1, Pass(q, c, limit, drain, w))
<1> DEFINE e == Ends(s)[k]
           r == s[k + 1]
           size == SizeOf(r)
           a == Pass(q, c, limit, drain, w)
           m == Mine(s, c, k)
           l == Left(s, c, k)
<1>1. AtRecord(q, c, limit, s, k, w)
  BY RoundAtRecord
<1>2. w \in LoopState /\ s \in Seq(Record) /\ storage \in Storage /\ ring[q].tail = 0 /\ TotalSize(s) <= Slice
  BY DEF AtRound, QueueHolds
<1>3. /\ r \in Record /\ e \in Places /\ Ends(s)[k + 1] = e + size
      /\ e + size <= TotalSize(s) /\ TotalSize(s) \in Nat
      /\ w.cursor = e /\ RecordLies(SliceOf(w.storage, q), e, r)
      /\ ChannelAt(w.storage, q, w.cursor) = r.channel
      /\ SizeAt(w.storage, q, w.cursor) = size
  BY <1>1 DEF AtRecord
<1>4. ~PassHalts(q, c, limit, w) /\ ~(r.channel = c /\ TotalSize(m) + size > limit)
  BY <1>1 DEF AtRecord, Halts
<1>5. PassMoves(q, c, drain, w, a)
  BY <1>2, <1>4, PassDoes
<1>6. /\ a = [storage |-> a.storage, cursor |-> a.cursor, remaining |-> a.remaining,
              retained |-> a.retained, out |-> a.out]
      /\ a.cursor = (e + size) % Slice
      /\ a.remaining = w.remaining - size
      /\ a.out = IF r.channel = c THEN w.out \o Peek(w.storage, q, e, size) ELSE w.out
      /\ a.storage = IF r.channel # c /\ drain
                     THEN Copied(w.storage, q, e, (0 + w.retained) % Slice, size) ELSE w.storage
      /\ a.retained = IF r.channel # c /\ drain THEN w.retained + size ELSE w.retained
  <2> HIDE DEF a
  <2> QED
    BY <1>2, <1>3, <1>5, Zenon DEF PassMoves
<1> HIDE DEF a
<1>7. /\ k \in 0..Len(s) /\ k \in Nat /\ e \in Nat /\ size \in Nat /\ size >= 3 /\ Slice \in Nat \ {0}
  <2>1. size \in Nat /\ size >= 3
    BY <1>3, SizesOfRecords
  <2> QED
    BY <1>2, <1>3, <2>1, SizesAssumption DEF Places
<1>8. /\ m \in Seq(Record) /\ l \in Seq(Record) /\ TotalSize(m) \in Nat /\ TotalSize(l) \in Nat
      /\ TotalSize(m) + TotalSize(l) = e
  BY <1>2, <1>7, PartsOfFirst
<1>9. /\ r.channel = c => Mine(s, c, k + 1) = Append(m, r) /\ Left(s, c, k + 1) = l
      /\ r.channel # c => Mine(s, c, k + 1) = m /\ Left(s, c, k + 1) = Append(l, r)
  BY <1>2, PartsStep
<1>10. /\ w.remaining = TotalSize(s) - e /\ OutHas(w.out, m) /\ Len(w.out) <= limit
       /\ OthersSame(w.storage, q) /\ SameFrom(w.storage, q, e)
       /\ drain => w.retained = TotalSize(l) /\ Lies(SliceOf(w.storage, q), 0, l)
       /\ ~drain => w.retained = 0 /\ w.storage = storage
  BY DEF AtRound
<1>11. w.storage \in Storage /\ w.retained \in Nat /\ w.out \in Seq(CellValues)
  BY <1>2 DEF LoopState
<1> HIDE DEF e, r, size, m, l
<1>12. /\ a.cursor = Ends(s)[k + 1] % Slice /\ a.cursor \in Nat
       /\ a.remaining = TotalSize(s) - Ends(s)[k + 1] /\ a.remaining \in Nat
  <2>1. (e + size) % Slice \in Nat
    BY <1>7
  <2>2. a.remaining = (TotalSize(s) - e) - size
    BY <1>6, <1>10
  <2>3. (TotalSize(s) - e) - size = TotalSize(s) - (e + size) /\ TotalSize(s) - (e + size) \in Nat
    BY <1>3, <1>7
  <2> QED
    BY <1>3, <1>6, <2>1, <2>2, <2>3
<1>13. SameFrom(w.storage, q, Ends(s)[k + 1])
  <2>1. \A j \in Places : e + size <= j => e <= j
    BY <1>7 DEF Places
  <2> QED
    BY <1>3, <1>10, <2>1 DEF SameFrom
<1> SUFFICES AtRound(q, c, limit, drain, s, k + 1, a)
  BY DEF a
<1>14. CASE r.channel = c
  <2>1. /\ a.out = w.out \o Peek(w.storage, q, e, size) /\ a.storage = w.storage /\ a.retained = w.retained
        /\ Mine(s, c, k + 1) = Append(m, r) /\ Left(s, c, k + 1) = l
    BY <1>6, <1>9, <1>14
  <2>2. e + size <= Slice
    BY <1>2, <1>3, <1>7
  <2>3. a.out \in Seq(CellValues) /\ OutHas(a.out, Append(m, r)) /\ Len(a.out) = Len(w.out) + size
    <3>1. r \in Record /\ e \in Nat /\ m \in Seq(Record) /\ w.storage \in Storage /\ w.out \in Seq(CellValues)
      BY <1>3, <1>7, <1>8, <1>11
    <3>2. OutHas(w.out, m) /\ RecordLies(SliceOf(w.storage, q), e, r)
      BY <1>3, <1>10
    <3>3. e + SizeOf(r) <= Slice /\ a.out = w.out \o Peek(w.storage, q, e, SizeOf(r))
      BY <2>1, <2>2 DEF size
    <3>5. PICK st \in Storage, out \in Seq(CellValues), z \in {a.out} : st = w.storage /\ out = w.out /\ z = a.out
      BY <3>1, Zenon
    <3>6. /\ OutHas(out, m) /\ RecordLies(SliceOf(st, q), e, r) /\ e + SizeOf(r) <= Slice
          /\ z = OutWith(out, st, q, e, r)
      BY <3>2, <3>3, <3>5, Zenon DEF OutWith
    <3>7. z \in Seq(CellValues) /\ OutHas(z, Append(m, r)) /\ Len(z) = Len(out) + SizeOf(r)
      BY <3>1, <3>6, OutGrows
    <3> QED
      BY <3>5, <3>7, Zenon DEF size
  <2>4. Len(a.out) <= limit
    <3>1. Len(w.out) = TotalSize(m)
      BY <1>10 DEF OutHas
    <3> QED
      BY <1>4, <1>7, <1>8, <1>14, <2>3, <3>1
  <2>5. a \in LoopState
    BY <1>6, <1>11, <1>12, <2>1, <2>3 DEF LoopState
  <2> QED
    BY <1>10, <1>12, <1>13, <2>1, <2>3, <2>4, <2>5, Zenon DEF AtRound
<1>15. CASE r.channel # c /\ ~drain
  <2>1. /\ a.out = w.out /\ a.storage = w.storage /\ a.retained = w.retained
        /\ Mine(s, c, k + 1) = m
    BY <1>6, <1>9, <1>15
  <2>2. a \in LoopState
    BY <1>6, <1>11, <1>12, <2>1 DEF LoopState
  <2> QED
    BY <1>10, <1>12, <1>13, <1>15, <2>1, <2>2, Zenon DEF AtRound
<1>16. CASE r.channel # c /\ drain
  <2>1. w.retained = TotalSize(l) /\ Lies(SliceOf(w.storage, q), 0, l)
    BY <1>10, <1>16
  <2>2. TotalSize(l) <= e /\ e + size <= Slice /\ TotalSize(l) \in Places
    BY <1>2, <1>3, <1>7, <1>8 DEF Places
  <2>3. (0 + w.retained) % Slice = TotalSize(l)
    <3>1. 0 + w.retained = TotalSize(l)
      BY <1>8, <2>1
    <3> QED
      BY <2>2, <3>1, Wraps
  <2>4. /\ a.out = w.out /\ a.storage = Copied(w.storage, q, e, TotalSize(l), size)
        /\ a.retained = w.retained + size
        /\ Mine(s, c, k + 1) = m /\ Left(s, c, k + 1) = Append(l, r)
    BY <1>6, <1>9, <1>16, <2>3
  <2>5. /\ a.storage \in Storage
        /\ \A p \in Queues : p # q => SliceOf(a.storage, p) = SliceOf(w.storage, p)
        /\ \A j \in Places : e + size <= j => SliceOf(a.storage, q)[j] = SliceOf(w.storage, q)[j]
        /\ Lies(SliceOf(a.storage, q), 0, Append(l, r))
    <3>1. e \in Nat /\ w.storage \in Storage /\ l \in Seq(Record) /\ r \in Record
      BY <1>3, <1>7, <1>8, <1>11
    <3>2. /\ Lies(SliceOf(w.storage, q), 0, l) /\ RecordLies(SliceOf(w.storage, q), e, r)
          /\ e + SizeOf(r) <= Slice /\ TotalSize(l) <= e
          /\ a.storage = Copied(w.storage, q, e, TotalSize(l), SizeOf(r))
      BY <1>3, <2>1, <2>2, <2>4 DEF size
    <3>3. PICK st \in Storage, z \in {a.storage} : st = w.storage /\ z = a.storage
      BY <3>1, Zenon
    <3>4. /\ Lies(SliceOf(st, q), 0, l) /\ RecordLies(SliceOf(st, q), e, r)
          /\ z = Copied(st, q, e, TotalSize(l), SizeOf(r))
      BY <3>2, <3>3, Zenon
    <3>5. MovedAs(z, st, q, e, l, r)
      BY <3>1, <3>2, <3>4, KeptGrows
    <3>6. MovedAs(a.storage, w.storage, q, e, l, r)
      BY <3>3, <3>5, Zenon
    <3> QED
      BY <3>6, Zenon DEF MovedAs, size
  <2>6. TotalSize(Append(l, r)) = TotalSize(l) + size
    BY <1>3, <1>8, TotalStep DEF size
  <2>7. OthersSame(a.storage, q)
    BY <1>10, <2>5 DEF OthersSame
  <2>8. SameFrom(a.storage, q, Ends(s)[k + 1])
    BY <1>3, <1>13, <2>5 DEF SameFrom
  <2>9. a \in LoopState
    <3>1. a.retained \in Nat
      BY <1>7, <1>11, <2>4
    <3> QED
      BY <1>6, <1>11, <1>12, <2>4, <2>5, <3>1 DEF LoopState
  <2> QED
    BY <1>10, <1>12, <1>16, <2>1, <2>4, <2>5, <2>6, <2>7, <2>8, <2>9, Zenon DEF AtRound
<1> QED
  BY <1>14, <1>15, <1>16

\* Before the first round read has looked at no record.
LEMMA RoundZero ==
    ASSUME NEW q \in Queues, NEW s, QueueHolds(q, s), NEW c \in Channels, NEW limit \in Nat,
           NEW drain \in BOOLEAN, NEW w,
           w = [storage |-> storage, cursor |-> ring[q].tail, remaining |-> ring[q].used,
                retained |-> 0, out |-> <<>>]
    PROVE  AtRound(q, c, limit, drain, s, 0, w)
<1>1. /\ storage \in Storage /\ ring[q].tail = 0 /\ ring[q].used = TotalSize(s)
      /\ s \in Seq(Record)
  BY DEF QueueHolds
<1>2. Ends(s)[0] = 0 /\ TotalSize(s) \in Nat
  BY <1>1, EndsRounds
<1>3. 0 % Slice = 0
  BY Wraps
<1>4. Mine(s, c, 0) = <<>> /\ Left(s, c, 0) = <<>>
  BY <1>1, PrefixGrows, NoRecords DEF Mine, Left
<1>5. \A f, p : Lies(f, p, <<>>)
  <2>1. \A i \in 1..Len(<<>>) : FALSE
    OBVIOUS
  <2> QED
    BY <2>1 DEF Lies
<1>6. OutHas(<<>>, <<>>) /\ Len(<<>>) <= limit
  <2>1. Len(<<>>) = 0 /\ TotalSize(<<>>) = 0
    BY NoRecords
  <2> QED
    BY <1>5, <2>1 DEF OutHas
<1>7. w \in LoopState
  <2>1. <<>> \in Seq(CellValues)
    OBVIOUS
  <2> QED
    BY <1>1, <1>2, <2>1 DEF LoopState
<1>8. OthersSame(storage, q) /\ SameFrom(storage, q, 0)
  BY DEF OthersSame, SameFrom
<1>9. /\ w.storage = storage /\ w.cursor = 0 /\ w.remaining = TotalSize(s) - 0 /\ w.retained = 0
      /\ w.out = <<>>
  BY <1>1, <1>2
<1>10. TotalSize(<<>>) = 0
  BY NoRecords
<1> QED
  BY <1>2, <1>3, <1>4, <1>5, <1>6, <1>7, <1>8, <1>9, <1>10 DEF AtRound

\* The loop ends behind the last record, or before one that there is no room for.
LEMMA PassedIs ==
    ASSUME NEW q \in Queues, NEW s, QueueHolds(q, s), NEW c \in Channels, NEW limit \in Nat,
           NEW drain \in BOOLEAN
    PROVE  \E k \in 0..Len(s) : /\ AtRound(q, c, limit, drain, s, k, Passed(q, c, limit, drain))
                                /\ Halts(c, limit, s, k)
<1> DEFINE first == [storage |-> storage, cursor |-> ring[q].tail, remaining |-> ring[q].used,
                     retained |-> 0, out |-> <<>>]
           T == {w \in LoopState : \E k \in 0..Len(s) : AtRound(q, c, limit, drain, s, k, w)}
           step == [p \in (1..Slice) \X T |-> Pass(q, c, limit, drain, p[2])]
           Defines(f) == f = [n \in 0..Slice |-> IF n = 0 THEN first ELSE Pass(q, c, limit, drain, f[n - 1])]
           g == CHOOSE f : Defines(f)
<1>1. s \in Seq(Record) /\ Len(s) \in Nat /\ TotalSize(s) <= Slice
  BY DEF QueueHolds
<1>2. Slice \in Nat /\ Slice # 0
  BY SizesAssumption
<1>3. AtRound(q, c, limit, drain, s, 0, first)
  BY RoundZero
<1>4. \A w : \A k \in 0..Len(s) : AtRound(q, c, limit, drain, s, k, w) => w \in T
  BY DEF AtRound
<1>5. first \in T
  <2>1. 0 \in 0..Len(s)
    BY <1>1
  <2> HIDE DEF T, first
  <2> QED
    BY <1>3, <1>4, <2>1
<1> HIDE DEF first
<1>6. ASSUME NEW k \in 0..Len(s), NEW w, AtRound(q, c, limit, drain, s, k, w)
      PROVE  \/ Halts(c, limit, s, k) /\ Pass(q, c, limit, drain, w) = w
             \/ /\ k \in 0..(Len(s) - 1) /\ k + 1 \in 0..Len(s)
                /\ AtRound(q, c, limit, drain, s, k + 1, Pass(q, c, limit, drain, w))
  <2>1. CASE Halts(c, limit, s, k)
    BY <1>6, <2>1, PassAtEnd
  <2>2. CASE ~Halts(c, limit, s, k)
    <3>1. k \in 0..(Len(s) - 1) /\ k + 1 \in 0..Len(s)
      BY <1>1, <2>2 DEF Halts
    <3> QED
      BY <1>6, <2>2, <3>1, PassAdvances
  <2> QED
    BY <2>1, <2>2
<1>7. step \in [(1..Slice) \X T -> T]
  <2> SUFFICES ASSUME NEW n \in 1..Slice, NEW w \in T PROVE Pass(q, c, limit, drain, w) \in T
    <3> HIDE DEF T
    <3> QED
      OBVIOUS
  <2>1. PICK k \in 0..Len(s) : AtRound(q, c, limit, drain, s, k, w)
    OBVIOUS
  <2>2. w \in T
    OBVIOUS
  <2> HIDE DEF T
  <2> QED
    BY <1>4, <1>6, <2>1, <2>2
<1>8. PICK f \in [0..Slice -> T] :
          f[0] = first /\ \A i \in 0..(Slice - 1) : f[i + 1] = step[<<i + 1, f[i]>>]
  <2> HIDE DEF step, T
  <2>1. \E f : IsLoop(f, T, first, Slice, step)
    BY <1>2, <1>5, <1>7, LoopHasStates
  <2> QED
    BY <2>1 DEF IsLoop
<1> HIDE DEF T
<1>9. \A i \in 0..(Slice - 1) : f[i + 1] = Pass(q, c, limit, drain, f[i])
  <2> SUFFICES ASSUME NEW i \in 0..(Slice - 1) PROVE f[i + 1] = Pass(q, c, limit, drain, f[i])
    OBVIOUS
  <2>1. i + 1 \in 1..Slice /\ i \in 0..Slice
    BY <1>2
  <2>2. <<i + 1, f[i]>> \in (1..Slice) \X T
    BY <2>1
  <2>3. step[<<i + 1, f[i]>>] = Pass(q, c, limit, drain, f[i])
    BY <2>2
  <2> QED
    BY <1>8, <2>3
<1>10. \A n \in 0..Slice : n = 0 \/ (n - 1 \in 0..(Slice - 1) /\ n - 1 + 1 = n)
  BY <1>2
<1>11. Passed(q, c, limit, drain) = g[Slice]
  BY DEF Passed, first
<1>12. Defines(f)
  <2>1. \A n \in 0..Slice : f[n] = IF n = 0 THEN first ELSE Pass(q, c, limit, drain, f[n - 1])
    BY <1>8, <1>9, <1>10
  <2> QED
    BY <2>1
<1>13. Defines(g)
  <2> HIDE DEF Defines
  <2> QED
    BY <1>12
<1> HIDE DEF g
<1>14. g[0] = first /\ \A n \in 0..(Slice - 1) : g[n + 1] = Pass(q, c, limit, drain, g[n])
  <2>1. \A m \in 0..Slice : g[m] = IF m = 0 THEN first ELSE Pass(q, c, limit, drain, g[m - 1])
    BY <1>13, Zenon
  <2>2. \A n \in 0..(Slice - 1) : n + 1 \in 0..Slice /\ n + 1 # 0 /\ n + 1 - 1 = n
    BY <1>2
  <2>3. 0 \in 0..Slice
    BY <1>2
  <2> QED
    BY <2>1, <2>2, <2>3
<1> DEFINE Good(n) == \E k \in 0..Len(s) : /\ AtRound(q, c, limit, drain, s, k, g[n])
                                           /\ k = n \/ Halts(c, limit, s, k)
           P == {n \in 0..Slice : Good(n)}
<1>15. 0 \in P
  <2>1. 0 \in 0..Len(s) /\ 0 \in 0..Slice
    BY <1>1, <1>2
  <2> QED
    BY <1>3, <1>14, <2>1
<1>16. ASSUME NEW n \in 0..(Slice - 1), n \in P PROVE n + 1 \in P
  <2>1. n + 1 \in 0..Slice
    BY <1>2
  <2>2. PICK k \in 0..Len(s) : AtRound(q, c, limit, drain, s, k, g[n]) /\ (k = n \/ Halts(c, limit, s, k))
    <3>1. Good(n)
      <4> HIDE DEF Good
      <4> QED
        BY <1>16
    <3> QED
      BY <3>1
  <2>3. g[n + 1] = Pass(q, c, limit, drain, g[n])
    BY <1>14
  <2>4. CASE Halts(c, limit, s, k)
    <3>1. g[n + 1] = g[n]
      BY <2>2, <2>3, <2>4, PassAtEnd
    <3> QED
      BY <2>1, <2>2, <2>4, <3>1
  <2>5. CASE ~Halts(c, limit, s, k)
    <3>1. k + 1 \in 0..Len(s) /\ AtRound(q, c, limit, drain, s, k + 1, g[n + 1]) /\ k + 1 = n + 1
      BY <1>6, <2>2, <2>3, <2>5
    <3> QED
      BY <2>1, <3>1
  <2> QED
    BY <2>4, <2>5
<1>17. \A n \in 0..Slice : n \in P
  <2> HIDE DEF P
  <2> QED
    BY <1>2, <1>15, <1>16, LoopInvariant
<1>18. PICK k \in 0..Len(s) : AtRound(q, c, limit, drain, s, k, g[Slice]) /\ (k = Slice \/ Halts(c, limit, s, k))
  <2>1. Good(Slice)
    <3> HIDE DEF Good
    <3>1. Slice \in 0..Slice
      BY <1>2
    <3>2. Slice \in P
      BY <1>17, <3>1
    <3> QED
      BY <3>2
  <2> QED
    BY <2>1
<1>19. k # Slice
  <2> SUFFICES ASSUME k = Slice PROVE FALSE
    OBVIOUS
  <2>1. /\ 0 \in 0..Len(s) /\ k \in 0..Len(s) /\ k - 0 = k
        /\ Len(s) \in k..Len(s) /\ Len(s) - k \in Nat
    BY <1>1
  <2>2. Ends(s)[0] + 3 * (k - 0) <= Ends(s)[k]
    BY <1>1, <2>1, EndsGrow
  <2>3. Ends(s)[k] + 3 * (Len(s) - k) <= Ends(s)[Len(s)]
    BY <1>1, <2>1, EndsGrow
  <2>4. Ends(s)[0] = 0 /\ Ends(s)[k] \in Nat /\ TotalSize(s) = Ends(s)[Len(s)] /\ TotalSize(s) \in Nat
    BY <1>1, EndsRounds
  <2> QED
    BY <1>1, <1>2, <2>1, <2>2, <2>3, <2>4
<1> QED
  BY <1>11, <1>18, <1>19

\* The first k entries and the others are the whole sequence.
LEMMA FirstAndRest ==
    ASSUME NEW s \in Seq(Record), NEW k \in 0..Len(s)
    PROVE  SubSeq(s, 1, k) \o Rest(s, k) = s
<1> DEFINE a == SubSeq(s, 1, k)
           b == Rest(s, k)
<1>1. a \in Seq(Record) /\ Len(a) = k /\ \A i \in 1..k : a[i] = s[i]
  BY PrefixGrows
<1>2. b \in Seq(Record) /\ Len(b) = Len(s) - k /\ \A i \in 1..(Len(s) - k) : b[i] = s[k + i]
  BY RestIs
<1>3. k \in Nat /\ Len(s) \in Nat
  OBVIOUS
<1> HIDE DEF a, b
<1>4. /\ a \o b \in Seq(Record) /\ Len(a \o b) = Len(a) + Len(b)
      /\ \A i \in 1..(Len(a) + Len(b)) : (a \o b)[i] = IF i <= Len(a) THEN a[i] ELSE b[i - Len(a)]
  BY <1>1, <1>2, ConcatProperties
<1>5. ASSUME NEW i \in 1..Len(s) PROVE (a \o b)[i] = s[i]
  <2>1. i \in 1..(Len(a) + Len(b))
    BY <1>1, <1>2, <1>3
  <2>2. (a \o b)[i] = IF i <= Len(a) THEN a[i] ELSE b[i - Len(a)]
    BY <1>4, <2>1
  <2>3. CASE i <= k
    BY <1>1, <1>3, <2>2, <2>3
  <2>4. CASE ~(i <= k)
    <3>1. i - k \in 1..(Len(s) - k) /\ k + (i - k) = i
      BY <1>3, <2>4
    <3>2. (a \o b)[i] = b[i - k]
      BY <1>1, <2>2, <2>4
    <3> QED
      BY <1>2, <3>1, <3>2
  <2> QED
    BY <2>3, <2>4
<1>6. Len(a \o b) = Len(s)
  BY <1>1, <1>2, <1>3, <1>4
<1>7. a \o b = s
  BY <1>4, <1>5, <1>6, SeqEqual
<1> QED
  BY <1>7 DEF a, b

\* A limit that no record fits: the records before the first of the channel.
LEMMA NothingFits ==
    ASSUME NEW s \in Seq(Record), NEW c \in Channels, NEW limit \in Nat, limit < HeaderSize
    PROVE  \E k \in 0..Len(s) : /\ Halts(c, limit, s, k)
                                /\ Mine(s, c, k) = <<>> /\ Left(s, c, k) = SubSeq(s, 1, k)
<1> DEFINE None(n) == Mine(s, c, n) = <<>> /\ Left(s, c, n) = SubSeq(s, 1, n)
           Goal == \E k \in 0..Len(s) : Halts(c, limit, s, k) /\ None(k)
           P == {n \in 0..Len(s) : None(n) \/ Goal}
<1>1. Len(s) \in Nat
  OBVIOUS
<1>2. None(0)
  BY PrefixGrows, NoRecords DEF Mine, Left
<1>3. ASSUME NEW n \in 0..(Len(s) - 1), None(n) PROVE None(n + 1) \/ Halts(c, limit, s, n)
  <2>1. n + 1 \in 1..Len(s)
    OBVIOUS
  <2>2. s[n + 1] \in Record
    BY <2>1
  <2>3. SizeOf(s[n + 1]) \in Nat /\ SizeOf(s[n + 1]) >= 3
    BY <2>2, SizesOfRecords
  <2>4. TotalSize(Mine(s, c, n)) = 0
    BY <1>3, NoRecords
  <2>5. CASE s[n + 1].channel = c
    <3>1. TotalSize(Mine(s, c, n)) + SizeOf(s[n + 1]) > limit
      BY <2>3, <2>4 DEF HeaderSize
    <3> QED
      BY <2>5, <3>1 DEF Halts
  <2>6. CASE s[n + 1].channel # c
    <3>1. Mine(s, c, n + 1) = Mine(s, c, n) /\ Left(s, c, n + 1) = Append(Left(s, c, n), s[n + 1])
      BY <2>6, PartsStep
    <3>2. SubSeq(s, 1, n + 1) = Append(SubSeq(s, 1, n), s[n + 1])
      BY PrefixGrows
    <3> QED
      BY <1>3, <3>1, <3>2
  <2> QED
    BY <2>5, <2>6
<1> HIDE DEF None
<1>4. 0 \in P
  BY <1>1, <1>2
<1>5. ASSUME NEW n \in 0..(Len(s) - 1), n \in P PROVE n + 1 \in P
  <2>1. n + 1 \in 0..Len(s) /\ n \in 0..Len(s)
    BY <1>1
  <2>2. None(n) \/ Goal
    <3> HIDE DEF Goal
    <3> QED
      BY <1>5
  <2>3. None(n + 1) \/ Goal
    BY <1>3, <2>1, <2>2
  <2> HIDE DEF Goal
  <2> QED
    BY <2>1, <2>3
<1>6. None(Len(s)) \/ Goal
  <2>1. \A n \in 0..Len(s) : n \in P
    <3> HIDE DEF P
    <3> QED
      BY <1>1, <1>4, <1>5, LoopInvariant
  <2>2. Len(s) \in P
    BY <1>1, <2>1
  <2> HIDE DEF Goal
  <2> QED
    BY <2>2
<1>7. Halts(c, limit, s, Len(s)) /\ Len(s) \in 0..Len(s)
  BY <1>1 DEF Halts
<1>8. Goal
  BY <1>6, <1>7
<1> QED
  BY <1>8 DEF None

\* A position wrapped to the slice is a place of it.
LEMMA InPlaces == \A n \in Nat : n % Slice \in Places
  BY SizesAssumption DEF Places

\* Copying no bytes changes nothing.
LEMMA CopiedNone ==
    ASSUME NEW st \in Storage, NEW q \in Queues, NEW source \in Places, NEW destination \in Places
    PROVE  Copied(st, q, source, destination, 0) = st
<1>1. source + 0 <= Slice /\ destination + 0 <= Slice /\ 0 \in Nat
  BY SizesAssumption DEF Places
<1>2. PICK g : g[0] = st /\ Copied(st, q, source, destination, 0) = g[0]
  <2>1. PICK g : IsCopying(g, st, q, source, destination, 0)
    BY <1>1, CopiedRounds
  <2> QED
    BY <2>1, Zenon DEF IsCopying
<1> QED
  BY <1>2

\* What the queue keeps, t, and the array it lies in.
KeptAs(t, q, s, w, st) ==
    /\ t \in Seq(Record) /\ TotalSize(t) = w.retained + w.remaining
    /\ TotalSize(t) <= TotalSize(s)
    /\ st \in Storage /\ OthersSame(st, q) /\ Lies(SliceOf(st, q), 0, t)

\* The rest of a queue, moved down behind what was kept of the first records.
LEMMA RestMoved ==
    ASSUME NEW q \in Queues, NEW s, QueueHolds(q, s), NEW c \in Channels, NEW limit \in Nat,
           NEW k \in 0..Len(s), NEW w, AtRound(q, c, limit, TRUE, s, k, w),
           NEW st, st = Copied(w.storage, q, w.cursor, (ring[q].tail + w.retained) % Slice, w.remaining),
           NEW t, t = Left(s, c, k) \o Rest(s, k)
    PROVE  KeptAs(t, q, s, w, st)
<1> DEFINE e == Ends(s)[k]
           l == Left(s, c, k)
           b == Rest(s, k)
           d == TotalSize(l)
           x == TotalSize(b)
           f == SliceOf(storage, q)
           g == SliceOf(w.storage, q)
           h == SliceOf(st, q)
<1>1. s \in Seq(Record) /\ Lies(f, 0, s) /\ TotalSize(s) <= Slice /\ ring[q].tail = 0
  BY DEF QueueHolds
<1>2. /\ w.cursor = e % Slice /\ w.remaining = TotalSize(s) - e
      /\ OthersSame(w.storage, q) /\ SameFrom(w.storage, q, e)
      /\ w.retained = d /\ Lies(g, 0, l) /\ w.storage \in Storage
  BY DEF AtRound, LoopState
<1>3. /\ l \in Seq(Record) /\ d \in Nat /\ TotalSize(Mine(s, c, k)) \in Nat
      /\ TotalSize(Mine(s, c, k)) + d = e
  BY <1>1, PartsOfFirst
<1>4. b \in Seq(Record) /\ TotalSize(s) = e + x
  BY <1>1, RestIs, TotalOfRest
<1>5. x \in Nat /\ e \in Nat /\ Slice \in Nat \ {0}
  BY <1>1, <1>3, <1>4, EndsRounds, SizesAssumption
<1>6. Lies(f, e, b)
  <2>1. 0 \in Nat /\ 0 + e = e
    BY <1>5
  <2>2. Lies(f, 0 + e, b)
    BY <1>1, <2>1, LiesRest
  <2> QED
    BY <2>1, <2>2
<1>7. /\ l \o b \in Seq(Record) /\ TotalSize(l \o b) = d + x
  BY <1>3, <1>4, TotalOfBoth
<1> HIDE DEF e, l, b, d, x, f, g, h
<1>8. w.remaining = x /\ d <= e /\ e + x <= Slice
  BY <1>1, <1>2, <1>3, <1>4, <1>5
<1>9. \A j \in Places : e <= j => g[j] = f[j]
  BY <1>2 DEF SameFrom, g, f
<1>10. st = Copied(w.storage, q, e % Slice, (0 + d) % Slice, x)
  BY <1>1, <1>2, <1>8
<1>11. 0 + d = d /\ e % Slice \in Places /\ d % Slice \in Places
  BY <1>3, <1>5, InPlaces
<1>12. /\ st \in Storage /\ OthersSame(st, q)
       /\ \A j \in Places : j < d => h[j] = g[j]
       /\ \A i \in 0..(x - 1) : h[d + i] = f[e + i]
  <2>1. CASE x = 0
    <3>1. st = w.storage
      BY <1>2, <1>10, <1>11, <2>1, CopiedNone
    <3>2. \A i \in 0..(x - 1) : FALSE
      BY <2>1
    <3> QED
      BY <1>2, <3>1, <3>2 DEF h, g
  <2>2. CASE x # 0
    <3>1. e \in Places /\ d \in Places
      BY <1>3, <1>5, <1>8, <2>2 DEF Places
    <3>2. st = Copied(w.storage, q, e, d, x)
      BY <1>10, <1>11, <3>1, Wraps
    <3>3. /\ st \in Storage
          /\ \A p \in Queues : p # q => SliceOf(st, p) = SliceOf(w.storage, p)
          /\ \A j \in Places : h[j] = IF j \in d..(d + x - 1) THEN g[e + (j - d)] ELSE g[j]
      <4>1. w.storage \in Storage /\ e + x <= Slice /\ d <= e /\ x \in Nat
        BY <1>2, <1>5, <1>8
      <4>2. CopiedAs(Copied(w.storage, q, e, d, x), w.storage, q, e, d, x)
        BY <3>1, <4>1, CopiedIs
      <4>3. CopiedAs(st, w.storage, q, e, d, x)
        BY <3>2, <4>2
      <4> QED
        BY <4>3, Zenon DEF CopiedAs, h, g
    <3>4. OthersSame(st, q)
      BY <1>2, <3>3 DEF OthersSame
    <3>5. ASSUME NEW j \in Places, j < d PROVE h[j] = g[j]
      <4>1. j \notin d..(d + x - 1)
        BY <1>3, <1>5, <3>5 DEF Places
      <4> QED
        BY <3>3, <4>1
    <3>6. ASSUME NEW i \in 0..(x - 1) PROVE h[d + i] = f[e + i]
      <4>1. d + i \in Places /\ d + i \in d..(d + x - 1) /\ e + ((d + i) - d) = e + i
            /\ e + i \in Places /\ e <= e + i
        BY <1>3, <1>5, <1>8 DEF Places
      <4>2. h[d + i] = g[e + ((d + i) - d)]
        BY <3>3, <4>1
      <4> QED
        BY <1>9, <4>1, <4>2
    <3> QED
      BY <3>3, <3>4, <3>5, <3>6
  <2> QED
    BY <2>1, <2>2
<1>13. Lies(h, 0, l)
  <2>1. SameCells(g, 0, h, 0, d)
    <3> SUFFICES ASSUME NEW i \in 0..(d - 1) PROVE h[0 + i] = g[0 + i]
      BY DEF SameCells
    <3>1. i \in Places /\ i < d /\ 0 + i = i
      BY <1>3, <1>5, <1>8 DEF Places
    <3> QED
      BY <1>12, <3>1
  <2>2. 0 \in Nat
    OBVIOUS
  <2> QED
    BY <1>2, <1>3, <2>1, <2>2, LiesMoved DEF d
<1>14. Lies(h, d, b)
  <2>1. SameCells(f, e, h, d, x)
    BY <1>12 DEF SameCells
  <2> QED
    BY <1>3, <1>4, <1>5, <1>6, <2>1, LiesMoved DEF x
<1>15. Lies(h, 0, l \o b)
  <2>1. 0 \in Nat /\ 0 + d = d
    BY <1>3
  <2> QED
    BY <1>3, <1>4, <1>13, <1>14, <2>1, LiesBoth DEF d
<1>16. TotalSize(l \o b) <= TotalSize(s) /\ TotalSize(l \o b) = w.retained + w.remaining
  BY <1>2, <1>3, <1>4, <1>5, <1>7, <1>8
<1>17. t = l \o b
  BY DEF l, b
<1> QED
  BY <1>7, <1>12, <1>15, <1>16, <1>17 DEF h, KeptAs

-----------------------------------------------------------------------------
(* Steps of the queues                                                      *)

\* The same of an array and rings that may be those after a step.
HoldsIn(st, rg, q, s) ==
    /\ st \in Storage
    /\ rg[q].tail = 0 /\ rg[q].used = TotalSize(s) /\ TotalSize(s) <= Slice
    /\ s \in Seq(Record) /\ Lies(SliceOf(st, q), 0, s)

\* Parsing the used bytes of a slice that holds s gives s: no header is lost and no
\* data is taken for a header.
LEMMA ParsedFrom ==
    ASSUME NEW st, NEW rg, NEW q \in Queues, NEW s, HoldsIn(st, rg, q, s)
    PROVE  Parsed(Peek(st, q, rg[q].tail, rg[q].used)) = s
<1> DEFINE x == TotalSize(s)
           cells == Peek(st, q, 0, x)
           f == SliceOf(st, q)
<1>1. /\ st \in Storage /\ s \in Seq(Record) /\ rg[q].tail = 0 /\ rg[q].used = x /\ x <= Slice
      /\ Lies(f, 0, s)
  BY DEF HoldsIn
<1>2. x \in Nat /\ Slice \in Nat
  BY <1>1, EndsRounds, SizesAssumption
<1> HIDE DEF x, f
<1>3. cells = [i \in 1..x |-> st[Cell(q, (0 + i - 1) % Slice)]]
  BY DEF Peek
<1> HIDE DEF cells
<1>4. ASSUME NEW i \in 1..x PROVE cells[i] = f[i - 1] /\ cells[i] \in CellValues
  <2>1. i - 1 \in Places /\ 0 + i - 1 = i - 1
    BY <1>1, <1>2 DEF Places
  <2>2. (0 + i - 1) % Slice = i - 1
    BY <2>1, Wraps
  <2>3. cells[i] = st[Cell(q, i - 1)]
    BY <1>3, <2>2
  <2>4. f[i - 1] = st[Cell(q, i - 1)]
    BY <2>1 DEF f, SliceOf
  <2>5. Cell(q, i - 1) \in Cells
    BY <2>1, CellsApart
  <2>6. st[Cell(q, i - 1)] \in CellValues
    BY <1>1, <2>5 DEF Storage
  <2> QED
    BY <2>3, <2>4, <2>6
<1>5. cells \in [1..x -> CellValues]
  BY <1>3, <1>4
<1>6. cells \in Seq(CellValues) /\ Len(cells) = x
  BY <1>2, <1>5, FunctionIsSeq
<1>7. Lies(cells, 1, s)
  <2>1. SameCells(f, 0, cells, 1, x)
    <3> SUFFICES ASSUME NEW i \in 0..(x - 1) PROVE cells[1 + i] = f[0 + i]
      BY DEF SameCells
    <3>1. 1 + i \in 1..x /\ (1 + i) - 1 = 0 + i
      BY <1>2
    <3> QED
      BY <1>4, <3>1
  <2>2. 0 \in Nat /\ 1 \in Nat
    OBVIOUS
  <2> QED
    BY <1>1, <2>1, <2>2, LiesMoved DEF x
<1>8. (Len(cells) = 0 => cells = <<>>) /\ (Len(cells) # 0 => cells # <<>>)
  BY <1>6
<1>9. Parsed(cells) = s
  BY <1>1, <1>6, <1>7, <1>8, ParsedIs DEF x
<1> QED
  BY <1>1, <1>9 DEF cells

\* Rings.
Ring == [head : Nat, tail : Nat, used : Nat, overflow : Nat]

\* The ring of a queue that holds s.
RingOf(rg, q, s) ==
    rg[q].tail = 0 /\ rg[q].used = TotalSize(s) /\ rg[q].head = TotalSize(s) % Slice

\* What read does to a queue that holds s: it looks at the first k records.
ReadTo(q, c, limit, drain, s, k) ==
    LET t == Left(s, c, k) \o Rest(s, k)
    IN  /\ Halts(c, limit, s, k) /\ TotalSize(Mine(s, c, k)) <= limit
        /\ Parsed(answer') = Mine(s, c, k)
        /\ ~drain => storage' = storage /\ ring' = ring
        /\ drain => /\ HoldsIn(storage', ring', q, t)
                    /\ OthersSame(storage', q)
                    /\ ring' \in [Queues -> Ring] /\ RingOf(ring', q, t)
                    /\ ring'[q].overflow = ring[q].overflow
                    /\ \A p \in Queues : p # q => ring'[p] = ring[p]

\* read looks at the first k records for some k, answers those of the channel and,
\* when it drains, keeps all the others in order.
LEMMA ReadIs ==
    ASSUME NEW q \in Queues, NEW s, QueueHolds(q, s), ring \in [Queues -> Ring], RingOf(ring, q, s),
           NEW c \in Channels, NEW limit \in Nat, NEW drain \in BOOLEAN, Read(q, c, limit, drain)
    PROVE  \E k \in 0..Len(s) : ReadTo(q, c, limit, drain, s, k)
<1>1. s \in Seq(Record) /\ storage \in Storage /\ TotalSize(s) <= Slice /\ ring[q].tail = 0
  BY DEF QueueHolds
<1>2. CASE limit < HeaderSize
  <2>1. answer' = <<>> /\ storage' = storage /\ ring' = ring
    BY <1>2 DEF Read
  <2>2. PICK k \in 0..Len(s) : /\ Halts(c, limit, s, k)
                               /\ Mine(s, c, k) = <<>> /\ Left(s, c, k) = SubSeq(s, 1, k)
    BY <1>1, <1>2, NothingFits
  <2>3. Left(s, c, k) \o Rest(s, k) = s
    BY <1>1, <2>2, FirstAndRest
  <2>4. TotalSize(Mine(s, c, k)) <= limit /\ Parsed(answer') = Mine(s, c, k)
    BY <2>1, <2>2, NoRecords DEF Parsed
  <2>5. HoldsIn(storage', ring', q, s) /\ OthersSame(storage', q)
    BY <2>1 DEF HoldsIn, QueueHolds, OthersSame
  <2>6. ReadTo(q, c, limit, drain, s, k)
    BY <2>1, <2>2, <2>3, <2>4, <2>5 DEF ReadTo
  <2> QED
    BY <2>6
<1>3. CASE ~(limit < HeaderSize)
  <2> DEFINE w == Passed(q, c, limit, drain)
             kept == w.retained + w.remaining
             st == Copied(w.storage, q, w.cursor, (ring[q].tail + w.retained) % Slice, w.remaining)
  <2>1. /\ answer' = w.out
        /\ storage' = IF drain THEN st ELSE storage
        /\ ring' = IF drain THEN [ring EXCEPT ![q].used = kept, ![q].head = (ring[q].tail + kept) % Slice]
                   ELSE ring
    BY <1>3 DEF Read
  <2>2. PICK k \in 0..Len(s) : AtRound(q, c, limit, drain, s, k, w) /\ Halts(c, limit, s, k)
    BY PassedIs
  <2> HIDE DEF w
  <2>3. Mine(s, c, k) \in Seq(Record)
    BY <1>1, PartsOfFirst
  <2>4. OutHas(w.out, Mine(s, c, k)) /\ Len(w.out) <= limit /\ w.out \in Seq(CellValues)
    BY <2>2 DEF AtRound, LoopState
  <2>5. TotalSize(Mine(s, c, k)) <= limit /\ Parsed(answer') = Mine(s, c, k)
    <3>1. Len(w.out) = TotalSize(Mine(s, c, k)) /\ Lies(w.out, 1, Mine(s, c, k))
      BY <2>4 DEF OutHas
    <3>2. (Len(w.out) = 0 => w.out = <<>>) /\ (Len(w.out) # 0 => w.out # <<>>)
      BY <2>4
    <3>3. Parsed(w.out) = Mine(s, c, k)
      BY <2>3, <3>1, <3>2, ParsedIs
    <3> QED
      BY <2>1, <2>4, <3>1, <3>3
  <2>6. CASE ~drain
    <3>1. storage' = storage /\ ring' = ring
      BY <2>1, <2>6
    <3> QED
      BY <2>2, <2>5, <2>6, <3>1 DEF ReadTo
  <2>7. CASE drain
    <3> DEFINE t == Left(s, c, k) \o Rest(s, k)
    <3>1. /\ t \in Seq(Record) /\ TotalSize(t) = kept /\ TotalSize(t) <= TotalSize(s)
          /\ st \in Storage /\ OthersSame(st, q) /\ Lies(SliceOf(st, q), 0, t)
      <4>1. drain = TRUE
        BY <2>7
      <4>2. AtRound(q, c, limit, TRUE, s, k, w)
        BY <2>2, <4>1
      <4>3. KeptAs(t, q, s, w, st)
        BY <4>2, RestMoved
      <4> QED
        BY <4>3, Zenon DEF KeptAs
    <3>2. kept \in Nat /\ TotalSize(s) \in Nat
      BY <1>1, <3>1, EndsRounds
    <3> HIDE DEF kept, st
    <3>3. storage' = st /\ ring' = [ring EXCEPT ![q].used = kept, ![q].head = (ring[q].tail + kept) % Slice]
      BY <2>1, <2>7
    <3>4. ring[q].tail + kept = kept /\ kept % Slice \in Nat /\ 0 + kept = kept
      <4>1. kept % Slice \in Places
        BY <3>2, InPlaces
      <4>2. kept % Slice \in Nat
        BY <4>1, Wraps
      <4> QED
        BY <1>1, <3>2, <4>2
    <3>5. PICK h \in Nat : h = (ring[q].tail + kept) % Slice
      BY <3>4
    <3>6. ring' = [ring EXCEPT ![q].used = kept, ![q].head = h]
      BY <3>3, <3>5
    <3>7. /\ ring' \in [Queues -> Ring]
          /\ ring'[q].tail = ring[q].tail /\ ring'[q].overflow = ring[q].overflow
          /\ ring'[q].used = kept /\ ring'[q].head = h
          /\ \A p \in Queues : p # q => ring'[p] = ring[p]
      BY <3>2, <3>6 DEF Ring
    <3> HIDE DEF t
    <3>8. RingOf(ring', q, t)
      BY <1>1, <3>1, <3>4, <3>5, <3>7 DEF RingOf
    <3>9. HoldsIn(storage', ring', q, t)
      <4>1. TotalSize(t) <= Slice
        BY <1>1, <3>1, <3>2, SizesAssumption
      <4> QED
        BY <1>1, <3>1, <3>3, <3>7, <4>1 DEF HoldsIn
    <3>10. OthersSame(storage', q)
      BY <3>1, <3>3
    <3> QED
      BY <2>2, <2>5, <2>7, <3>7, <3>8, <3>9, <3>10 DEF ReadTo, t
  <2> QED
    BY <2>6, <2>7
<1> QED
  BY <1>2, <1>3

\* What push does to a queue that holds s: r is appended, or it is counted.
PushTo(q, s, r) ==
    \/ /\ TotalSize(s) + SizeOf(r) > Slice
       /\ storage' = storage
       /\ ring' \in [Queues -> Ring] /\ RingOf(ring', q, s)
       /\ ring'[q].overflow = ring[q].overflow + 1
       /\ \A p \in Queues : p # q => ring'[p] = ring[p]
    \/ /\ TotalSize(s) + SizeOf(r) <= Slice
       /\ HoldsIn(storage', ring', q, Append(s, r)) /\ OthersSame(storage', q)
       /\ ring' \in [Queues -> Ring] /\ RingOf(ring', q, Append(s, r))
       /\ ring'[q].overflow = ring[q].overflow
       /\ \A p \in Queues : p # q => ring'[p] = ring[p]

\* The cells of a record.
CellsOf(r) == <<r.channel, r.length>> \o [i \in 1..r.length |-> r.stamp]

\* The cells of a record are its header and its data.
LEMMA CellsOfRecord ==
    ASSUME NEW r \in Record
    PROVE  /\ CellsOf(r) \in Seq(CellValues) /\ Len(CellsOf(r)) = SizeOf(r)
           /\ CellsOf(r)[1] = r.channel /\ CellsOf(r)[2] = r.length
           /\ \A j \in 2..(1 + r.length) : CellsOf(r)[j + 1] = r.stamp
<1> DEFINE n == r.length
           a == <<r.channel, n>>
           b == [i \in 1..n |-> r.stamp]
<1>1. r.channel \in CellValues /\ n \in Nat \ {0} /\ n \in CellValues /\ r.stamp \in CellValues /\ SizeOf(r) = 2 + n
  BY SizesOfRecords DEF CellValues
<1>2. a \in Seq(CellValues) /\ Len(a) = 2 /\ a[1] = r.channel /\ a[2] = n
  BY <1>1
<1>3. b \in [1..n -> CellValues] /\ \A i \in 1..n : b[i] = r.stamp
  BY <1>1
<1>4. b \in Seq(CellValues) /\ Len(b) = n
  BY <1>1, <1>3, FunctionIsSeq
<1> HIDE DEF a, b, n
<1>5. /\ a \o b \in Seq(CellValues) /\ Len(a \o b) = Len(a) + Len(b)
      /\ \A i \in 1..(Len(a) + Len(b)) : (a \o b)[i] = IF i <= Len(a) THEN a[i] ELSE b[i - Len(a)]
  BY <1>2, <1>4, ConcatProperties
<1>6. (a \o b)[1] = r.channel /\ (a \o b)[2] = n
  <2>1. 1 \in 1..(Len(a) + Len(b)) /\ 2 \in 1..(Len(a) + Len(b)) /\ 1 <= Len(a) /\ 2 <= Len(a)
    BY <1>1, <1>2, <1>4
  <2> QED
    BY <1>2, <1>5, <2>1
<1>7. ASSUME NEW j \in 2..(1 + n) PROVE (a \o b)[j + 1] = r.stamp
  <2>1. /\ j + 1 \in 1..(Len(a) + Len(b)) /\ ~(j + 1 <= Len(a))
        /\ (j + 1) - Len(a) = j - 1 /\ j - 1 \in 1..n
    BY <1>1, <1>2, <1>4
  <2>2. (a \o b)[j + 1] = b[(j + 1) - Len(a)]
    BY <1>5, <2>1
  <2> QED
    BY <1>3, <2>1, <2>2
<1>8. CellsOf(r) = a \o b
  BY DEF CellsOf, a, b, n
<1> QED
  BY <1>1, <1>2, <1>4, <1>5, <1>6, <1>7, <1>8 DEF n

\* push appends the whole record or, when it does not fit, only counts it.
LEMMA PushIs ==
    ASSUME NEW q \in Queues, NEW s, QueueHolds(q, s), ring \in [Queues -> Ring], RingOf(ring, q, s),
           NEW r \in Record, Push(q, CellsOf(r))
    PROVE  PushTo(q, s, r)
<1> DEFINE data == CellsOf(r)
           x == TotalSize(s)
           size == SizeOf(r)
           f == SliceOf(storage, q)
           h == SliceOf(storage', q)
<1>1. /\ s \in Seq(Record) /\ storage \in Storage /\ x <= Slice /\ Lies(f, 0, s)
      /\ ring[q].tail = 0 /\ ring[q].used = x /\ ring[q].head = x % Slice
  BY DEF QueueHolds, RingOf
<1>2. /\ data \in Seq(CellValues) /\ Len(data) = size /\ data[1] = r.channel /\ data[2] = r.length
      /\ \A j \in 2..(1 + r.length) : data[j + 1] = r.stamp
  BY CellsOfRecord
<1>3. size \in Nat /\ size >= 3 /\ size = 2 + r.length /\ r.length \in Nat
  BY SizesOfRecords
<1>4. x \in Nat /\ Slice \in Nat \ {0}
  BY <1>1, EndsRounds, SizesAssumption
<1>5. ring[q] \in Ring
  OBVIOUS
<1>6. TotalSize(Append(s, r)) = x + size /\ Append(s, r) \in Seq(Record)
  BY <1>1, TotalStep, AppendProperties
<1>7. Push(q, data)
  OBVIOUS
<1> HIDE DEF data, x, size, f, h
<1>8. CASE size > Slice - x
  <2>1. storage' = storage /\ ring' = [ring EXCEPT ![q].overflow = @ + 1]
    BY <1>1, <1>2, <1>7, <1>8 DEF Push
  <2>2. ring[q].overflow \in Nat /\ ring[q].overflow + 1 \in Nat
    BY <1>5 DEF Ring
  <2>3. PICK o \in Nat : o = ring[q].overflow + 1
    BY <2>2
  <2>4. ring' = [ring EXCEPT ![q].overflow = o]
    BY <2>1, <2>3
  <2>5. /\ ring' \in [Queues -> Ring] /\ ring'[q].overflow = o
        /\ ring'[q].tail = ring[q].tail /\ ring'[q].used = ring[q].used /\ ring'[q].head = ring[q].head
        /\ \A p \in Queues : p # q => ring'[p] = ring[p]
    BY <2>4 DEF Ring
  <2>6. x + size > Slice
    BY <1>3, <1>4, <1>8
  <2>7. RingOf(ring', q, s)
    BY <2>5 DEF RingOf
  <2> QED
    BY <2>1, <2>3, <2>5, <2>6, <2>7 DEF PushTo, x, size
<1>9. CASE ~(size > Slice - x)
  <2>1. x + size <= Slice /\ x \in Places /\ x + size \in Nat
    BY <1>3, <1>4, <1>9 DEF Places
  <2>2. x % Slice = x
    BY <2>1, Wraps
  <2>3. /\ storage' = Written(storage, q, x, data)
        /\ ring' = [ring EXCEPT ![q].head = (@ + Len(data)) % Slice, ![q].used = @ + Len(data)]
    BY <1>1, <1>2, <1>7, <1>9, <2>2 DEF Push
  <2>4. PICK u \in Nat, v \in Nat : u = x + size /\ v = (x + size) % Slice
    <3>1. (x + size) % Slice \in Nat
      BY <2>1, InPlaces, Wraps
    <3> QED
      BY <2>1, <3>1
  <2>5. ring' = [ring EXCEPT ![q].head = v, ![q].used = u]
    <3>1. ring' = [ring EXCEPT ![q].head = (ring[q].head + Len(data)) % Slice,
                               ![q].used = ring[q].used + Len(data)]
      BY <2>3
    <3> QED
      BY <1>1, <1>2, <2>2, <2>4, <3>1
  <2>6. /\ ring' \in [Queues -> Ring] /\ ring'[q].overflow = ring[q].overflow
        /\ ring'[q].tail = ring[q].tail /\ ring'[q].used = u /\ ring'[q].head = v
        /\ \A p \in Queues : p # q => ring'[p] = ring[p]
    BY <2>5 DEF Ring
  <2>7. /\ storage' \in Storage
        /\ \A p \in Queues : p # q => SliceOf(storage', p) = SliceOf(storage, p)
        /\ \A j \in Places : h[j] = IF j \in x..(x + size - 1) THEN data[j - x + 1] ELSE f[j]
    <3>1. x + Len(data) <= Slice
      BY <1>2, <2>1
    <3>2. WrittenAs(Written(storage, q, x, data), storage, q, x, data)
      BY <1>1, <1>2, <2>1, <3>1, WrittenIs
    <3>3. WrittenAs(storage', storage, q, x, data)
      BY <2>3, <3>2
    <3>4. /\ storage' \in Storage
          /\ \A p \in Queues : p # q => SliceOf(storage', p) = SliceOf(storage, p)
          /\ \A j \in Places : h[j] = IF j \in x..(x + Len(data) - 1) THEN data[j - x + 1] ELSE f[j]
      BY <3>3, Zenon DEF WrittenAs, h, f
    <3> QED
      BY <1>2, <3>4
  <2>8. Lies(h, 0, s)
    <3>1. SameCells(f, 0, h, 0, x)
      <4> SUFFICES ASSUME NEW i \in 0..(x - 1) PROVE h[0 + i] = f[0 + i]
        BY DEF SameCells
      <4>1. i \in Places /\ i \notin x..(x + size - 1) /\ 0 + i = i
        BY <1>3, <1>4, <2>1 DEF Places
      <4> QED
        BY <2>7, <4>1
    <3>2. 0 \in Nat
      OBVIOUS
    <3> QED
      BY <1>1, <3>1, <3>2, LiesMoved DEF x
  <2>9. RecordLies(h, x, r)
    <3>1. ASSUME NEW j \in 0..(size - 1) PROVE h[x + j] = data[j + 1]
      <4>1. x + j \in Places /\ x + j \in x..(x + size - 1) /\ (x + j) - x + 1 = j + 1
        BY <1>3, <1>4, <2>1 DEF Places
      <4> QED
        BY <2>7, <4>1
    <3>2. /\ 0 \in 0..(size - 1) /\ 1 \in 0..(size - 1) /\ \A j \in 2..(1 + r.length) : j \in 0..(size - 1)
          /\ x + 0 = x /\ 0 + 1 = 1 /\ 1 + 1 = 2
      BY <1>3, <1>4
    <3>3. h[x + 0] = data[0 + 1] /\ h[x + 1] = data[1 + 1]
      BY <3>1, <3>2
    <3>4. \A j \in 2..(1 + r.length) : h[x + j] = r.stamp
      BY <1>2, <3>1, <3>2
    <3>5. h[x] = r.channel /\ h[x + 1] = r.length
      BY <1>2, <3>2, <3>3
    <3> QED
      BY <3>4, <3>5 DEF RecordLies
  <2>10. Lies(h, 0, Append(s, r))
    <3>1. 0 \in Nat /\ 0 + x = x
      BY <1>4
    <3> QED
      BY <1>1, <2>8, <2>9, <3>1, LiesFirst DEF x
  <2>11. HoldsIn(storage', ring', q, Append(s, r)) /\ RingOf(ring', q, Append(s, r))
    BY <1>1, <1>6, <2>1, <2>4, <2>6, <2>7, <2>10 DEF HoldsIn, RingOf, h
  <2>12. OthersSame(storage', q)
    BY <2>7 DEF OthersSame
  <2> QED
    BY <2>1, <2>6, <2>11, <2>12 DEF PushTo, x, size
<1> QED
  BY <1>8, <1>9

-----------------------------------------------------------------------------
(* The numbers of records                                                   *)

\* The numbers of records, in the order of the records.
Numbers(s) == [i \in 1..Len(s) |-> s[i].stamp]

\* A queue holds s, the records numbered t were drained and o were refused:
\* these are the n records that arrived, of at most m.
Counted(s, t, o, n, m) ==
    /\ Len(t) + Len(s) + o = n /\ n <= m
    /\ Rising(s)
    /\ \A i \in 1..Len(s) : s[i].stamp \in 1..n
    /\ \A i \in 1..Len(t) : t[i] \in 1..n
    /\ \A i, j \in 1..Len(t) : t[i] = t[j] => i = j
    /\ \A i \in 1..Len(t), j \in 1..Len(s) : t[i] # s[j].stamp

\* One record more arrived: it was refused and counted, or it is queued last.
LEMMA CountedOffer ==
    ASSUME NEW s \in Seq(Record), NEW t \in Seq(Nat), NEW o \in Nat, NEW n \in Nat, NEW m \in Nat,
           Counted(s, t, o, n, m), n < m
    PROVE  /\ Counted(s, t, o + 1, n + 1, m)
           /\ \A r \in Record : r.stamp = n + 1 => Counted(Append(s, r), t, o, n + 1, m)
<1>1. /\ Len(t) + Len(s) + o = n /\ Rising(s)
      /\ \A i \in 1..Len(s) : s[i].stamp \in 1..n
      /\ \A i \in 1..Len(t) : t[i] \in 1..n
      /\ \A i, j \in 1..Len(t) : t[i] = t[j] => i = j
      /\ \A i \in 1..Len(t), j \in 1..Len(s) : t[i] # s[j].stamp
  BY DEF Counted
<1>2. Len(s) \in Nat /\ Len(t) \in Nat /\ n + 1 <= m
  OBVIOUS
<1>3. \A x \in 1..n : x \in 1..(n + 1) /\ x < n + 1 /\ x # n + 1
  OBVIOUS
<1>4. Counted(s, t, o + 1, n + 1, m)
  BY <1>1, <1>2, <1>3 DEF Counted
<1>5. ASSUME NEW r \in Record, r.stamp = n + 1 PROVE Counted(Append(s, r), t, o, n + 1, m)
  <2> DEFINE u == Append(s, r)
  <2>1. /\ Len(u) = Len(s) + 1 /\ u[Len(s) + 1] = r
        /\ \A i \in 1..Len(s) : u[i] = s[i]
    BY AppendProperties
  <2>2. u[Len(s) + 1].stamp = n + 1
    BY <1>5, <2>1
  <2> HIDE DEF u
  <2>3. \A i \in 1..Len(u) : i \in 1..Len(s) \/ i = Len(s) + 1
    BY <1>2, <2>1
  <2>4. Rising(u)
    <3> SUFFICES ASSUME NEW i \in 1..Len(u), NEW j \in 1..Len(u), i < j PROVE u[i].stamp < u[j].stamp
      BY DEF Rising
    <3>1. i \in 1..Len(s)
      BY <1>2, <2>1
    <3>2. CASE j \in 1..Len(s)
      BY <1>1, <2>1, <3>1, <3>2 DEF Rising
    <3>3. CASE j = Len(s) + 1
      BY <1>1, <1>3, <2>1, <2>2, <3>1, <3>3
    <3> QED
      BY <2>3, <3>2, <3>3
  <2>5. ASSUME NEW i \in 1..Len(u)
        PROVE  u[i].stamp \in 1..(n + 1) /\ \A j \in 1..Len(t) : t[j] # u[i].stamp
    <3>1. CASE i \in 1..Len(s)
      <4>1. u[i] = s[i] /\ s[i].stamp \in 1..n
        BY <1>1, <2>1, <3>1
      <4> QED
        BY <1>1, <1>3, <3>1, <4>1
    <3>2. CASE i = Len(s) + 1
      <4>1. n + 1 \in 1..(n + 1)
        OBVIOUS
      <4> QED
        BY <1>1, <1>3, <2>2, <3>2, <4>1
    <3> QED
      BY <2>3, <3>1, <3>2
  <2>6. Len(t) + Len(u) + o = n + 1
    BY <1>1, <1>2, <2>1
  <2> QED
    BY <1>1, <1>2, <1>3, <2>4, <2>5, <2>6 DEF Counted, u
<1> QED
  BY <1>4, <1>5

\* What a drained queue keeps when the first k records were passed over, and
\* the numbers drained.
Keeps(u, s, c, k) == u = Left(s, c, k) \o Rest(s, k)
Drains(v, t, a) == v = t \o Numbers(a)

\* Where the records of a channel and those that are kept come from.
LEMMA PartsFrom ==
    ASSUME NEW s \in Seq(Record), NEW c \in Channels, NEW k \in 0..Len(s), Rising(s),
           NEW u, Keeps(u, s, c, k)
    PROVE  /\ Mine(s, c, k) \in Seq(Record) /\ u \in Seq(Record)
           /\ Len(Mine(s, c, k)) + Len(u) = Len(s)
           /\ Rising(Mine(s, c, k)) /\ Rising(u)
           /\ \A i \in 1..Len(Mine(s, c, k)) :
                \E j \in 1..k : Mine(s, c, k)[i] = s[j] /\ s[j].channel = c
           /\ \A i \in 1..Len(u) :
                \E j \in 1..Len(s) : u[i] = s[j] /\ (j \in 1..k => s[j].channel # c)
<1> DEFINE p == SubSeq(s, 1, k)
           a == Mine(s, c, k)
           l == Left(s, c, k)
           b == Rest(s, k)
<1>1. p \in Seq(Record) /\ Len(p) = k /\ \A i \in 1..k : p[i] = s[i]
  BY PrefixGrows
<1>2. k \in Nat /\ Len(s) \in Nat /\ k <= Len(s)
  OBVIOUS
<1> HIDE DEF p
<1>3. Rising(p)
  <2> SUFFICES ASSUME NEW i \in 1..Len(p), NEW j \in 1..Len(p), i < j PROVE p[i].stamp < p[j].stamp
    BY DEF Rising
  <2>1. i \in 1..Len(s) /\ j \in 1..Len(s)
    BY <1>1, <1>2
  <2> QED
    BY <1>1, <2>1 DEF Rising
<1>4. /\ a \in Seq(Record) /\ Rising(a)
      /\ \A i \in 1..Len(a) : \E j \in 1..Len(p) : a[i] = p[j] /\ p[j].channel \in {c}
  BY <1>1, <1>3, OfIsPart DEF Mine, p
<1>5. /\ l \in Seq(Record) /\ Rising(l)
      /\ \A i \in 1..Len(l) : \E j \in 1..Len(p) : l[i] = p[j] /\ p[j].channel \in Channels \ {c}
  BY <1>1, <1>3, OfIsPart DEF Left, p
<1>6. /\ b \in Seq(Record) /\ Len(b) = Len(s) - k
      /\ \A i \in 1..(Len(s) - k) : b[i] = s[k + i] /\ k + i \in 1..Len(s)
  BY RestIs
<1>7. Len(a) + Len(l) = k
  BY PartsOfFirst
<1> HIDE DEF a, l, b
<1>8. u = l \o b
  BY DEF l, b, Keeps
<1>9. /\ u \in Seq(Record) /\ Len(u) = Len(l) + Len(b)
      /\ \A i \in 1..Len(l) : u[i] = l[i]
      /\ \A i \in 1..Len(b) : u[Len(l) + i] = b[i]
  <2>1. l \in Seq(Record) /\ b \in Seq(Record)
    BY <1>5, <1>6
  <2>2. /\ l \o b \in Seq(Record) /\ Len(l \o b) = Len(l) + Len(b)
        /\ \A i \in 1..Len(l) : (l \o b)[i] = l[i]
        /\ \A i \in 1..Len(b) : (l \o b)[Len(l) + i] = b[i]
    BY <2>1, TotalOfBoth, Zenon
  <2> QED
    BY <1>8, <2>2, Zenon
<1>10. \A i \in 1..Len(a) : \E j \in 1..k : a[i] = s[j] /\ s[j].channel = c
  BY <1>1, <1>4
<1>11. \A i \in 1..Len(l) : \E j \in 1..k : l[i] = s[j] /\ s[j].channel # c
  BY <1>1, <1>5
<1>12. Len(l) \in Nat /\ Len(b) \in Nat /\ Len(a) \in Nat
  BY <1>4, <1>5, <1>6
<1>13. \A i \in 1..Len(u) : \/ i \in 1..Len(l) /\ u[i] = l[i]
                            \/ i - Len(l) \in 1..Len(b) /\ u[i] = b[i - Len(l)] /\ i > Len(l)
  <2> SUFFICES ASSUME NEW i \in 1..Len(u), i \notin 1..Len(l)
               PROVE  i - Len(l) \in 1..Len(b) /\ u[i] = b[i - Len(l)] /\ i > Len(l)
    BY <1>9
  <2>1. i - Len(l) \in 1..Len(b) /\ Len(l) + (i - Len(l)) = i /\ i > Len(l)
    BY <1>9, <1>12
  <2> QED
    BY <1>9, <2>1
<1>14. ASSUME NEW i \in 1..Len(b) PROVE k + i \in 1..Len(s) /\ k + i \notin 1..k /\ b[i] = s[k + i]
  <2>1. Len(b) = Len(s) - k
    BY <1>6
  <2>2. i \in 1..(Len(s) - k) /\ k + i \notin 1..k
    BY <1>2, <2>1
  <2> QED
    BY <1>6, <2>2
<1>15. \A i \in 1..Len(u) : \E j \in 1..Len(s) : u[i] = s[j] /\ (j \in 1..k => s[j].channel # c)
  <2> SUFFICES ASSUME NEW i \in 1..Len(u)
               PROVE  \E j \in 1..Len(s) : u[i] = s[j] /\ (j \in 1..k => s[j].channel # c)
    OBVIOUS
  <2>1. CASE i \in 1..Len(l) /\ u[i] = l[i]
    <3>1. PICK j \in 1..k : l[i] = s[j] /\ s[j].channel # c
      BY <1>11, <2>1
    <3>2. j \in 1..Len(s)
      BY <1>2
    <3> QED
      BY <2>1, <3>1, <3>2
  <2>2. CASE i - Len(l) \in 1..Len(b) /\ u[i] = b[i - Len(l)]
    BY <1>14, <2>2
  <2> QED
    BY <1>13, <2>1, <2>2
<1>16. Rising(u)
  <2> SUFFICES ASSUME NEW i \in 1..Len(u), NEW j \in 1..Len(u), i < j PROVE u[i].stamp < u[j].stamp
    BY DEF Rising
  <2>1. CASE j \in 1..Len(l)
    <3>1. i \in 1..Len(l)
      BY <2>1
    <3> QED
      BY <1>5, <1>9, <2>1, <3>1 DEF Rising
  <2>2. CASE j \notin 1..Len(l)
    <3>1. j - Len(l) \in 1..Len(b) /\ u[j] = b[j - Len(l)]
      BY <1>13, <2>2
    <3>2. /\ k + (j - Len(l)) \in 1..Len(s) /\ k + (j - Len(l)) \notin 1..k
          /\ u[j] = s[k + (j - Len(l))]
      BY <1>14, <3>1
    <3>3. CASE i \in 1..Len(l)
      <4>1. PICK x \in 1..k : l[i] = s[x]
        BY <1>11, <3>3
      <4>2. x \in 1..Len(s) /\ x < k + (j - Len(l))
        BY <1>2, <1>12, <3>2
      <4> QED
        BY <1>9, <3>2, <3>3, <4>1, <4>2 DEF Rising
    <3>4. CASE i \notin 1..Len(l)
      <4>1. i - Len(l) \in 1..Len(b) /\ u[i] = b[i - Len(l)]
        BY <1>13, <3>4
      <4>2. k + (i - Len(l)) \in 1..Len(s) /\ u[i] = s[k + (i - Len(l))]
        BY <1>14, <4>1
      <4>3. k + (i - Len(l)) < k + (j - Len(l))
        BY <1>2, <1>12
      <4> QED
        BY <3>2, <4>2, <4>3 DEF Rising
    <3> QED
      BY <3>3, <3>4
  <2> QED
    BY <2>1, <2>2
<1>17. Len(a) + Len(u) = Len(s)
  <2>1. Len(b) = Len(s) - k /\ Len(u) = Len(l) + Len(b)
    BY <1>6, <1>9
  <2> QED
    BY <1>2, <1>7, <1>12, <2>1
<1> QED
  BY <1>4, <1>9, <1>10, <1>15, <1>16, <1>17 DEF a

\* A drain takes records from the queue to those that were drained.
LEMMA CountedDrain ==
    ASSUME NEW s \in Seq(Record), NEW t \in Seq(Nat), NEW o \in Nat, NEW n \in Nat, NEW m \in Nat,
           Counted(s, t, o, n, m), NEW c \in Channels, NEW k \in 0..Len(s),
           NEW u, Keeps(u, s, c, k), NEW v, Drains(v, t, Mine(s, c, k))
    PROVE  v \in Seq(Nat) /\ Counted(u, v, o, n, m)
<1> DEFINE a == Mine(s, c, k)
           b == Numbers(a)
<1>1. /\ Len(t) + Len(s) + o = n /\ n <= m /\ Rising(s)
      /\ \A i \in 1..Len(s) : s[i].stamp \in 1..n
      /\ \A i \in 1..Len(t) : t[i] \in 1..n
      /\ \A i, j \in 1..Len(t) : t[i] = t[j] => i = j
      /\ \A i \in 1..Len(t), j \in 1..Len(s) : t[i] # s[j].stamp
  BY DEF Counted
<1>2. /\ a \in Seq(Record) /\ u \in Seq(Record) /\ Len(a) + Len(u) = Len(s)
      /\ Rising(a) /\ Rising(u)
      /\ \A i \in 1..Len(a) : \E j \in 1..k : a[i] = s[j] /\ s[j].channel = c
      /\ \A i \in 1..Len(u) : \E j \in 1..Len(s) : u[i] = s[j] /\ (j \in 1..k => s[j].channel # c)
  BY <1>1, PartsFrom
<1>3. k \in Nat /\ Len(s) \in Nat /\ k <= Len(s) /\ Len(t) \in Nat
  OBVIOUS
<1> HIDE DEF a
<1>4. Len(a) \in Nat /\ Len(u) \in Nat /\ \A i \in 1..Len(a) : a[i] \in Record
  BY <1>2
<1>5. b \in [1..Len(a) -> Nat] /\ \A i \in 1..Len(a) : b[i] = a[i].stamp
  <2>1. b = [i \in 1..Len(a) |-> a[i].stamp]
    BY DEF Numbers
  <2>2. \A i \in 1..Len(a) : a[i].stamp \in Nat
    BY <1>4, SizesOfRecords
  <2> HIDE DEF b
  <2> QED
    BY <2>1, <2>2
<1>6. b \in Seq(Nat) /\ Len(b) = Len(a)
  BY <1>4, <1>5, FunctionIsSeq
<1> HIDE DEF b
<1>7. v = t \o b
  BY DEF a, b, Drains
<1>8. /\ v \in Seq(Nat) /\ Len(v) = Len(t) + Len(a)
      /\ \A i \in 1..(Len(t) + Len(a)) : v[i] = IF i <= Len(t) THEN t[i] ELSE b[i - Len(t)]
  <2>1. /\ t \o b \in Seq(Nat) /\ Len(t \o b) = Len(t) + Len(b)
        /\ \A i \in 1..(Len(t) + Len(b)) : (t \o b)[i] = IF i <= Len(t) THEN t[i] ELSE b[i - Len(t)]
    BY <1>6, ConcatProperties
  <2> QED
    BY <1>6, <1>7, <2>1, Zenon
<1>9. ASSUME NEW i \in 1..Len(v)
      PROVE  \/ i \in 1..Len(t) /\ v[i] = t[i]
             \/ i - Len(t) \in 1..Len(a) /\ i > Len(t) /\ v[i] = a[i - Len(t)].stamp
  <2>1. CASE i <= Len(t)
    <3>1. i \in 1..Len(t) /\ i \in 1..(Len(t) + Len(a))
      BY <1>3, <1>4, <2>1
    <3> QED
      BY <1>8, <2>1, <3>1
  <2>2. CASE ~(i <= Len(t))
    <3>1. i - Len(t) \in 1..Len(a) /\ i > Len(t) /\ i \in 1..(Len(t) + Len(a))
      BY <1>3, <1>4, <1>8, <2>2
    <3> QED
      BY <1>5, <1>8, <2>2, <3>1
  <2> QED
    BY <2>1, <2>2
\* A drained record is one of s, and tells itself from those drained before.
<1>10. ASSUME NEW i \in 1..Len(a)
       PROVE  a[i].stamp \in 1..n /\ \A j \in 1..Len(t) : t[j] # a[i].stamp
  <2>1. PICK j \in 1..k : a[i] = s[j]
    BY <1>2
  <2>2. j \in 1..Len(s)
    BY <1>3
  <2> QED
    BY <1>1, <2>1, <2>2
<1>11. ASSUME NEW i \in 1..Len(u)
       PROVE  u[i].stamp \in 1..n /\ \A j \in 1..Len(t) : t[j] # u[i].stamp
  <2>1. PICK j \in 1..Len(s) : u[i] = s[j]
    BY <1>2
  <2> QED
    BY <1>1, <2>1
<1>12. ASSUME NEW i \in 1..Len(a), NEW j \in 1..Len(u) PROVE a[i].stamp # u[j].stamp
  <2>1. PICK x \in 1..k : a[i] = s[x] /\ s[x].channel = c
    BY <1>2
  <2>2. PICK y \in 1..Len(s) : u[j] = s[y] /\ (y \in 1..k => s[y].channel # c)
    BY <1>2
  <2>3. x \in 1..Len(s) /\ x # y
    BY <1>3, <2>1, <2>2
  <2>4. s[x].stamp \in 1..n /\ s[y].stamp \in 1..n
    BY <1>1, <2>3
  <2>5. x < y \/ y < x
    BY <2>3
  <2>6. s[x].stamp < s[y].stamp \/ s[y].stamp < s[x].stamp
    BY <1>1, <2>3, <2>5 DEF Rising
  <2> QED
    BY <2>1, <2>2, <2>4, <2>6
<1>13. ASSUME NEW i \in 1..Len(a), NEW j \in 1..Len(a), i # j PROVE a[i].stamp # a[j].stamp
  <2>1. a[i].stamp \in 1..n /\ a[j].stamp \in 1..n
    BY <1>10
  <2>2. i < j \/ j < i
    BY <1>13
  <2>3. a[i].stamp < a[j].stamp \/ a[j].stamp < a[i].stamp
    BY <1>2, <2>2 DEF Rising
  <2> QED
    BY <2>1, <2>3
<1>14. \A i \in 1..Len(v) : v[i] \in 1..n
  BY <1>1, <1>9, <1>10
<1>15. \A i, j \in 1..Len(v) : v[i] = v[j] => i = j
  <2> SUFFICES ASSUME NEW i \in 1..Len(v), NEW j \in 1..Len(v), i # j PROVE v[i] # v[j]
    OBVIOUS
  <2>1. \/ i \in 1..Len(t) /\ v[i] = t[i]
        \/ i - Len(t) \in 1..Len(a) /\ i > Len(t) /\ v[i] = a[i - Len(t)].stamp
    BY <1>9
  <2>2. \/ j \in 1..Len(t) /\ v[j] = t[j]
        \/ j - Len(t) \in 1..Len(a) /\ j > Len(t) /\ v[j] = a[j - Len(t)].stamp
    BY <1>9
  <2>3. CASE i \in 1..Len(t) /\ v[i] = t[i] /\ j \in 1..Len(t) /\ v[j] = t[j]
    BY <1>1, <2>3
  <2>4. CASE i \in 1..Len(t) /\ v[i] = t[i] /\ j - Len(t) \in 1..Len(a) /\ v[j] = a[j - Len(t)].stamp
    BY <1>10, <2>4
  <2>5. CASE j \in 1..Len(t) /\ v[j] = t[j] /\ i - Len(t) \in 1..Len(a) /\ v[i] = a[i - Len(t)].stamp
    BY <1>10, <2>5
  <2>6. CASE /\ i - Len(t) \in 1..Len(a) /\ v[i] = a[i - Len(t)].stamp
             /\ j - Len(t) \in 1..Len(a) /\ v[j] = a[j - Len(t)].stamp
    <3>1. i - Len(t) # j - Len(t)
      BY <1>3
    <3> QED
      BY <1>13, <2>6, <3>1
  <2> QED
    BY <2>1, <2>2, <2>3, <2>4, <2>5, <2>6
<1>16. \A i \in 1..Len(v), j \in 1..Len(u) : v[i] # u[j].stamp
  <2> SUFFICES ASSUME NEW i \in 1..Len(v), NEW j \in 1..Len(u) PROVE v[i] # u[j].stamp
    OBVIOUS
  <2> QED
    BY <1>9, <1>11, <1>12
<1>17. Len(v) + Len(u) + o = n
  <2>1. Len(v) = Len(t) + Len(a) /\ Len(a) + Len(u) = Len(s) /\ Len(t) + Len(s) + o = n
    BY <1>1, <1>2, <1>8
  <2> QED
    BY <1>3, <1>4, <2>1
<1> QED
  BY <1>1, <1>2, <1>8, <1>11, <1>14, <1>15, <1>16, <1>17 DEF Counted

\* As many values as places, when no two places have the same.
LEMMA DistinctCount ==
    ASSUME NEW e \in Seq(Nat), \A i, j \in 1..Len(e) : e[i] = e[j] => i = j
    PROVE  Cardinality({e[i] : i \in DOMAIN e}) = Len(e)
<1> DEFINE D == 1..Len(e)
           T == {e[i] : i \in D}
<1>1. Len(e) \in Nat /\ DOMAIN e = D /\ e \in [D -> T]
  OBVIOUS
<1>2. IsFiniteSet(D) /\ Cardinality(D) = Len(e)
  <2>1. 1 \in Int /\ Len(e) \in Int
    BY <1>1
  <2>2. IsFiniteSet(D) /\ Cardinality(D) = IF 1 > Len(e) THEN 0 ELSE Len(e) - 1 + 1
    BY <2>1, FS_Interval
  <2> QED
    BY <1>1, <2>2
<1>3. e \in Surjection(D, T)
  BY <1>1 DEF Surjection
<1>4. e \in Injection(D, T)
  BY <1>1 DEF Injection, IsInjective
<1> HIDE DEF D, T
<1>5. Cardinality(T) = Cardinality(D)
  BY <1>2, <1>3, <1>4, FS_Surjection
<1> QED
  BY <1>1, <1>2, <1>5 DEF T

\* What the numbers show.
LEMMA CountedShows ==
    ASSUME NEW s \in Seq(Record), NEW t \in Seq(Nat), NEW o \in Nat, NEW n \in Nat, NEW m \in Nat,
           Counted(s, t, o, n, m), NEW e, Drains(e, t, s)
    PROVE  /\ Len(e) + o = n
           /\ Cardinality({e[i] : i \in DOMAIN e}) = Len(e)
           /\ \A i, j \in DOMAIN s : i < j => Numbers(s)[i] < Numbers(s)[j]
<1> DEFINE b == Numbers(s)
<1>1. /\ Len(t) + Len(s) + o = n /\ Rising(s)
      /\ \A i \in 1..Len(s) : s[i].stamp \in 1..n
      /\ \A i \in 1..Len(t) : t[i] \in 1..n
      /\ \A i, j \in 1..Len(t) : t[i] = t[j] => i = j
      /\ \A i \in 1..Len(t), j \in 1..Len(s) : t[i] # s[j].stamp
  BY DEF Counted
<1>2. Len(s) \in Nat /\ Len(t) \in Nat /\ DOMAIN s = 1..Len(s)
  OBVIOUS
<1>3. b = [i \in 1..Len(s) |-> s[i].stamp]
  BY DEF Numbers
<1> HIDE DEF b
<1>4. b \in [1..Len(s) -> Nat] /\ \A i \in 1..Len(s) : b[i] = s[i].stamp
  <2>1. \A i \in 1..Len(s) : s[i].stamp \in Nat
    BY <1>1
  <2> QED
    BY <1>3, <2>1
<1>5. b \in Seq(Nat) /\ Len(b) = Len(s)
  BY <1>2, <1>4, FunctionIsSeq
<1>6. /\ e \in Seq(Nat) /\ Len(e) = Len(t) + Len(s)
      /\ \A i \in 1..(Len(t) + Len(s)) : e[i] = IF i <= Len(t) THEN t[i] ELSE b[i - Len(t)]
  <2>1. /\ t \o b \in Seq(Nat) /\ Len(t \o b) = Len(t) + Len(b)
        /\ \A i \in 1..(Len(t) + Len(b)) : (t \o b)[i] = IF i <= Len(t) THEN t[i] ELSE b[i - Len(t)]
    BY <1>5, ConcatProperties
  <2>2. e = t \o b
    BY DEF b, Drains
  <2> QED
    BY <1>5, <2>1, <2>2, Zenon
<1>7. ASSUME NEW i \in 1..Len(e)
      PROVE  \/ i \in 1..Len(t) /\ e[i] = t[i]
             \/ i - Len(t) \in 1..Len(s) /\ i > Len(t) /\ e[i] = s[i - Len(t)].stamp
  <2>1. CASE i <= Len(t)
    <3>1. i \in 1..Len(t) /\ i \in 1..(Len(t) + Len(s))
      BY <1>2, <2>1
    <3> QED
      BY <1>6, <2>1, <3>1
  <2>2. CASE ~(i <= Len(t))
    <3>1. i - Len(t) \in 1..Len(s) /\ i > Len(t) /\ i \in 1..(Len(t) + Len(s))
      BY <1>2, <1>6, <2>2
    <3> QED
      BY <1>4, <1>6, <2>2, <3>1
  <2> QED
    BY <2>1, <2>2
<1>8. ASSUME NEW i \in 1..Len(s), NEW j \in 1..Len(s), i # j PROVE s[i].stamp # s[j].stamp
  <2>1. s[i].stamp \in 1..n /\ s[j].stamp \in 1..n
    BY <1>1
  <2>2. i < j \/ j < i
    BY <1>8
  <2>3. s[i].stamp < s[j].stamp \/ s[j].stamp < s[i].stamp
    BY <1>1, <2>2 DEF Rising
  <2> QED
    BY <2>1, <2>3
<1>9. \A i, j \in 1..Len(e) : e[i] = e[j] => i = j
  <2> SUFFICES ASSUME NEW i \in 1..Len(e), NEW j \in 1..Len(e), i # j PROVE e[i] # e[j]
    OBVIOUS
  <2>1. \/ i \in 1..Len(t) /\ e[i] = t[i]
        \/ i - Len(t) \in 1..Len(s) /\ i > Len(t) /\ e[i] = s[i - Len(t)].stamp
    BY <1>7
  <2>2. \/ j \in 1..Len(t) /\ e[j] = t[j]
        \/ j - Len(t) \in 1..Len(s) /\ j > Len(t) /\ e[j] = s[j - Len(t)].stamp
    BY <1>7
  <2>3. CASE i \in 1..Len(t) /\ e[i] = t[i] /\ j \in 1..Len(t) /\ e[j] = t[j]
    BY <1>1, <2>3
  <2>4. CASE i \in 1..Len(t) /\ e[i] = t[i] /\ j - Len(t) \in 1..Len(s) /\ e[j] = s[j - Len(t)].stamp
    BY <1>1, <2>4
  <2>5. CASE j \in 1..Len(t) /\ e[j] = t[j] /\ i - Len(t) \in 1..Len(s) /\ e[i] = s[i - Len(t)].stamp
    BY <1>1, <2>5
  <2>6. CASE /\ i - Len(t) \in 1..Len(s) /\ e[i] = s[i - Len(t)].stamp
             /\ j - Len(t) \in 1..Len(s) /\ e[j] = s[j - Len(t)].stamp
    <3>1. i - Len(t) # j - Len(t)
      BY <1>2
    <3> QED
      BY <1>8, <2>6, <3>1
  <2> QED
    BY <2>1, <2>2, <2>3, <2>4, <2>5, <2>6
<1>10. Cardinality({e[i] : i \in DOMAIN e}) = Len(e)
  BY <1>6, <1>9, DistinctCount
<1>11. \A i, j \in DOMAIN s : i < j => b[i] < b[j]
  BY <1>1, <1>2, <1>4 DEF Rising
<1>12. Len(e) + o = n
  <2>1. Len(e) = Len(t) + Len(s) /\ Len(t) + Len(s) + o = n
    BY <1>1, <1>6
  <2> QED
    BY <1>2, <2>1
<1> QED
  BY <1>10, <1>11, <1>12 DEF b

-----------------------------------------------------------------------------
(* The inductive invariant                                                  *)

\* In its slice a queue holds whole records from the tail on, and the records
\* that arrived are those queued, those drained and those refused.
QueueCounted(q) ==
    /\ HoldsIn(storage, ring, q, Queued(q)) /\ RingOf(ring, q, Queued(q))
    /\ Counted(Queued(q), taken[q], ring[q].overflow, offered[q], MaxOffers[q])

\* The inductive invariant of ReceiveQueue.
QueuesCounted ==
    /\ ring \in [Queues -> Ring] /\ offered \in [Queues -> Nat] /\ taken \in [Queues -> Seq(Nat)]
    /\ \A q \in Queues : QueueCounted(q)

\* After a step that changed no queue but q, q holds s.
HeldAfter(q, s) ==
    /\ ring' \in [Queues -> Ring]
    /\ Queued(q)' = s
    /\ \A p \in Queues : HoldsIn(storage', ring', p, Queued(p)') /\ RingOf(ring', p, Queued(p)')
    /\ \A p \in Queues : p # q => Queued(p)' = Queued(p) /\ ring'[p] = ring[p]

\* A step that changed the slice and the ring of one queue left the records of the
\* others as they were.
LEMMA HeldIs ==
    ASSUME QueuesCounted, NEW q \in Queues, NEW s,
           HoldsIn(storage', ring', q, s), RingOf(ring', q, s), OthersSame(storage', q),
           ring' \in [Queues -> Ring], \A p \in Queues : p # q => ring'[p] = ring[p]
    PROVE  HeldAfter(q, s)
<1>1. ASSUME NEW p \in Queues, NEW t, HoldsIn(storage', ring', p, t) PROVE Queued(p)' = t
  BY <1>1, ParsedFrom DEF Queued
<1>2. Queued(q)' = s
  BY <1>1
<1>3. ASSUME NEW p \in Queues, p # q
      PROVE  /\ HoldsIn(storage', ring', p, Queued(p)) /\ RingOf(ring', p, Queued(p))
             /\ Queued(p)' = Queued(p)
  <2>1. HoldsIn(storage, ring, p, Queued(p)) /\ RingOf(ring, p, Queued(p))
    BY DEF QueuesCounted, QueueCounted
  <2>2. SliceOf(storage', p) = SliceOf(storage, p) /\ ring'[p] = ring[p]
    BY <1>3 DEF OthersSame
  <2>3. storage' \in Storage
    BY DEF HoldsIn
  <2>4. HoldsIn(storage', ring', p, Queued(p))
    BY <2>1, <2>2, <2>3 DEF HoldsIn
  <2>5. RingOf(ring', p, Queued(p))
    BY <2>1, <2>2 DEF RingOf
  <2>6. Queued(p)' = Queued(p)
    BY <1>1, <2>4
  <2> QED
    BY <2>4, <2>5, <2>6
<1>4. ASSUME NEW p \in Queues
      PROVE  HoldsIn(storage', ring', p, Queued(p)') /\ RingOf(ring', p, Queued(p)')
  <2>1. CASE p = q
    BY <1>2, <2>1
  <2>2. CASE p # q
    BY <1>3, <2>2
  <2> QED
    BY <2>1, <2>2
<1> QED
  BY <1>2, <1>3, <1>4 DEF HeldAfter

\* A poll, as the queue of records sees it.
PollTo(q, r) ==
    \/ /\ TotalSize(Queued(q)) + SizeOf(r) > Slice
       /\ HeldAfter(q, Queued(q)) /\ ring'[q].overflow = ring[q].overflow + 1
    \/ /\ TotalSize(Queued(q)) + SizeOf(r) <= Slice
       /\ HeldAfter(q, Append(Queued(q), r)) /\ ring'[q].overflow = ring[q].overflow

\* A poll offers the queue the next record of its peripheral.
LEMMA PollDoes ==
    ASSUME QueuesCounted, NEW q \in Queues, NEW c \in Channels, NEW n \in Lengths, Poll(q, c, n)
    PROVE  \E r \in Record : r.stamp = offered[q] + 1 /\ PollTo(q, r)
<1> DEFINE s == Queued(q)
           x == offered[q] + 1
<1>1. /\ HoldsIn(storage, ring, q, s) /\ RingOf(ring, q, s) /\ ring \in [Queues -> Ring]
      /\ offered[q] \in Nat
  BY DEF QueuesCounted, QueueCounted
<1>2. /\ offered[q] < MaxOffers[q] /\ Push(q, <<c, n>> \o [i \in 1..n |-> x])
  BY DEF Poll
<1> HIDE DEF x, s
<1>3. x \in UNION {1..MaxOffers[p] : p \in Queues}
  <2>1. x \in 1..MaxOffers[q]
    BY <1>1, <1>2, SizesAssumption DEF x
  <2> QED
    BY <2>1
<1>4. PICK r \in Record : r.channel = c /\ r.length = n /\ r.stamp = x
  <2>1. [channel |-> c, length |-> n, stamp |-> x] \in Record
    BY <1>3, SizesOfRecords
  <2> QED
    BY <2>1
<1>5. Push(q, CellsOf(r))
  BY <1>2, <1>4 DEF CellsOf
<1>6. QueueHolds(q, s)
  BY <1>1, Zenon DEF QueueHolds, HoldsIn
<1>7. PushTo(q, s, r)
  BY <1>1, <1>5, <1>6, PushIs
<1>8. PollTo(q, r)
  <2>1. CASE TotalSize(s) + SizeOf(r) > Slice
    <3>1. /\ storage' = storage /\ ring' \in [Queues -> Ring] /\ RingOf(ring', q, s)
          /\ ring'[q].overflow = ring[q].overflow + 1
          /\ \A p \in Queues : p # q => ring'[p] = ring[p]
      <4>1. ~(TotalSize(s) + SizeOf(r) <= Slice)
        <5>1. TotalSize(s) \in Nat /\ SizeOf(r) \in Nat
          BY <1>1, EndsRounds, SizesOfRecords DEF HoldsIn
        <5> QED
          BY <2>1, <5>1, SizesAssumption
      <4> QED
        BY <1>7, <4>1 DEF PushTo
    <3>2. HoldsIn(storage', ring', q, s) /\ OthersSame(storage', q)
      BY <1>1, <3>1 DEF HoldsIn, RingOf, OthersSame
    <3>3. HeldAfter(q, s)
      BY <3>1, <3>2, HeldIs
    <3> QED
      BY <2>1, <3>1, <3>3 DEF PollTo, s
  <2>2. CASE /\ TotalSize(s) + SizeOf(r) <= Slice
             /\ HoldsIn(storage', ring', q, Append(s, r)) /\ OthersSame(storage', q)
             /\ ring' \in [Queues -> Ring] /\ RingOf(ring', q, Append(s, r))
             /\ ring'[q].overflow = ring[q].overflow
             /\ \A p \in Queues : p # q => ring'[p] = ring[p]
    <3>1. HeldAfter(q, Append(s, r))
      BY <2>2, HeldIs
    <3> QED
      BY <2>2, <3>1 DEF PollTo, s
  <2> QED
    BY <1>7, <2>1, <2>2 DEF PushTo
<1> QED
  BY <1>4, <1>8 DEF x

\* A receive that looks at the first k records, as the queue of records sees it.
ReceiveTo(q, c, limit, drain, k) ==
    /\ Halts(c, limit, Queued(q), k) /\ TotalSize(Mine(Queued(q), c, k)) <= limit
    /\ Parsed(answer') = Mine(Queued(q), c, k)
    /\ ring'[q].overflow = ring[q].overflow
    /\ ~drain => HeldAfter(q, Queued(q))
    /\ drain => \E u : Keeps(u, Queued(q), c, k) /\ HeldAfter(q, u)

\* A receive looks at the first records of its queue.
LEMMA ReceiveDoes ==
    ASSUME QueuesCounted, NEW q \in Queues, NEW c \in Channels, NEW limit \in Limits,
           NEW drain \in BOOLEAN, Receive(q, c, limit, drain)
    PROVE  \E k \in 0..Len(Queued(q)) : ReceiveTo(q, c, limit, drain, k)
<1> DEFINE s == Queued(q)
<1>1. HoldsIn(storage, ring, q, s) /\ RingOf(ring, q, s) /\ ring \in [Queues -> Ring]
  BY DEF QueuesCounted, QueueCounted
<1>2. Read(q, c, limit, drain) /\ limit \in Nat
  BY SizesAssumption DEF Receive
<1> HIDE DEF s
<1>3. QueueHolds(q, s)
  BY <1>1, Zenon DEF QueueHolds, HoldsIn
<1>4. PICK k \in 0..Len(s) : ReadTo(q, c, limit, drain, s, k)
  BY <1>1, <1>2, <1>3, ReadIs
<1>5. PICK u : u = Left(s, c, k) \o Rest(s, k)
  BY Zenon
<1>6. /\ Halts(c, limit, s, k) /\ TotalSize(Mine(s, c, k)) <= limit
      /\ Parsed(answer') = Mine(s, c, k)
      /\ ~drain => storage' = storage /\ ring' = ring
      /\ drain => /\ HoldsIn(storage', ring', q, u)
                  /\ OthersSame(storage', q)
                  /\ ring' \in [Queues -> Ring] /\ RingOf(ring', q, u)
                  /\ ring'[q].overflow = ring[q].overflow
                  /\ \A p \in Queues : p # q => ring'[p] = ring[p]
  BY <1>4, <1>5, Zenon DEF ReadTo
<1>7. Keeps(u, s, c, k)
  BY <1>5, Zenon DEF Keeps
<1>8. ASSUME ~drain PROVE HeldAfter(q, s) /\ ring'[q].overflow = ring[q].overflow
  <2>1. storage' = storage /\ ring' = ring
    BY <1>6, <1>8
  <2>2. HoldsIn(storage', ring', q, s) /\ RingOf(ring', q, s) /\ OthersSame(storage', q)
    BY <1>1, <2>1 DEF OthersSame
  <2> QED
    BY <1>1, <2>1, <2>2, HeldIs
<1>9. ASSUME drain PROVE HeldAfter(q, u) /\ ring'[q].overflow = ring[q].overflow
  BY <1>6, <1>9, HeldIs
<1> QED
  BY <1>6, <1>7, <1>8, <1>9 DEF ReceiveTo, s

\* At first every queue is empty and nothing has arrived.
LEMMA CountedAtFirst == QueueInit => QueuesCounted
<1> SUFFICES ASSUME QueueInit PROVE QueuesCounted
  OBVIOUS
<1>1. /\ storage = [i \in Cells |-> 0]
      /\ ring = [q \in Queues |-> [head |-> 0, tail |-> 0, used |-> 0, overflow |-> 0]]
      /\ offered = [q \in Queues |-> 0] /\ taken = [q \in Queues |-> <<>>]
  BY DEF QueueInit, Cells
<1>2. storage \in Storage
  BY <1>1 DEF Storage, CellValues
<1>3. ASSUME NEW q \in Queues PROVE QueueCounted(q)
  <2>1. ring[q].tail = 0 /\ ring[q].used = 0 /\ ring[q].head = 0 /\ ring[q].overflow = 0
    BY <1>1
  <2>2. TotalSize(<<>>) = 0 /\ <<>> \in Seq(Record) /\ Len(<<>>) = 0
    BY NoRecords
  <2>3. 0 % Slice = 0 /\ 0 <= Slice /\ MaxOffers[q] \in Nat
    BY SizesAssumption
  <2>4. Lies(SliceOf(storage, q), 0, <<>>)
    BY <2>2 DEF Lies
  <2>5. HoldsIn(storage, ring, q, <<>>) /\ RingOf(ring, q, <<>>)
    BY <1>2, <2>1, <2>2, <2>3, <2>4 DEF HoldsIn, RingOf
  <2>6. Queued(q) = <<>>
    BY <2>5, ParsedFrom DEF Queued
  <2>7. taken[q] = <<>> /\ offered[q] = 0
    BY <1>1
  <2>8. Counted(<<>>, <<>>, 0, 0, MaxOffers[q])
    BY <2>2, <2>3 DEF Counted, Rising
  <2> QED
    BY <2>1, <2>5, <2>6, <2>7, <2>8 DEF QueueCounted
<1>4. ring \in [Queues -> Ring] /\ offered \in [Queues -> Nat] /\ taken \in [Queues -> Seq(Nat)]
  BY <1>1 DEF Ring
<1> QED
  BY <1>3, <1>4 DEF QueuesCounted

\* A queue that a step leaves alone is as well counted as before.
LEMMA CountedApart ==
    ASSUME QueuesCounted, NEW q \in Queues, NEW s, HeldAfter(q, s),
           NEW p \in Queues, p # q, offered'[p] = offered[p], taken'[p] = taken[p]
    PROVE  QueueCounted(p)'
<1>1. Counted(Queued(p), taken[p], ring[p].overflow, offered[p], MaxOffers[p])
  BY DEF QueuesCounted, QueueCounted
<1>2. /\ Queued(p)' = Queued(p) /\ ring'[p] = ring[p]
      /\ HoldsIn(storage', ring', p, Queued(p)') /\ RingOf(ring', p, Queued(p)')
  BY DEF HeldAfter
<1>3. Counted(Queued(p)', taken'[p], ring'[p].overflow, offered'[p], MaxOffers[p])
  BY <1>1, <1>2
<1> QED
  BY <1>2, <1>3 DEF QueueCounted

\* A poll keeps the count of every queue.
LEMMA CountedAfterPoll ==
    ASSUME QueuesCounted, NEW q \in Queues, NEW c \in Channels, NEW n \in Lengths, Poll(q, c, n)
    PROVE  QueuesCounted'
<1> DEFINE s == Queued(q)
           t == taken[q]
           o == ring[q].overflow
           x == offered[q]
           m == MaxOffers[q]
<1>1. PICK r \in Record : r.stamp = x + 1 /\ PollTo(q, r)
  BY PollDoes
<1>2. /\ offered' = [offered EXCEPT ![q] = x + 1] /\ taken' = taken /\ x < m
  BY DEF Poll
<1>3. /\ offered \in [Queues -> Nat] /\ taken \in [Queues -> Seq(Nat)] /\ ring \in [Queues -> Ring]
      /\ HoldsIn(storage, ring, q, s) /\ Counted(s, t, o, x, m)
  BY DEF QueuesCounted, QueueCounted
<1>4. x \in Nat /\ x + 1 \in Nat /\ t \in Seq(Nat) /\ m \in Nat /\ o \in Nat /\ s \in Seq(Record)
  BY <1>3, SizesAssumption DEF Ring, HoldsIn
<1>5. /\ offered' \in [Queues -> Nat] /\ taken' \in [Queues -> Seq(Nat)] /\ offered'[q] = x + 1
      /\ taken'[q] = t
      /\ \A p \in Queues : p # q => offered'[p] = offered[p] /\ taken'[p] = taken[p]
  BY <1>2, <1>3, <1>4
<1> HIDE DEF s, t, o, x, m
<1>6. /\ Counted(s, t, o + 1, x + 1, m)
      /\ \A y \in Record : y.stamp = x + 1 => Counted(Append(s, y), t, o, x + 1, m)
  BY <1>2, <1>3, <1>4, CountedOffer
<1>7. \E u, z : /\ HeldAfter(q, u) /\ ring'[q].overflow = z /\ Counted(u, t, z, x + 1, m)
  BY <1>1, <1>6 DEF PollTo, s, o
<1>8. PICK u, z : HeldAfter(q, u) /\ ring'[q].overflow = z /\ Counted(u, t, z, x + 1, m)
  BY <1>7
<1>9. QueueCounted(q)'
  <2>1. Queued(q)' = u /\ HoldsIn(storage', ring', q, Queued(q)') /\ RingOf(ring', q, Queued(q)')
    BY <1>8 DEF HeldAfter
  <2>2. Counted(Queued(q)', taken'[q], ring'[q].overflow, offered'[q], MaxOffers[q])
    BY <1>5, <1>8, <2>1 DEF m
  <2> QED
    BY <2>1, <2>2 DEF QueueCounted
<1>10. ASSUME NEW p \in Queues, p # q PROVE QueueCounted(p)'
  BY <1>5, <1>8, <1>10, CountedApart
<1>11. \A p \in Queues : QueueCounted(p)'
  BY <1>9, <1>10
<1>12. ring' \in [Queues -> Ring]
  BY <1>8 DEF HeldAfter
<1> QED
  BY <1>5, <1>11, <1>12 DEF QueuesCounted

\* A receive keeps the count of every queue, whether it drains or not.
LEMMA CountedAfterReceive ==
    ASSUME QueuesCounted, NEW q \in Queues, NEW c \in Channels, NEW limit \in Limits,
           NEW drain \in BOOLEAN, Receive(q, c, limit, drain)
    PROVE  QueuesCounted'
<1> DEFINE s == Queued(q)
           t == taken[q]
           o == ring[q].overflow
           x == offered[q]
           m == MaxOffers[q]
<1>1. PICK k \in 0..Len(s) : ReceiveTo(q, c, limit, drain, k)
  BY ReceiveDoes
<1>2. /\ Parsed(answer') = Mine(s, c, k) /\ ring'[q].overflow = o
      /\ ~drain => HeldAfter(q, s)
      /\ drain => \E u : Keeps(u, s, c, k) /\ HeldAfter(q, u)
  BY <1>1, Zenon DEF ReceiveTo
<1>3. /\ offered' = offered
      /\ taken' = IF drain THEN [taken EXCEPT ![q] = t \o Numbers(Parsed(answer'))] ELSE taken
  BY DEF Receive, Numbers
<1>4. /\ offered \in [Queues -> Nat] /\ taken \in [Queues -> Seq(Nat)] /\ ring \in [Queues -> Ring]
      /\ HoldsIn(storage, ring, q, s) /\ Counted(s, t, o, x, m)
  BY DEF QueuesCounted, QueueCounted
<1>5. x \in Nat /\ t \in Seq(Nat) /\ m \in Nat /\ o \in Nat /\ s \in Seq(Record)
  BY <1>4, SizesAssumption DEF Ring, HoldsIn
<1>6. t = taken[q] /\ x = offered[q]
  OBVIOUS
<1> HIDE DEF s, t, o, x, m
<1>7. PICK v : v = IF drain THEN t \o Numbers(Mine(s, c, k)) ELSE t
  BY Zenon
<1>8. \E u : HeldAfter(q, u) /\ v \in Seq(Nat) /\ Counted(u, v, o, x, m)
  <2>1. CASE ~drain
    BY <1>2, <1>4, <1>5, <1>7, <2>1
  <2>2. CASE drain
    <3>1. PICK u : Keeps(u, s, c, k) /\ HeldAfter(q, u)
      BY <1>2, <2>2
    <3>2. Drains(v, t, Mine(s, c, k))
      BY <1>7, <2>2, Zenon DEF Drains
    <3>3. v \in Seq(Nat) /\ Counted(u, v, o, x, m)
      BY <1>4, <1>5, <3>1, <3>2, CountedDrain
    <3> QED
      BY <3>1, <3>3
  <2> QED
    BY <2>1, <2>2
<1>9. PICK u : HeldAfter(q, u) /\ v \in Seq(Nat) /\ Counted(u, v, o, x, m)
  BY <1>8
<1>10. taken' = [taken EXCEPT ![q] = v]
  <2>1. CASE drain
    BY <1>2, <1>3, <1>7, <2>1, Zenon
  <2>2. CASE ~drain
    <3>1. taken' = taken /\ v = taken[q]
      BY <1>3, <1>6, <1>7, <2>2
    <3> QED
      BY <1>4, <3>1
  <2> QED
    BY <2>1, <2>2
<1>11. /\ taken' \in [Queues -> Seq(Nat)] /\ taken'[q] = v
       /\ \A p \in Queues : p # q => taken'[p] = taken[p]
  BY <1>4, <1>9, <1>10
<1>12. QueueCounted(q)'
  <2>1. Queued(q)' = u /\ HoldsIn(storage', ring', q, Queued(q)') /\ RingOf(ring', q, Queued(q)')
    BY <1>9 DEF HeldAfter
  <2>2. Counted(Queued(q)', taken'[q], ring'[q].overflow, offered'[q], MaxOffers[q])
    BY <1>2, <1>3, <1>6, <1>9, <1>11, <2>1 DEF m
  <2> QED
    BY <2>1, <2>2 DEF QueueCounted
<1>13. ASSUME NEW p \in Queues, p # q PROVE QueueCounted(p)'
  BY <1>3, <1>9, <1>11, <1>13, CountedApart
<1>14. \A p \in Queues : QueueCounted(p)'
  BY <1>12, <1>13
<1>15. ring' \in [Queues -> Ring]
  BY <1>9 DEF HeldAfter
<1> QED
  BY <1>3, <1>4, <1>11, <1>14, <1>15 DEF QueuesCounted

\* Of ReceiveQueue, for any number of queues, slice size, channels, record lengths
\* and limits: after any polls and receives each slice holds whole records from its
\* tail on, used and head of the ring agree with them, and the records that arrived
\* are those that are queued, were drained or were counted as overflow.
THEOREM CountedAlways == QueueSpec => []QueuesCounted
<1>1. QueueInit => QueuesCounted
  BY CountedAtFirst
<1>2. QueuesCounted /\ [QueueNext]_queueVars => QueuesCounted'
  <2> SUFFICES ASSUME QueuesCounted, [QueueNext]_queueVars PROVE QueuesCounted'
    OBVIOUS
  <2>1. ASSUME NEW q \in Queues, NEW c \in Channels, NEW n \in Lengths, Poll(q, c, n)
        PROVE  QueuesCounted'
    BY <2>1, CountedAfterPoll
  <2>2. ASSUME NEW q \in Queues, NEW c \in Channels, NEW limit \in Limits, NEW drain \in BOOLEAN,
               Receive(q, c, limit, drain)
        PROVE  QueuesCounted'
    BY <2>2, CountedAfterReceive
  <2>3. CASE UNCHANGED queueVars
    <3>1. storage' = storage /\ ring' = ring /\ offered' = offered /\ taken' = taken
      BY <2>3 DEF queueVars
    <3>2. \A q \in Queues : Queued(q)' = Queued(q)
      BY <3>1 DEF Queued
    <3> QED
      BY <3>1, <3>2 DEF QueuesCounted, QueueCounted
  <2> QED
    BY <2>1, <2>2, <2>3 DEF QueueNext
<1> QED
  BY <1>1, <1>2, PTL DEF QueueSpec

\* No record that push was given is lost without being counted in overflow, none is
\* drained twice, and the queued ones stay in the order they arrived in: a drain
\* that moves the records of other channels down (read, copy) breaks none of them.
THEOREM RecordsAreCounted == QueueSpec => []NothingLostUncounted
<1>1. QueuesCounted => NothingLostUncounted
  <2> SUFFICES ASSUME QueuesCounted, NEW q \in Queues
               PROVE  LET queued == [i \in 1..Len(Queued(q)) |-> Queued(q)[i].stamp]
                          seen == taken[q] \o queued
                      IN  /\ Len(seen) + ring[q].overflow = offered[q]
                          /\ Cardinality({seen[i] : i \in DOMAIN seen}) = Len(seen)
                          /\ \A i, j \in DOMAIN Queued(q) : i < j => queued[i] < queued[j]
    BY DEF NothingLostUncounted
  <2> DEFINE s == Queued(q)
             t == taken[q]
  <2>1. /\ taken \in [Queues -> Seq(Nat)] /\ ring \in [Queues -> Ring] /\ offered \in [Queues -> Nat]
        /\ HoldsIn(storage, ring, q, s) /\ Counted(s, t, ring[q].overflow, offered[q], MaxOffers[q])
    BY DEF QueuesCounted, QueueCounted
  <2>2. /\ t \in Seq(Nat) /\ ring[q].overflow \in Nat /\ offered[q] \in Nat /\ MaxOffers[q] \in Nat
        /\ s \in Seq(Record)
    BY <2>1, SizesAssumption DEF Ring, HoldsIn
  <2> HIDE DEF s, t
  <2>3. PICK e : Drains(e, t, s)
    BY Zenon DEF Drains
  <2>4. /\ Len(e) + ring[q].overflow = offered[q]
        /\ Cardinality({e[i] : i \in DOMAIN e}) = Len(e)
        /\ \A i, j \in DOMAIN s : i < j => Numbers(s)[i] < Numbers(s)[j]
    BY <2>1, <2>2, <2>3, CountedShows
  <2>5. e = t \o Numbers(s)
    BY <2>3, Zenon DEF Drains
  <2> QED
    BY <2>4, <2>5, Zenon DEF Numbers, s, t
<1> QED
  BY <1>1, CountedAlways, PTL

-----------------------------------------------------------------------------
(* The queues of records                                                    *)

\* The queues as PromiseSpec has them.
Records == [q \in Queues |-> Queued(q)]
Overflows == [q \in Queues |-> ring[q].overflow]

\* What a step that leaves s in queue q, and z refused, does to them.
LEMMA RecordsAfter ==
    ASSUME NEW q \in Queues, NEW s, NEW z, HeldAfter(q, s), ring'[q].overflow = z
    PROVE  /\ Records' = [Records EXCEPT ![q] = s]
           /\ Overflows' = [Overflows EXCEPT ![q] = z]
<1>1. /\ Queued(q)' = s
      /\ \A p \in Queues : p # q => Queued(p)' = Queued(p) /\ ring'[p] = ring[p]
  BY DEF HeldAfter
<1>2. /\ Records' = [p \in Queues |-> Queued(p)'] /\ Records = [p \in Queues |-> Queued(p)]
      /\ Overflows' = [p \in Queues |-> ring'[p].overflow]
      /\ Overflows = [p \in Queues |-> ring[p].overflow]
  BY DEF Records, Overflows
<1>3. [Records EXCEPT ![q] = s] = [p \in Queues |-> IF p = q THEN s ELSE Queued(p)]
  BY <1>2
<1>4. [Overflows EXCEPT ![q] = z] = [p \in Queues |-> IF p = q THEN z ELSE ring[p].overflow]
  BY <1>2
<1>5. \A p \in Queues : Queued(p)' = IF p = q THEN s ELSE Queued(p)
  BY <1>1
<1>6. \A p \in Queues : ring'[p].overflow = IF p = q THEN z ELSE ring[p].overflow
  BY <1>1
<1> QED
  BY <1>2, <1>3, <1>4, <1>5, <1>6

\* To put back what a queue holds changes nothing.
LEMMA SameRecords ==
    ASSUME NEW q \in Queues
    PROVE  /\ [Records EXCEPT ![q] = Queued(q)] = Records
           /\ [Overflows EXCEPT ![q] = ring[q].overflow] = Overflows
           /\ Records[q] = Queued(q) /\ Overflows[q] = ring[q].overflow
  BY DEF Records, Overflows

\* A poll is a step of the queues of records.
LEMMA PollOffers ==
    ASSUME QueuesCounted, NEW q \in Queues, NEW c \in Channels, NEW n \in Lengths, Poll(q, c, n)
    PROVE  Promise!Next
<1> DEFINE s == Queued(q)
           o == ring[q].overflow
<1>1. PICK r \in Record : PollTo(q, r)
  BY PollDoes
<1>2. Parsed(answer)' = Parsed(answer)
  BY DEF Poll
<1>3. s = Records[q] /\ o = Overflows[q]
  BY SameRecords
<1>4. \/ /\ TotalSize(s) + SizeOf(r) > Slice
         /\ HeldAfter(q, s) /\ ring'[q].overflow = o + 1
      \/ /\ TotalSize(s) + SizeOf(r) <= Slice
         /\ HeldAfter(q, Append(s, r)) /\ ring'[q].overflow = o
  BY <1>1 DEF PollTo
<1> HIDE DEF s, o
<1>5. \/ /\ Records' = [Records EXCEPT ![q] = Append(Records[q], r)]
         /\ Overflows' = Overflows
         /\ TotalSize(Records[q]) + SizeOf(r) <= Slice
      \/ /\ Overflows' = [Overflows EXCEPT ![q] = Overflows[q] + 1]
         /\ Records' = Records
         /\ TotalSize(Records[q]) + SizeOf(r) > Slice
  <2>1. CASE /\ TotalSize(s) + SizeOf(r) > Slice
             /\ HeldAfter(q, s) /\ ring'[q].overflow = o + 1
    <3>1. Records' = [Records EXCEPT ![q] = s] /\ Overflows' = [Overflows EXCEPT ![q] = o + 1]
      BY <2>1, RecordsAfter
    <3>2. [Records EXCEPT ![q] = s] = Records
      BY SameRecords DEF s
    <3> QED
      BY <1>3, <2>1, <3>1, <3>2, Zenon
  <2>2. CASE /\ TotalSize(s) + SizeOf(r) <= Slice
             /\ HeldAfter(q, Append(s, r)) /\ ring'[q].overflow = o
    <3>1. /\ Records' = [Records EXCEPT ![q] = Append(s, r)]
          /\ Overflows' = [Overflows EXCEPT ![q] = o]
      BY <2>2, RecordsAfter, Zenon
    <3>2. [Overflows EXCEPT ![q] = o] = Overflows
      BY SameRecords DEF o
    <3> QED
      BY <1>3, <2>2, <3>1, <3>2, Zenon
  <2> QED
    BY <1>4, <2>1, <2>2
<1>6. Promise!Offer(q, r)
  BY <1>2, <1>5, Zenon DEF Promise!Offer, Records, Overflows, TotalSize, SizeOf
<1>7. Promise!Step(q)
  BY <1>6 DEF Promise!Step, Record
<1> QED
  BY <1>7 DEF Promise!Next

\* A receive looks at the first k records and stops at the next.
LEMMA LookedAt ==
    ASSUME NEW s \in Seq(Record), NEW c \in Channels, NEW limit \in Nat, NEW k \in 0..Len(s),
           Halts(c, limit, s, k), TotalSize(Mine(s, c, k)) <= limit
    PROVE  Promise!Looked(SubSeq(s, 1, k), Rest(s, k), c, limit)
<1> DEFINE b == Rest(s, k)
           a == Mine(s, c, k)
<1>1. /\ b \in Seq(Record) /\ Len(b) = Len(s) - k
      /\ \A i \in 1..(Len(s) - k) : b[i] = s[k + i]
  BY RestIs
<1> HIDE DEF b, a
<1>2. ASSUME b # <<>>
      PROVE  Head(b).channel = c /\ TotalSize(a) + SizeOf(Head(b)) > limit
  <2>1. Len(b) # 0 /\ Head(b) = b[1]
    BY <1>1, <1>2
  <2>2. k # Len(s) /\ 1 \in 1..(Len(s) - k)
    BY <1>1, <2>1
  <2>3. Head(b) = s[k + 1]
    BY <1>1, <2>1, <2>2
  <2> QED
    BY <2>2, <2>3 DEF Halts, a
<1>3. Promise!Matching(SubSeq(s, 1, k), c) = a
  BY DEF Promise!Matching, a, Mine, Of
<1>4. TotalSize(a) <= limit
  BY DEF a
<1>5. Promise!Looked(SubSeq(s, 1, k), b, c, limit)
  BY <1>2, <1>3, <1>4, Zenon DEF Promise!Looked, TotalSize, SizeOf
<1> QED
  BY <1>5 DEF b

\* A receive is a step of the queues of records.
LEMMA ReceiveReceives ==
    ASSUME QueuesCounted, NEW q \in Queues, NEW c \in Channels, NEW limit \in Limits,
           NEW drain \in BOOLEAN, Receive(q, c, limit, drain)
    PROVE  Promise!Next
<1> DEFINE s == Queued(q)
           o == ring[q].overflow
<1>1. PICK k \in 0..Len(s) : ReceiveTo(q, c, limit, drain, k)
  BY ReceiveDoes
<1>2. /\ Halts(c, limit, s, k) /\ TotalSize(Mine(s, c, k)) <= limit
      /\ Parsed(answer') = Mine(s, c, k) /\ ring'[q].overflow = o
      /\ ~drain => HeldAfter(q, s)
      /\ drain => \E u : Keeps(u, s, c, k) /\ HeldAfter(q, u)
  BY <1>1, Zenon DEF ReceiveTo
<1>3. s \in Seq(Record) /\ limit \in Nat
  BY SizesAssumption DEF QueuesCounted, QueueCounted, HoldsIn
<1>4. s = Records[q] /\ [Records EXCEPT ![q] = s] = Records /\ [Overflows EXCEPT ![q] = o] = Overflows
  BY SameRecords
<1> HIDE DEF s, o
<1>5. Promise!Looked(SubSeq(s, 1, k), Rest(s, k), c, limit)
  BY <1>2, <1>3, LookedAt
<1>6. /\ Overflows' = Overflows
      /\ Records' = IF drain THEN [Records EXCEPT ![q] = Left(s, c, k) \o Rest(s, k)] ELSE Records
  <2>1. CASE ~drain
    <3>1. Records' = [Records EXCEPT ![q] = s] /\ Overflows' = [Overflows EXCEPT ![q] = o]
      BY <1>2, <2>1, RecordsAfter
    <3> QED
      BY <1>4, <2>1, <3>1, Zenon
  <2>2. CASE drain
    <3>1. PICK u : Keeps(u, s, c, k) /\ HeldAfter(q, u)
      BY <1>2, <2>2
    <3>2. Records' = [Records EXCEPT ![q] = u] /\ Overflows' = [Overflows EXCEPT ![q] = o]
      BY <1>2, <3>1, RecordsAfter
    <3>3. u = Left(s, c, k) \o Rest(s, k)
      BY <3>1, Zenon DEF Keeps
    <3> QED
      BY <1>4, <2>2, <3>2, <3>3, Zenon
  <2> QED
    BY <2>1, <2>2
<1>7. Parsed(answer)' = Promise!Matching(SubSeq(s, 1, k), c)
  BY <1>2, Zenon DEF Promise!Matching, Mine, Of
<1>8. Left(s, c, k) = Promise!Others(SubSeq(s, 1, k), c)
  BY Zenon DEF Promise!Others, Left, Of
<1>9. Promise!Receive(q, c, limit, drain)
  <2>1. Records[q] = Queued(q)
    BY SameRecords
  <2> QED
    BY <1>4, <1>5, <1>6, <1>7, <1>8, Zenon DEF Promise!Receive, Records, Overflows, Rest
<1>10. Promise!Step(q)
  BY <1>9 DEF Promise!Step
<1> QED
  BY <1>10 DEF Promise!Next

\* The rings of bytes with push, copy and read implement the queues of whole records:
\* a poll appends the record or counts it, a receive answers the first records of its
\* channel that fit, and a drain removes those and no other.
THEOREM QueueRefinement == QueueSpec => PromiseSpec
<1>1. QueueInit => Promise!Init
  <2> SUFFICES ASSUME QueueInit PROVE Promise!Init
    OBVIOUS
  <2>1. QueuesCounted
    BY CountedAtFirst
  <2>2. ASSUME NEW q \in Queues PROVE Queued(q) = <<>> /\ ring[q].overflow = 0
    <3>1. /\ Len(taken[q]) + Len(Queued(q)) + ring[q].overflow = offered[q]
          /\ Queued(q) \in Seq(Record) /\ taken[q] = <<>> /\ offered[q] = 0 /\ ring[q].overflow = 0
      BY <2>1 DEF QueuesCounted, QueueCounted, Counted, HoldsIn, QueueInit
    <3> QED
      BY <3>1
  <2>3. Parsed(answer) = <<>>
    BY DEF QueueInit, Parsed
  <2> QED
    BY <2>2, <2>3 DEF Promise!Init
<1>2. QueuesCounted /\ [QueueNext]_queueVars => [Promise!Next]_(Promise!vars)
  <2> SUFFICES ASSUME QueuesCounted, [QueueNext]_queueVars PROVE [Promise!Next]_(Promise!vars)
    OBVIOUS
  <2>1. ASSUME NEW q \in Queues, NEW c \in Channels, NEW n \in Lengths, Poll(q, c, n)
        PROVE  Promise!Next
    BY <2>1, PollOffers
  <2>2. ASSUME NEW q \in Queues, NEW c \in Channels, NEW limit \in Limits, NEW drain \in BOOLEAN,
               Receive(q, c, limit, drain)
        PROVE  Promise!Next
    BY <2>2, ReceiveReceives
  <2>3. CASE UNCHANGED queueVars
    <3>1. storage' = storage /\ ring' = ring /\ answer' = answer
      BY <2>3 DEF queueVars
    <3>2. \A q \in Queues : Queued(q)' = Queued(q)
      BY <3>1 DEF Queued
    <3>3. Records' = Records /\ Overflows' = Overflows /\ Parsed(answer)' = Parsed(answer)
      BY <3>1, <3>2 DEF Records, Overflows
    <3> QED
      BY <3>3, Zenon DEF Promise!vars, Records, Overflows
  <2> QED
    BY <2>1, <2>2, <2>3 DEF QueueNext
<1> QED
  BY <1>1, <1>2, CountedAlways, PTL DEF QueueSpec, PromiseSpec, Promise!Spec
==============================================================================
