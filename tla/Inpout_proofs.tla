--------------------------- MODULE Inpout_proofs ---------------------------
(***************************************************************************)
(* Proofs about parts of inpout32.dll and giveio64 that share no state:    *)
(* the port driver and the redirection (Inpout32), the driver that opens   *)
(* the ports to programs (GiveIo), mapped memory (PhysMem) and the search  *)
(* for the ports (LptGetAddr), for any number of processes, processors,    *)
(* programs, calls and devices.                                            *)
(***************************************************************************)
EXTENDS MCInpout32, FiniteSetTheorems, WellFoundedInduction, TLAPS

(***************************************************************************)
(* The port driver and the redirection.                                    *)
(***************************************************************************)

\* Each true port has the standard addresses of its number, or addresses that are no
\* port's standard ones (README, Findings).
Near(b, j) == Within(Word(b - SppDef(j)))
Placed(port, i) ==
  /\ port.spp \in Nat /\ port.spp <= 65528
  /\ port.spp = SppDef(i) \/ \A j \in Slots, r \in 0 .. 7 : ~Near(port.spp + r, j)
  /\ port.ecp \in Nat /\ port.ecp <= 65528
  /\ port.ecp \in {0, SppDef(i) + EcpOffset} \/ \A j \in Slots, r \in 0 .. 7 : ~Near(port.ecp + r, j)
PortsApart == \A ports \in TruePorts, i \in Slots : ports[i] # NoPort => Placed(ports[i], i)

TableOf(info) ==
  \A i \in Slots : /\ info[i].where \in 0 .. 4
                   /\ info[i].where = 1 => Placed(info[i].port, i)
Table == TableOf(RedirInfo)

LEMMA TableInit == ASSUME PortsApart, Init PROVE Table
  <1>1. PICK ports \in TruePorts, drivers \in SUBSET Slots, h \in 0 .. MaxHids, n \in 0 .. MaxPrns :
          RedirInfo = Collected(ports, drivers, h, n)
    BY DEF Init
  <1>. DEFINE fixed == [i \in Slots |->
                  IF ports[i] # NoPort THEN [where |-> 1, port |-> ports[i]]
                  ELSE IF i \in drivers THEN [where |-> 2, port |-> NoPort] ELSE Free]
  <1>2. TableOf(fixed)
    BY DEF PortsApart, Free, TableOf
  <1>3. ASSUME NEW info, TableOf(info), NEW where \in {3, 4}, NEW k
        PROVE  TableOf(Inserted(info, where, k))
    BY <1>3 DEF Inserted, TableOf
  <1>4. RedirInfo = Inserted(Inserted(fixed, 3, h), 4, n)
    BY <1>1, Zenon DEF Collected
  <1>. HIDE DEF fixed
  <1>5. TableOf(Inserted(fixed, 3, h))
    BY <1>2, <1>3
  <1>6. TableOf(Inserted(Inserted(fixed, 3, h), 4, n))
    BY <1>5, <1>3
  <1>. QED BY <1>4, <1>6 DEF Table

LEMMA Words ==
  /\ \A n \in Int : 0 <= n /\ n <= 65535 => Word(n) = n
  /\ \A n \in Int : -65536 <= n /\ n <= -1 => Word(n) = n + 65536
  BY DEF Word

LEMMA Digits == \A n \in 0 .. 7 : n % 8 = n /\ n \div 8 = 0
  OBVIOUS

\* Standard addresses of different numbers are apart.
LEMMA Standards ==
  ASSUME NEW i \in Slots, NEW r \in 0 .. 7
  PROVE  /\ SppDef(i) \in {888, 632, 956}
         /\ Word((SppDef(i) + r) - SppDef(i)) = r
         /\ Word((SppDef(i) + EcpOffset + r) - SppDef(i)) = EcpOffset + r
         /\ \A j \in Slots : j # i => ~Near(SppDef(i) + r, j)
         /\ \A j \in Slots : j # i => ~Near(SppDef(i) + EcpOffset + r, j)
  <1>1. i \in {0, 1, 2} /\ Slots = {0, 1, 2}
    BY DEF Slots
  <1>2. SppDef(0) = 888 /\ SppDef(1) = 632 /\ SppDef(2) = 956
    BY DEF SppDef
  <1>3. SppDef(i) \in {888, 632, 956}
    BY <1>1, <1>2
  <1>4. (SppDef(i) + r) - SppDef(i) = r /\ (SppDef(i) + EcpOffset + r) - SppDef(i) = EcpOffset + r
    BY <1>3 DEF EcpOffset
  <1>5. Word(r) = r /\ Word(EcpOffset + r) = EcpOffset + r
    <2>1. r \in Int /\ 0 <= r /\ r <= 7 /\ EcpOffset = 1024
      BY DEF EcpOffset
    <2>2. EcpOffset + r \in Int /\ 0 <= EcpOffset + r /\ EcpOffset + r <= 65535 /\ r <= 65535
      BY <2>1
    <2>. QED BY <2>1, <2>2, Words
  <1>6. ASSUME NEW j \in Slots, j # i PROVE ~Near(SppDef(i) + r, j)
    <2>. DEFINE d == (SppDef(i) + r) - SppDef(j)
    <2>1. d \in Int /\ ((8 <= d /\ d <= 1000) \/ (-1000 <= d /\ d <= -1))
      BY <1>1, <1>2, <1>6
    <2>. HIDE DEF d
    <2>2. d <= 65535 /\ -65536 <= d
      BY <2>1
    <2>3. Word(d) = IF 0 <= d THEN d ELSE d + 65536
      BY <2>1, <2>2, Words
    <2>4. Word(d) >= 8 /\ ~(1024 <= Word(d) /\ Word(d) <= 1031) /\ Word(d) \in Int
      BY <2>1, <2>3
    <2>5. ~Within(Word(d))
      BY <2>4 DEF Within, EcpOffset
    <2>. QED BY <2>5 DEF Near, d
  <1>7. ASSUME NEW j \in Slots, j # i PROVE ~Near(SppDef(i) + EcpOffset + r, j)
    <2>. DEFINE d == (SppDef(i) + EcpOffset + r) - SppDef(j)
    <2>1. d \in Int /\ ((8 <= d /\ d <= 1023) \/ (1032 <= d /\ d <= 2000))
      BY <1>1, <1>2, <1>7 DEF EcpOffset
    <2>. HIDE DEF d
    <2>2. 0 <= d /\ d <= 65535
      BY <2>1
    <2>3. Word(d) = d
      BY <2>1, <2>2, Words
    <2>5. ~Within(Word(d))
      BY <2>1, <2>3 DEF Within, EcpOffset
    <2>. QED BY <2>5 DEF Near, d
  <1>. QED BY <1>3, <1>4, <1>5, <1>6, <1>7

\* patch() leaves addresses alone that are near no port of its table.
LEMMA PatchNear ==
  ASSUME NEW a \in Int, 0 <= a, a <= 65535, NEW j \in Slots,
         \/ Word(a - SppDef(j)) < (IF j < 2 THEN 8 ELSE 4)
         \/ Word(a - SppDef(j) - EcpOffset) < 4
  PROVE  Near(a, j)
  <1>. DEFINE d == a - SppDef(j)
  <1>1. d \in Int /\ -956 <= d /\ d <= 65535
    BY DEF SppDef, Slots
  <1>. HIDE DEF d
  <1>2. Word(d) = IF 0 <= d THEN d ELSE d + 65536
    BY <1>1, Words
  <1>3. CASE Word(d) < (IF j < 2 THEN 8 ELSE 4)
    <2>1. Word(d) < 8
      BY <1>1, <1>2, <1>3 DEF Slots
    <2>. QED BY <2>1 DEF Near, Within, d
  <1>4. CASE Word(d - EcpOffset) < 4
    <2>1. EcpOffset = 1024 /\ d - EcpOffset \in Int /\ d - EcpOffset <= 65535 /\ -65536 <= d - EcpOffset
      BY <1>1 DEF EcpOffset
    <2>. DEFINE e == d - 1024
    <2>5. e \in Int /\ e <= 65535 /\ -65536 <= e
      BY <2>1
    <2>. HIDE DEF e
    <2>6. Word(e) = IF 0 <= e THEN e ELSE e + 65536
      BY <2>5, Words
    <2>2. Word(d - EcpOffset) = IF 1024 <= d THEN d - 1024 ELSE d - 1024 + 65536
      BY <1>1, <2>1, <2>6 DEF e
    <2>3. 1024 <= d /\ d <= 1027
      BY <1>1, <1>4, <2>2
    <2>4. Within(Word(d))
      BY <1>1, <1>2, <2>1, <2>3 DEF Within
    <2>. QED BY <2>4 DEF Near, d
  <1>. QED BY <1>3, <1>4 DEF d

LEMMA OnlyOne == ASSUME NEW x \in Int PROVE Min({x}) = x
  <1>1. \E n \in {x} : \A m \in {x} : n <= m
    OBVIOUS
  <1>. QED BY <1>1 DEF Min

\* What patch() makes of an address that is near number i at most.
LEMMA PatchedSpp ==
  ASSUME NEW a \in Int, 0 <= a, a <= 65535, NEW i \in Slots, \A j \in Slots : j # i => ~Near(a, j),
         RedirInfo[i].where = 1, Word(a - SppDef(i)) < (IF i < 2 THEN 8 ELSE 4)
  PROVE  Patched(a) = Word(a + (RedirInfo[i].port.spp - SppDef(i)))
  <1>. DEFINE spp == {j \in Slots : RedirInfo[j].where = 1 /\ Word(a - SppDef(j)) < IF j < 2 THEN 8 ELSE 4}
  <1>1. spp = {i}
    BY PatchNear
  <1>2. Min(spp) = i
    BY <1>1, OnlyOne DEF Slots
  <1>. QED BY <1>1, <1>2 DEF Patched

LEMMA PatchedEcp ==
  ASSUME NEW a \in Int, 0 <= a, a <= 65535, NEW i \in {0, 1}, \A j \in Slots : j # i => ~Near(a, j),
         RedirInfo[i].where = 1, RedirInfo[i].port.ecp # 0,
         ~(Word(a - SppDef(i)) < (IF i < 2 THEN 8 ELSE 4)), Word(a - SppDef(i) - EcpOffset) < 4
  PROVE  Patched(a) = Word(a + (RedirInfo[i].port.ecp - SppDef(i) - EcpOffset))
  <1>. DEFINE spp == {j \in Slots : RedirInfo[j].where = 1 /\ Word(a - SppDef(j)) < IF j < 2 THEN 8 ELSE 4}
              ecp == {j \in {0, 1} : /\ RedirInfo[j].where = 1 /\ RedirInfo[j].port.ecp # 0
                                     /\ Word(a - SppDef(j) - EcpOffset) < 4}
  <1>1. {0, 1} \subseteq Slots
    BY DEF Slots
  <1>2. spp = {}
    BY PatchNear
  <1>3. ecp = {i}
    BY <1>1, PatchNear
  <1>4. Min(ecp) = i
    BY <1>3, OnlyOne
  <1>. QED BY <1>2, <1>3, <1>4 DEF Patched

LEMMA PatchedNot ==
  ASSUME NEW a \in Int, 0 <= a, a <= 65535,
         \A j \in Slots : Near(a, j) /\ RedirInfo[j].where = 1 =>
              /\ ~(Word(a - SppDef(j)) < (IF j < 2 THEN 8 ELSE 4))
              /\ j = 2 \/ RedirInfo[j].port.ecp = 0 \/ ~(Word(a - SppDef(j) - EcpOffset) < 4)
  PROVE  Patched(a) = a
  <1>. DEFINE spp == {j \in Slots : RedirInfo[j].where = 1 /\ Word(a - SppDef(j)) < IF j < 2 THEN 8 ELSE 4}
              ecp == {j \in {0, 1} : /\ RedirInfo[j].where = 1 /\ RedirInfo[j].port.ecp # 0
                                     /\ Word(a - SppDef(j) - EcpOffset) < 4}
  <1>1. {0, 1} \subseteq Slots
    BY DEF Slots
  <1>2. spp = {}
    BY PatchNear
  <1>3. ecp = {}
    BY <1>1, PatchNear
  <1>. QED BY <1>2, <1>3 DEF Patched

\* Where an address ends that patch() has made b: at the hardware, or in the queue of the
\* number that b is near.
LEMMA EndsHardware ==
  ASSUME NEW p, NEW a, NEW b, Patched(a) = b,
         \A j \in Slots : RedirInfo[j].where >= 2 => ~Near(b, j)
  PROVE  Ends(p, a) = Hardware(p, b)
  <1>1. Candidates(b) = {}
    BY DEF Candidates, Near
  <1>. QED BY <1>1 DEF Ends, Hardware

LEMMA EndsQueue ==
  ASSUME NEW p, NEW a, NEW i \in Slots, Patched(a) = a, RedirInfo[i].where >= 2, Near(a, i),
         \A j \in Slots : j # i => ~Near(a, j)
  PROVE  Ends(p, a) = <<"queue", i, RegisterOf(Word(a - SppDef(i)))>>
  <1>1. Candidates(a) = {i}
    BY DEF Candidates, Near
  <1>2. Min(Candidates(a)) = i
    BY <1>1, OnlyOne DEF Slots
  <1>. QED BY <1>1, <1>2 DEF Ends
-----------------------------------------------------------------------------
(* What programs mean by addresses *)

\* A register of a standard port.
LEMMA SppEnds ==
  ASSUME Table, NEW p, NEW i \in Slots, NEW r \in 0 .. 7, i = 2 => r < 4
  PROVE  Ends(p, SppDef(i) + r) = Meaning(p, i, r)
  <1>. DEFINE a == SppDef(i) + r
              info == RedirInfo[i]
  <1>1. /\ a \in Int /\ 0 <= a /\ a <= 65535 /\ Word(a - SppDef(i)) = r
        /\ \A j \in Slots : j # i => ~Near(a, j)
        /\ SppDef(i) \in Int /\ r \in Int /\ 0 <= r /\ r <= 7
    BY Standards
  <1>2. info.where \in 0 .. 4
    BY DEF Table, TableOf
  <1>3. r % 8 = r /\ r \div 8 = 0
    BY Digits
  <1>. HIDE DEF a
  <1>4. CASE info.where = 1
    <2>. DEFINE b == info.port.spp + r
    <2>1. Placed(info.port, i)
      BY <1>4 DEF Table, TableOf
    <2>2. b \in Int /\ 0 <= b /\ b <= 65535 /\ a + (info.port.spp - SppDef(i)) = b
      BY <1>1, <2>1 DEF Placed, a
    <2>3. Word(a - SppDef(i)) < (IF i < 2 THEN 8 ELSE 4)
      BY <1>1 DEF Slots
    <2>4. Patched(a) = Word(a + (info.port.spp - SppDef(i)))
      BY <1>1, <1>4, <2>3, PatchedSpp
    <2>5. Patched(a) = b
      <3>. HIDE DEF b
      <3>. QED BY <2>2, <2>4, Words
    <2>6. \A j \in Slots : j # i => ~Near(b, j)
      <3>1. CASE info.port.spp = SppDef(i)
        BY <3>1, <1>1 DEF a
      <3>2. CASE info.port.spp # SppDef(i)
        BY <3>2, <2>1 DEF Placed
      <3>. QED BY <3>1, <3>2
    <2>7. Ends(p, a) = Hardware(p, b)
      <3>. HIDE DEF b
      <3>. QED BY <1>4, <2>5, <2>6, EndsHardware
    <2>8. Meaning(p, i, r) = Hardware(p, b)
      BY <1>1, <1>4 DEF Meaning
    <2>. QED BY <2>7, <2>8 DEF a
  <1>5. CASE info.where # 1
    <2>1. Patched(a) = a
      BY <1>1, <1>5, PatchedNot
    <2>2. CASE info.where = 0
      <3>1. Ends(p, a) = Hardware(p, a)
        BY <1>1, <2>1, <2>2, EndsHardware
      <3>2. Meaning(p, i, r) = Hardware(p, SppDef(i) + r + (EcpOffset * 0))
        BY <1>3, <2>2 DEF Meaning
      <3>3. SppDef(i) + r + (EcpOffset * 0) = SppDef(i) + r
        BY <1>1 DEF EcpOffset
      <3>. QED BY <3>1, <3>2, <3>3 DEF a
    <2>3. CASE info.where # 0
      <3>1. Near(a, i)
        BY <1>1 DEF Near, Within
      <3>2. Ends(p, a) = <<"queue", i, RegisterOf(r)>>
        BY <1>1, <1>2, <1>5, <2>1, <2>3, <3>1, EndsQueue
      <3>3. RegisterOf(r) = r
        BY <1>1 DEF RegisterOf
      <3>. QED BY <1>5, <2>3, <3>2, <3>3 DEF Meaning, a
    <2>. QED BY <2>2, <2>3
  <1>. QED BY <1>4, <1>5

\* A register of its ECP part.
LEMMA EcpEnds ==
  ASSUME Table, NEW p, NEW i \in {0, 1}, NEW r \in 0 .. 3
  PROVE  Ends(p, SppDef(i) + EcpOffset + r) = Meaning(p, i, 8 + r)
  <1>. DEFINE a == SppDef(i) + EcpOffset + r
              info == RedirInfo[i]
  <1>1. i \in Slots /\ r \in 0 .. 7 /\ r \in Int /\ 0 <= r /\ r <= 3 /\ EcpOffset = 1024
    BY DEF Slots, EcpOffset
  <1>2. /\ Word(a - SppDef(i)) = EcpOffset + r
        /\ \A j \in Slots : j # i => ~Near(a, j)
        /\ SppDef(i) \in {888, 632, 956}
    BY <1>1, Standards
  <1>3. /\ a \in Int /\ 0 <= a /\ a <= 65535 /\ SppDef(i) \in Int
        /\ a - SppDef(i) - EcpOffset = r
    BY <1>1, <1>2
  <1>4. Word(a - SppDef(i) - EcpOffset) = r
    BY <1>1, <1>3, Words
  <1>5. info.where \in 0 .. 4
    BY <1>1 DEF Table, TableOf
  <1>6. (8 + r) % 8 = r /\ (8 + r) \div 8 = 1 /\ 8 + r >= 8
    BY <1>1
  <1>7. ~(Word(a - SppDef(i)) < (IF i < 2 THEN 8 ELSE 4)) /\ Word(a - SppDef(i) - EcpOffset) < 4
    BY <1>1, <1>2, <1>4
  <1>. HIDE DEF a
  <1>8. CASE info.where = 1 /\ info.port.ecp # 0
    <2>. DEFINE b == info.port.ecp + r
    <2>1. Placed(info.port, i)
      BY <1>1, <1>8 DEF Table, TableOf
    <2>2. b \in Int /\ 0 <= b /\ b <= 65535 /\ a + (info.port.ecp - SppDef(i) - EcpOffset) = b
      BY <1>1, <1>2, <2>1 DEF Placed, a
    <2>3. Patched(a) = Word(a + (info.port.ecp - SppDef(i) - EcpOffset))
      BY <1>2, <1>3, <1>7, <1>8, PatchedEcp
    <2>4. Patched(a) = b
      <3>. HIDE DEF b
      <3>. QED BY <2>2, <2>3, Words
    <2>5. \A j \in Slots : j # i => ~Near(b, j)
      <3>1. CASE info.port.ecp = SppDef(i) + EcpOffset
        BY <3>1, <1>2 DEF a
      <3>2. CASE info.port.ecp # SppDef(i) + EcpOffset
        <4>1. \A j \in Slots, q \in 0 .. 7 : ~Near(info.port.ecp + q, j)
          BY <3>2, <1>8, <2>1 DEF Placed
        <4>. QED BY <4>1, <1>1
      <3>. QED BY <3>1, <3>2
    <2>6. Ends(p, a) = Hardware(p, b)
      <3>. HIDE DEF b
      <3>. QED BY <1>8, <2>4, <2>5, EndsHardware
    <2>7. Meaning(p, i, 8 + r) = Hardware(p, info.port.ecp + (8 + r) - 8)
      BY <1>6, <1>8 DEF Meaning
    <2>8. info.port.ecp + (8 + r) - 8 = b
      BY <1>1, <2>1 DEF Placed
    <2>. QED BY <2>6, <2>7, <2>8 DEF a
  <1>9. CASE ~(info.where = 1 /\ info.port.ecp # 0)
    <2>1. Patched(a) = a
      BY <1>2, <1>3, <1>7, <1>9, PatchedNot
    <2>2. CASE info.where \in {0, 1}
      <3>1. Ends(p, a) = Hardware(p, a)
        BY <1>2, <2>1, <2>2, EndsHardware
      <3>2. CASE info.where = 0
        <4>1. Meaning(p, i, 8 + r) = Hardware(p, SppDef(i) + r + (EcpOffset * 1))
          BY <1>6, <3>2 DEF Meaning
        <4>2. SppDef(i) + r + (EcpOffset * 1) = SppDef(i) + EcpOffset + r
          BY <1>1, <1>3
        <4>. QED BY <3>1, <4>1, <4>2 DEF a
      <3>3. CASE info.where = 1
        <4>1. Meaning(p, i, 8 + r) = Hardware(p, (SppDef(i) + EcpOffset) + (8 + r) - 8)
          BY <1>6, <1>9, <3>3 DEF Meaning
        <4>2. (SppDef(i) + EcpOffset) + (8 + r) - 8 = SppDef(i) + EcpOffset + r
          BY <1>1, <1>3
        <4>. QED BY <3>1, <4>1, <4>2 DEF a
      <3>. QED BY <2>2, <3>2, <3>3
    <2>3. CASE info.where \notin {0, 1}
      <3>1. Near(a, i)
        BY <1>1, <1>2 DEF Near, Within
      <3>2. Ends(p, a) = <<"queue", i, RegisterOf(EcpOffset + r)>>
        BY <1>1, <1>2, <1>5, <2>1, <2>3, <3>1, EndsQueue
      <3>3. RegisterOf(EcpOffset + r) = 8 + r
        BY <1>1 DEF RegisterOf
      <3>. QED BY <1>6, <2>3, <3>2, <3>3 DEF Meaning, a
    <2>. QED BY <2>2, <2>3
  <1>. QED BY <1>8, <1>9

\* The addresses of a true port itself, which its queue uses.
LEMMA TrueSppEnds ==
  ASSUME Table, NEW p, NEW i \in Slots, RedirInfo[i].where = 1
  PROVE  Ends(p, RedirInfo[i].port.spp + 0) = Meaning(p, i, 0)
  <1>. DEFINE a == RedirInfo[i].port.spp + 0
  <1>1. Placed(RedirInfo[i].port, i)
    BY DEF Table, TableOf
  <1>2. CASE RedirInfo[i].port.spp = SppDef(i)
    <2>1. 0 \in 0 .. 7 /\ (i = 2 => 0 < 4)
      OBVIOUS
    <2>. QED BY <1>2, <2>1, SppEnds
  <1>3. CASE RedirInfo[i].port.spp # SppDef(i)
    <2>1. a \in Int /\ 0 <= a /\ a <= 65535 /\ \A j \in Slots : ~Near(a, j)
      BY <1>1, <1>3 DEF Placed
    <2>2. Meaning(p, i, 0) = Hardware(p, a)
      BY DEF Meaning
    <2>. HIDE DEF a
    <2>3. Patched(a) = a
      BY <2>1, PatchedNot
    <2>4. Ends(p, a) = Hardware(p, a)
      BY <2>1, <2>3, EndsHardware
    <2>. QED BY <2>2, <2>4 DEF a
  <1>. QED BY <1>2, <1>3

LEMMA TrueEcpEnds ==
  ASSUME Table, NEW p, NEW i \in Slots, RedirInfo[i].where = 1, RedirInfo[i].port.ecp # 0
  PROVE  Ends(p, RedirInfo[i].port.ecp + 2) = Meaning(p, i, 10)
  <1>. DEFINE a == RedirInfo[i].port.ecp + 2
  <1>1. Placed(RedirInfo[i].port, i)
    BY DEF Table, TableOf
  <1>2. a \in Int /\ 0 <= a /\ a <= 65535
    BY <1>1 DEF Placed
  <1>3. Meaning(p, i, 10) = Hardware(p, a)
    <2>1. Meaning(p, i, 10) = Hardware(p, RedirInfo[i].port.ecp + 10 - 8)
      BY DEF Meaning
    <2>2. RedirInfo[i].port.ecp + 10 - 8 = a
      BY <1>1 DEF Placed
    <2>. QED BY <2>1, <2>2
  <1>4. CASE RedirInfo[i].port.ecp = SppDef(i) + EcpOffset /\ i # 2
    <2>1. i \in {0, 1} /\ 2 \in 0 .. 3 /\ 8 + 2 = 10
      BY <1>4 DEF Slots
    <2>2. Ends(p, SppDef(i) + EcpOffset + 2) = Meaning(p, i, 8 + 2)
      BY <2>1, EcpEnds
    <2>. QED BY <1>4, <2>1, <2>2
  <1>5. CASE ~(RedirInfo[i].port.ecp = SppDef(i) + EcpOffset /\ i # 2)
    <2>1. /\ \A j \in Slots : j # i => ~Near(a, j)
          /\ Near(a, i) => i = 2 /\ Word(a - SppDef(i)) = EcpOffset + 2
      <3>1. CASE RedirInfo[i].port.ecp = SppDef(i) + EcpOffset
        <4>1. a = SppDef(i) + EcpOffset + 2 /\ 2 \in 0 .. 7
          BY <3>1
        <4>. HIDE DEF a
        <4>. QED BY <1>5, <3>1, <4>1, Standards
      <3>2. CASE RedirInfo[i].port.ecp # SppDef(i) + EcpOffset
        BY <1>1, <3>2 DEF Placed
      <3>. QED BY <3>1, <3>2
    <2>. HIDE DEF a
    <2>2. Patched(a) = a
      <3>1. \A j \in Slots : Near(a, j) => j = 2 /\ Word(a - SppDef(j)) = EcpOffset + 2
        BY <2>1
      <3>2. ~(EcpOffset + 2 < 8) /\ ~(EcpOffset + 2 < 4)
        BY DEF EcpOffset
      <3>. QED BY <1>2, <3>1, <3>2, PatchedNot
    <2>3. Ends(p, a) = Hardware(p, a)
      BY <2>1, <2>2, EndsHardware
    <2>. QED BY <1>3, <2>3 DEF a
  <1>. QED BY <1>4, <1>5

\* Every address that a program forms.
AddressOf(i, r) == SppDef(i) + (r % 8) + (EcpOffset * (r \div 8))

LEMMA AddressEnds ==
  ASSUME Table, NEW p, NEW i \in Slots, NEW r \in {0, 4, 10}, i = 2 => r < 4
  PROVE  Ends(p, AddressOf(i, r)) = Meaning(p, i, r)
  <1>1. SppDef(i) \in Int /\ i \in {0, 1, 2}
    BY DEF SppDef, Slots
  <1>2. CASE r \in {0, 4}
    <2>1. r \in 0 .. 7 /\ r % 8 = r /\ r \div 8 = 0
      BY <1>2
    <2>2. AddressOf(i, r) = SppDef(i) + r
      BY <1>1, <2>1 DEF AddressOf, EcpOffset
    <2>. QED BY <2>1, <2>2, SppEnds
  <1>3. CASE r = 10
    <2>1. r % 8 = 2 /\ r \div 8 = 1 /\ i \in {0, 1} /\ 2 \in 0 .. 3 /\ 8 + 2 = r
      BY <1>1, <1>3
    <2>2. AddressOf(i, r) = SppDef(i) + EcpOffset + 2
      BY <1>1, <2>1 DEF AddressOf, EcpOffset
    <2>3. Ends(p, SppDef(i) + EcpOffset + 2) = Meaning(p, i, 8 + 2)
      BY <2>1, EcpEnds
    <2>. QED BY <2>1, <2>2, <2>3
  <1>. QED BY <1>2, <1>3

-----------------------------------------------------------------------------
(* The port driver *)

Stages == {"unloaded", "start", "start again", "inst", "open", "loaded", "stop"}
DllTypes ==
  /\ pc \in [Processes -> Stages]
  /\ started \in [Processes -> BOOLEAN]
  /\ foreign \in BOOLEAN
\* Somebody has to stop the driver, while it runs, and only if it has been started.
Starter ==
  /\ service = "running" /\ ~foreign => \E p \in Processes : started[p]
  /\ \A p \in Processes : started[p] => pc[p] # "unloaded"
  /\ \A p \in Processes : pc[p] = "stop" => started[p]
  /\ foreign => service = "running" /\ \A p \in Processes : ~started[p]
DllIInv == Table /\ DllTypes /\ Starter /\ GoesToItsPort

LEMMA ServedAsFound == DllIInv => PortsServed
  BY DEF DllIInv, DllTypes, Starter, PortsServed, DriverAsFound

LEMMA DllStart == ASSUME PortsApart, Init PROVE DllIInv
  <1>1. Table
    BY TableInit
  <1>2. DllTypes /\ Starter
    BY DEF Init, DllTypes, Starter, Stages
  <1>3. GoesToItsPort
    BY DEF Init, GoesToItsPort
  <1>. QED BY <1>1, <1>2, <1>3 DEF DllIInv

\* An access as it is meant.
LEMMA AsMeant ==
  ASSUME DllIInv, NEW p \in Processes, NEW a, NEW meant, Access(p, a, meant), Ends(p, a) = meant
  PROVE  DllIInv'
  <1>1. Table' /\ DllTypes' /\ Starter'
    BY DEF DllIInv, Access, Table, TableOf, DllTypes, Starter
  <1>2. GoesToItsPort'
    BY DEF Access, GoesToItsPort
  <1>. QED BY <1>1, <1>2 DEF DllIInv

LEMMA InpStep == ASSUME DllIInv, NEW p \in Processes, Inp32(p) PROVE DllIInv'
  <1>1. PICK i \in Slots, r \in {0, 4, 10} :
          (i = 2 => r < 4) /\ Access(p, AddressOf(i, r), Meaning(p, i, r))
    BY DEF Inp32, AddressOf
  <1>2. Ends(p, AddressOf(i, r)) = Meaning(p, i, r)
    BY <1>1, AddressEnds DEF DllIInv
  <1>. QED BY <1>1, <1>2, AsMeant

LEMMA PortStep == ASSUME DllIInv, NEW p \in Processes, LptPort(p) PROVE DllIInv'
  <1>1. PICK i \in Slots, r \in {0, 10} :
          /\ RedirInfo[i].where = 1 /\ (r >= 8 => RedirInfo[i].port.ecp # 0)
          /\ Access(p, (IF r >= 8 THEN RedirInfo[i].port.ecp ELSE RedirInfo[i].port.spp) + (r % 8), Meaning(p, i, r))
    BY DEF LptPort
  <1>2. CASE r = 0
    <2>1. r % 8 = 0 /\ ~(r >= 8)
      BY <1>2
    <2>2. Access(p, RedirInfo[i].port.spp + 0, Meaning(p, i, 0))
      BY <1>1, <1>2, <2>1
    <2>3. Ends(p, RedirInfo[i].port.spp + 0) = Meaning(p, i, 0)
      BY <1>1, TrueSppEnds DEF DllIInv
    <2>. QED BY <2>2, <2>3, AsMeant
  <1>3. CASE r = 10
    <2>1. r % 8 = 2 /\ r >= 8
      BY <1>3
    <2>2. Access(p, RedirInfo[i].port.ecp + 2, Meaning(p, i, 10))
      BY <1>1, <1>3, <2>1
    <2>3. Ends(p, RedirInfo[i].port.ecp + 2) = Meaning(p, i, 10)
      BY <1>1, <2>1, TrueEcpEnds DEF DllIInv
    <2>. QED BY <2>2, <2>3, AsMeant
  <1>. QED BY <1>2, <1>3

\* The addresses of a DOS program: those that it finds in the BIOS data area ...
LEMMA Aliases ==
  ASSUME NEW b \in {256, 258, 260, 264, 266}
  PROVE  /\ Hooked(b)
         /\ (b - 256) \div 4 \in Slots /\ b % 4 \in 0 .. 3
         /\ VddAlias(b) = SppDef((b - 256) \div 4) + (b % 4)
  <1>1. Hooked(b)
    BY DEF Hooked
  <1>2. b \in 256 .. 271 /\ VddAlias(b) = (b % 4) + SppDef((b \div 4) % 4)
    BY DEF VddAlias
  <1>3. (b - 256) \div 4 = (b \div 4) % 4 /\ (b \div 4) % 4 \in {0, 1, 2} /\ b % 4 \in {0, 1, 2, 3}
    BY <1>2
  <1>4. SppDef((b \div 4) % 4) \in Int
    BY DEF SppDef
  <1>. QED BY <1>1, <1>2, <1>3, <1>4 DEF Slots

\* ... and the standard ones.
LEMMA DosAddresses ==
  ASSUME NEW i \in Slots, NEW r \in {0, 10}, i = 2 => r < 4
  PROVE  /\ Hooked(AddressOf(i, r)) <=> RedirInfo[i].where # 0
         /\ VddAlias(AddressOf(i, r)) = AddressOf(i, r)
  <1>1. i \in {0, 1, 2} /\ Slots = {0, 1, 2} /\ EcpOffset = 1024
    BY DEF Slots, EcpOffset
  <1>2. SppDef(0) = 888 /\ SppDef(1) = 632 /\ SppDef(2) = 956
    BY DEF SppDef
  <1>3. 0 % 8 = 0 /\ 0 \div 8 = 0 /\ 10 % 8 = 2 /\ 10 \div 8 = 1
    OBVIOUS
  <1>. DEFINE a == AddressOf(i, r)
  <1>4. a = IF r = 0 THEN SppDef(i) ELSE SppDef(i) + 1026
    BY <1>1, <1>2, <1>3 DEF AddressOf
  <1>5. a \in Int /\ a > 271
    BY <1>1, <1>2, <1>4
  <1>6. i = 2 => r = 0
    BY <1>1
  <1>7. ASSUME NEW j \in Slots
        PROVE  (\/ a \in SppDef(j) - 1 .. SppDef(j) + (IF j < 2 THEN 7 ELSE 3)
                \/ j < 2 /\ a \in SppDef(j) + EcpOffset .. SppDef(j) + EcpOffset + 7)
               <=> j = i
    <2>. HIDE DEF a
    <2>1. CASE i = 0
      BY <1>1, <1>2, <1>4, <1>6, <2>1
    <2>2. CASE i = 1
      BY <1>1, <1>2, <1>4, <1>6, <2>2
    <2>3. CASE i = 2
      BY <1>1, <1>2, <1>4, <1>6, <2>3
    <2>. QED BY <1>1, <2>1, <2>2, <2>3
  <1>. HIDE DEF a
  <1>8. ~(a \in 256 .. 266) /\ ~(a \in 256 .. 271)
    BY <1>5
  <1>9. Hooked(a) <=> RedirInfo[i].where # 0
    BY <1>7, <1>8 DEF Hooked
  <1>10. VddAlias(a) = a
    BY <1>8 DEF VddAlias
  <1>. QED BY <1>9, <1>10 DEF a

LEMMA VddStep == ASSUME DllIInv, NEW p \in Processes, VddHandler(p) PROVE DllIInv'
  <1>1. ASSUME NEW b \in {256, 258, 260, 264, 266},
               DosAccess(p, b, Meaning(p, (b - 256) \div 4, b % 4))
        PROVE  DllIInv'
    <2>. DEFINE i == (b - 256) \div 4
                r == b % 4
    <2>1. Hooked(b) /\ i \in Slots /\ r \in 0 .. 3 /\ VddAlias(b) = SppDef(i) + r
      BY Aliases
    <2>2. Access(p, SppDef(i) + r, Meaning(p, i, r))
      BY <1>1, <2>1 DEF DosAccess
    <2>3. r \in 0 .. 7 /\ r < 4
      BY <2>1
    <2>. HIDE DEF i, r
    <2>4. Ends(p, SppDef(i) + r) = Meaning(p, i, r)
      BY <2>1, <2>3, SppEnds DEF DllIInv
    <2>. QED BY <2>2, <2>4, AsMeant
  <1>2. ASSUME NEW i \in Slots, NEW r \in {0, 10}, i = 2 => r < 4,
               DosAccess(p, AddressOf(i, r), IF RedirInfo[i].where = 0 THEN <<"ntvdm">> ELSE Meaning(p, i, r))
        PROVE  DllIInv'
    <2>1. (Hooked(AddressOf(i, r)) <=> RedirInfo[i].where # 0) /\ VddAlias(AddressOf(i, r)) = AddressOf(i, r)
      BY <1>2, DosAddresses
    <2>2. CASE RedirInfo[i].where = 0
      <3>1. /\ access' = <<<<"ntvdm">>, <<"ntvdm">>>>
            /\ UNCHANGED <<RedirInfo, service, foreign, pc, hdriver, started, loads>>
        BY <1>2, <2>1, <2>2 DEF DosAccess
      <3>. QED BY <3>1 DEF DllIInv, Table, TableOf, DllTypes, Starter, GoesToItsPort
    <2>3. CASE RedirInfo[i].where # 0
      <3>1. Access(p, AddressOf(i, r), Meaning(p, i, r))
        BY <1>2, <2>1, <2>3 DEF DosAccess
      <3>2. Ends(p, AddressOf(i, r)) = Meaning(p, i, r)
        BY <1>2, AddressEnds DEF DllIInv
      <3>. QED BY <3>1, <3>2, AsMeant
    <2>. QED BY <2>2, <2>3
  <1>. QED BY <1>1, <1>2 DEF VddHandler, AddressOf

\* Steps that load or unload the DLL.
LEMMA ServiceStep ==
  ASSUME DllTypes, Starter, NEW p \in Processes,
         Load(p) \/ StartService(p) \/ Inst(p) \/ Open(p) \/ Unload(p) \/ StopService(p)
  PROVE  DllTypes' /\ Starter'
  <1>1. CASE Load(p)
    BY <1>1 DEF Load, DllTypes, Starter, Stages
  <1>2. CASE StartService(p)
    BY <1>2 DEF StartService, StartHere, DllTypes, Starter, Stages
  <1>3. CASE Inst(p)
    BY <1>3 DEF Inst, DllTypes, Starter, Stages
  <1>4. CASE Open(p)
    BY <1>4 DEF Open, DllTypes, Starter, Stages
  <1>5. CASE Unload(p)
    BY <1>5 DEF Unload, DllTypes, Starter, Stages
  <1>6. CASE StopService(p)
    BY <1>6 DEF StopService, DllTypes, Starter, Stages
  <1>. QED BY <1>1, <1>2, <1>3, <1>4, <1>5, <1>6

LEMMA DllKeeps == DllIInv /\ [Next]_vars => DllIInv'
  <1>. SUFFICES ASSUME DllIInv, [Next]_vars PROVE DllIInv'
    OBVIOUS
  <1>1. CASE UNCHANGED vars
    BY <1>1 DEF vars, DllIInv, Table, TableOf, DllTypes, Starter, GoesToItsPort
  <1>2. ASSUME NEW p \in Processes,
               Load(p) \/ StartService(p) \/ Inst(p) \/ Open(p) \/ Unload(p) \/ StopService(p)
        PROVE  DllIInv'
    <2>1. DllTypes' /\ Starter'
      BY <1>2, ServiceStep DEF DllIInv
    <2>2. RedirInfo' = RedirInfo /\ access' = <<>>
      BY <1>2 DEF Load, StartService, Inst, Open, Unload, StopService
    <2>. QED BY <2>1, <2>2 DEF DllIInv, Table, TableOf, GoesToItsPort
  <1>3. CASE Next
    BY <1>3, <1>2, InpStep, VddStep, PortStep DEF Next
  <1>. QED BY <1>1, <1>3

(* Every access of a program that has loaded inpout32.dll gets where it means, and the port *)
(* driver is left as it was found, for any processes and any ports that are apart           *)
(* (inpout32.cpp, Redir.cpp).                                                               *)
THEOREM PortsStayServed == ASSUME PortsApart PROVE Spec => []PortsServed
  <1>1. Init => DllIInv
    BY DllStart
  <1>. QED BY <1>1, DllKeeps, ServedAsFound, PTL DEF Spec
-----------------------------------------------------------------------------
(***************************************************************************)
(* The driver giveio.                                                      *)
(***************************************************************************)

\* No thread changes processors in EachProcessor, there is memory for the DPCs, and no
\* other driver has the names (README, Findings).
Undisturbed == ~NoMemory /\ ~Preempt /\ Taken = {}

Jobs == [at : {"idle", "loop", "here", "done"}, on : BOOLEAN, next : Nat,
         left : SUBSET Cpus, cpu : Cpus]

GiveTypes ==
  /\ debugger \in BOOLEAN /\ device \in BOOLEAN
  /\ driver \in {"out", "entry", "loaded", "unload"}
  /\ long \subseteq Cpus /\ gdt \subseteq Cpus
  /\ job \in [G!Threads -> Jobs]
  /\ dpcs \subseteq G!Threads \X Cpus

\* Who is in EachProcessor: the driver's own thread or programs, and to close the ports
\* only the driver's.
Turns ==
  /\ driver \in {"out", "loaded"} => job[G!Driver].at = "idle"
  /\ driver # "loaded" => \A p \in Admins : job[p].at = "idle"
  /\ \A t \in G!Threads : job[t].at # "idle" => job[t].on = (driver # "unload")

\* The processors a thread waits for: it has not come to them, has called them, or is
\* one of them.
Called ==
  /\ \A t \in G!Threads, c \in Cpus : <<t, c>> \in dpcs =>
       /\ job[t].at \in {"loop", "here"} /\ c \in job[t].left
       /\ c < job[t].next /\ c # job[t].cpu
  /\ \A t \in G!Threads, c \in Cpus :
       job[t].at \in {"loop", "here"} /\ c >= job[t].next => c \in job[t].left
  /\ \A t \in G!Threads, c \in Cpus : job[t].at \in {"loop", "here"} /\ c \in job[t].left =>
       c >= job[t].next \/ <<t, c>> \in dpcs \/ (job[t].at = "here" /\ c = job[t].cpu)
  /\ \A t \in G!Threads : job[t].at = "here" => job[t].cpu < job[t].next
  /\ \A t \in G!Threads : job[t].at = "done" => job[t].left = {}

\* All others have what is asked for.
Reached ==
  \A t \in G!Threads, c \in Cpus : job[t].at # "idle" /\ c \notin job[t].left =>
    IF job[t].on THEN c \in long ELSE c \notin long /\ c \notin gdt

Opened ==
  /\ opened # {} => driver = "loaded" /\ long = Cpus
  /\ driver = "out" => long = {} /\ gdt = {} /\ links = {} /\ ~device
  /\ driver = "unload" => links = {}
  /\ ~debugger => gdt = {}

GiveIInv == GiveTypes /\ Turns /\ Called /\ Reached /\ Opened
-----------------------------------------------------------------------------
LEMMA GiveSettings ==
  /\ Cpus \subseteq Nat /\ Cpus # {} /\ G!Driver \notin Admins
  /\ G!Threads = Admins \cup {G!Driver}
  BY InpoutAssumption DEF G!GiveIoAssumption, G!Threads

LEMMA GiveInit == ASSUME G!Init PROVE GiveIInv
  <1>1. PICK c \in Cpus : job = [t \in G!Threads |-> [at |-> "idle", on |-> FALSE, next |-> 0,
                                                      left |-> {}, cpu |-> c]]
    BY GiveSettings DEF G!Init, G!Idle
  <1>2. job \in [G!Threads -> Jobs] /\ \A t \in G!Threads : job[t].at = "idle"
    BY <1>1 DEF Jobs
  <1>. QED BY <1>2, GiveSettings DEF G!Init, GiveIInv, GiveTypes, Turns, Called, Reached, Opened

\* A thread that begins.
LEMMA Begins ==
  ASSUME Undisturbed, GiveIInv, NEW t \in G!Threads, NEW on \in BOOLEAN, G!Begin(t, on)
  PROVE  /\ job' \in [G!Threads -> Jobs]
         /\ \A s \in G!Threads : s # t => job'[s] = job[s]
         /\ job'[t].at = "loop" /\ job'[t].on = on /\ job'[t].next = 0 /\ job'[t].left = Cpus
  <1>1. PICK c \in Cpus : job' = [job EXCEPT ![t] = [at |-> "loop", on |-> on, next |-> 0,
                                                     left |-> Cpus, cpu |-> c]]
    BY DEF Undisturbed, G!Begin
  <1>2. job \in [G!Threads -> Jobs]
    BY DEF GiveIInv, GiveTypes
  <1>. QED BY <1>1, <1>2 DEF Jobs

\* A call of EachProcessor that begins while its thread has none, and nobody closes.
LEMMA BeginKeeps ==
  ASSUME Undisturbed, GiveIInv, NEW t \in G!Threads, NEW on \in BOOLEAN, G!Begin(t, on),
         job[t].at = "idle", UNCHANGED <<long, gdt, dpcs>>
  PROVE  Called' /\ Reached'
  <1>1. /\ job' \in [G!Threads -> Jobs]
        /\ \A s \in G!Threads : s # t => job'[s] = job[s]
        /\ job'[t].at = "loop" /\ job'[t].on = on /\ job'[t].next = 0 /\ job'[t].left = Cpus
    BY Begins
  <1>2. \A c \in Cpus : <<t, c>> \notin dpcs
    BY DEF GiveIInv, Called
  <1>3. Called'
    BY <1>1, <1>2, GiveSettings DEF GiveIInv, Called
  <1>4. Reached'
    BY <1>1 DEF GiveIInv, Reached
  <1>. QED BY <1>3, <1>4

LEMMA DriverEntry ==
  ASSUME Undisturbed, GiveIInv, G!DriverEntry PROVE GiveIInv'
  <1>1. /\ driver = "out" /\ driver' = "entry" /\ device' = TRUE /\ G!Begin(G!Driver, TRUE)
        /\ UNCHANGED <<debugger, links, long, gdt, dpcs, opened>>
    BY DEF G!DriverEntry
  <1>2. G!Driver \in G!Threads /\ job[G!Driver].at = "idle"
    BY <1>1, GiveSettings DEF GiveIInv, Turns
  <1>3. Called' /\ Reached'
    BY <1>1, <1>2, BeginKeeps
  <1>4. /\ job' \in [G!Threads -> Jobs]
        /\ \A s \in G!Threads : s # G!Driver => job'[s] = job[s]
        /\ job'[G!Driver].at = "loop" /\ job'[G!Driver].on = TRUE
    BY <1>1, <1>2, Begins
  <1>5. GiveTypes' /\ Opened'
    BY <1>1, <1>4 DEF GiveIInv, GiveTypes, Opened
  <1>6. Turns'
    BY <1>1, <1>2, <1>4, GiveSettings DEF GiveIInv, Turns
  <1>. QED BY <1>3, <1>5, <1>6 DEF GiveIInv

\* A thread that leaves EachProcessor.
Leaves(t) == job' = [job EXCEPT ![t].at = "idle"]

LEMMA LeavesIt ==
  ASSUME GiveIInv, NEW t \in G!Threads, Leaves(t)
  PROVE  /\ job' \in [G!Threads -> Jobs]
         /\ \A s \in G!Threads : s # t => job'[s] = job[s]
         /\ job'[t].at = "idle"
  <1>1. job \in [G!Threads -> Jobs] /\ job' = [job EXCEPT ![t] = [job[t] EXCEPT !.at = "idle"]]
    BY DEF GiveIInv, GiveTypes, Leaves
  <1>2. PICK j \in Jobs : j = [job[t] EXCEPT !.at = "idle"] /\ j.at = "idle"
    BY <1>1 DEF Jobs
  <1>3. job' = [job EXCEPT ![t] = j]
    BY <1>1, <1>2
  <1>. QED BY <1>1, <1>2, <1>3

LEMMA EndKeeps ==
  ASSUME GiveIInv, NEW t \in G!Threads, Leaves(t),
         job[t].at = "done", UNCHANGED <<long, gdt, dpcs>>
  PROVE  Called' /\ Reached'
  <1>1. /\ job' \in [G!Threads -> Jobs]
        /\ \A s \in G!Threads : s # t => job'[s] = job[s]
        /\ job'[t].at = "idle"
    BY LeavesIt
  <1>2. \A c \in Cpus : <<t, c>> \notin dpcs
    BY DEF GiveIInv, Called
  <1>3. Called'
    BY <1>1, <1>2 DEF GiveIInv, Called
  <1>4. Reached'
    BY <1>1 DEF GiveIInv, Reached
  <1>. QED BY <1>3, <1>4

\* Whoever is done has reached all processors.
LEMMA DoneMeans ==
  ASSUME GiveIInv, NEW t \in G!Threads, job[t].at = "done"
  PROVE  IF job[t].on THEN long = Cpus ELSE long = {} /\ gdt = {}
  <1>1. \A c \in Cpus : IF job[t].on THEN c \in long ELSE c \notin long /\ c \notin gdt
    BY DEF GiveIInv, Called, Reached
  <1>2. long \subseteq Cpus /\ gdt \subseteq Cpus
    BY DEF GiveIInv, GiveTypes
  <1>. QED BY <1>1, <1>2

LEMMA EntryEnds ==
  ASSUME Undisturbed, GiveIInv, G!EntryEnds PROVE GiveIInv'
  <1>1. /\ driver = "entry" /\ job[G!Driver].at = "done" /\ driver' = "loaded"
        /\ Leaves(G!Driver)
        /\ UNCHANGED <<debugger, device, long, gdt, dpcs, opened>>
    BY DEF G!EntryEnds, Undisturbed, Leaves
  <1>2. G!Driver \in G!Threads
    BY GiveSettings
  <1>3. Called' /\ Reached'
    BY <1>1, <1>2, EndKeeps
  <1>4. /\ job' \in [G!Threads -> Jobs]
        /\ \A s \in G!Threads : s # G!Driver => job'[s] = job[s]
        /\ job'[G!Driver].at = "idle"
    BY <1>1, <1>2, LeavesIt
  <1>5. GiveTypes' /\ Opened'
    BY <1>1, <1>4 DEF GiveIInv, GiveTypes, Opened
  <1>6. Turns'
    BY <1>1, <1>2, <1>4, GiveSettings DEF GiveIInv, Turns
  <1>. QED BY <1>3, <1>5, <1>6 DEF GiveIInv

LEMMA GiveioUnload ==
  ASSUME Undisturbed, GiveIInv, G!GiveioUnload PROVE GiveIInv'
  <1>1. /\ driver = "loaded" /\ driver' = "unload" /\ G!Begin(G!Driver, FALSE)
        /\ \A p \in Admins : job[p].at = "idle"
        /\ links' = {} /\ opened' = {}
        /\ UNCHANGED <<debugger, device, long, gdt, dpcs>>
    BY DEF G!GiveioUnload
  <1>2. G!Driver \in G!Threads /\ job[G!Driver].at = "idle"
    BY <1>1, GiveSettings DEF GiveIInv, Turns
  <1>3. Called' /\ Reached'
    BY <1>1, <1>2, BeginKeeps
  <1>4. /\ job' \in [G!Threads -> Jobs]
        /\ \A s \in G!Threads : s # G!Driver => job'[s] = job[s]
        /\ job'[G!Driver].at = "loop" /\ job'[G!Driver].on = FALSE
    BY <1>1, <1>2, Begins
  <1>5. GiveTypes' /\ Opened'
    BY <1>1, <1>4 DEF GiveIInv, GiveTypes, Opened
  <1>6. Turns'
    BY <1>1, <1>2, <1>4, GiveSettings DEF GiveIInv, Turns
  <1>. QED BY <1>3, <1>5, <1>6 DEF GiveIInv

LEMMA UnloadEnds ==
  ASSUME GiveIInv, G!UnloadEnds PROVE GiveIInv'
  <1>1. /\ driver = "unload" /\ job[G!Driver].at = "done" /\ driver' = "out" /\ device' = FALSE
        /\ Leaves(G!Driver)
        /\ UNCHANGED <<debugger, links, long, gdt, dpcs, opened>>
    BY DEF G!UnloadEnds, Leaves
  <1>2. G!Driver \in G!Threads /\ ~job[G!Driver].on
    BY <1>1, GiveSettings DEF GiveIInv, Turns
  <1>3. Called' /\ Reached'
    BY <1>1, <1>2, EndKeeps
  <1>4. /\ job' \in [G!Threads -> Jobs]
        /\ \A s \in G!Threads : s # G!Driver => job'[s] = job[s]
        /\ job'[G!Driver].at = "idle"
    BY <1>1, <1>2, LeavesIt
  <1>5. long = {} /\ gdt = {}
    BY <1>1, <1>2, DoneMeans
  <1>6. GiveTypes' /\ Opened'
    BY <1>1, <1>4, <1>5 DEF GiveIInv, GiveTypes, Opened
  <1>7. Turns'
    BY <1>1, <1>2, <1>4, GiveSettings DEF GiveIInv, Turns
  <1>. QED BY <1>3, <1>6, <1>7 DEF GiveIInv
LEMMA OnCreate ==
  ASSUME Undisturbed, GiveIInv, NEW p \in Admins, G!OnCreate(p) PROVE GiveIInv'
  <1>1. /\ driver = "loaded" /\ job[p].at = "idle" /\ G!Begin(p, TRUE)
        /\ UNCHANGED <<debugger, driver, device, links, long, gdt, dpcs, opened>>
    BY DEF G!OnCreate
  <1>2. p \in G!Threads /\ p # G!Driver /\ G!Driver \in G!Threads
    BY GiveSettings
  <1>3. Called' /\ Reached'
    BY <1>1, <1>2, BeginKeeps
  <1>4. /\ job' \in [G!Threads -> Jobs]
        /\ \A s \in G!Threads : s # p => job'[s] = job[s]
        /\ job'[p].at = "loop" /\ job'[p].on = TRUE
    BY <1>1, <1>2, Begins
  <1>5. GiveTypes' /\ Opened'
    BY <1>1, <1>4 DEF GiveIInv, GiveTypes, Opened
  <1>6. Turns'
    BY <1>1, <1>2, <1>4, GiveSettings DEF GiveIInv, Turns
  <1>. QED BY <1>3, <1>5, <1>6 DEF GiveIInv

LEMMA CreateEnds ==
  ASSUME GiveIInv, NEW p \in Admins, G!CreateEnds(p) PROVE GiveIInv'
  <1>1. /\ job[p].at = "done" /\ Leaves(p) /\ opened' = opened \cup {p}
        /\ UNCHANGED <<debugger, driver, device, links, long, gdt, dpcs>>
    BY DEF G!CreateEnds, Leaves
  <1>2. p \in G!Threads /\ p # G!Driver /\ G!Driver \in G!Threads
    BY GiveSettings
  <1>3. Called' /\ Reached'
    BY <1>1, <1>2, EndKeeps
  <1>4. /\ job' \in [G!Threads -> Jobs]
        /\ \A s \in G!Threads : s # p => job'[s] = job[s]
        /\ job'[p].at = "idle"
    BY <1>1, <1>2, LeavesIt
  <1>5. driver = "loaded" /\ job[p].on
    BY <1>1, <1>2 DEF GiveIInv, Turns
  <1>6. long = Cpus
    BY <1>1, <1>2, <1>5, DoneMeans
  <1>7. GiveTypes' /\ Opened'
    BY <1>1, <1>4, <1>5, <1>6 DEF GiveIInv, GiveTypes, Opened
  <1>8. Turns'
    BY <1>1, <1>2, <1>4, GiveSettings DEF GiveIInv, Turns
  <1>. QED BY <1>3, <1>7, <1>8 DEF GiveIInv

\* Nobody is in EachProcessor when the registers are loaded anew.
LEMMA Sleep ==
  ASSUME GiveIInv, G!Sleep PROVE GiveIInv'
  <1>1. /\ driver = "loaded" /\ \A t \in G!Threads : job[t].at = "idle"
        /\ long' = gdt /\ opened' = {}
        /\ UNCHANGED <<debugger, driver, device, links, gdt, job, dpcs>>
    BY DEF G!Sleep
  <1>2. GiveTypes' /\ Turns' /\ Opened'
    BY <1>1 DEF GiveIInv, GiveTypes, Turns, Opened
  <1>3. Called' /\ Reached'
    BY <1>1 DEF GiveIInv, Called, Reached
  <1>. QED BY <1>2, <1>3 DEF GiveIInv
-----------------------------------------------------------------------------
(* EachProcessor *)

\* A thread goes on: j is where it comes to.
Goes(t, j) == job' = [job EXCEPT ![t] = j]

LEMMA GoesOn ==
  ASSUME GiveIInv, NEW t \in G!Threads, NEW j \in Jobs, Goes(t, j)
  PROVE  /\ job' \in [G!Threads -> Jobs] /\ job'[t] = j
         /\ \A s \in G!Threads : s # t => job'[s] = job[s]
  BY DEF GiveIInv, GiveTypes, Goes

LEMMA Visit ==
  ASSUME GiveIInv, NEW t \in G!Threads, G!Visit(t) PROVE GiveIInv'
  <1>1. job[t] \in Jobs /\ job[t].at = "loop"
    BY DEF GiveIInv, GiveTypes, G!Visit
  <1>2. PICK i \in Cpus :
          /\ i >= job[t].next /\ \A c \in Cpus : c >= job[t].next => i <= c
          /\ IF i = job[t].cpu
             THEN job' = [job EXCEPT ![t].at = "here", ![t].next = i + 1] /\ UNCHANGED dpcs
             ELSE /\ dpcs' = dpcs \cup {<<t, i>>}
                  /\ job' = [job EXCEPT ![t].next = i + 1]
    BY DEF G!Visit
  <1>3. UNCHANGED <<debugger, driver, device, links, long, gdt, opened>>
    BY DEF G!Visit
  <1>4. i \in Nat /\ job \in [G!Threads -> Jobs]
    BY GiveSettings DEF GiveIInv, GiveTypes
  <1>5. PICK j \in Jobs :
          /\ job' = [job EXCEPT ![t] = j]
          /\ j.at = (IF i = job[t].cpu THEN "here" ELSE "loop") /\ j.next = i + 1
          /\ j.on = job[t].on /\ j.left = job[t].left /\ j.cpu = job[t].cpu
    <2>1. CASE i = job[t].cpu
      <3>. DEFINE j == [at |-> "here", on |-> job[t].on, next |-> i + 1,
                        left |-> job[t].left, cpu |-> job[t].cpu]
      <3>1. j \in Jobs
        BY <1>1, <1>4 DEF Jobs
      <3>2. j = [job[t] EXCEPT !.at = "here", !.next = i + 1]
        <4>. DEFINE x == [at |-> "here", on |-> job[t].on, next |-> job[t].next,
                          left |-> job[t].left, cpu |-> job[t].cpu]
        <4>1. [job[t] EXCEPT !.at = "here"] = x
          BY <1>1 DEF Jobs
        <4>2. [x EXCEPT !.next = i + 1] = j
          OBVIOUS
        <4>. HIDE DEF x, j
        <4>. QED BY <4>1, <4>2
      <3>3. job' = [job EXCEPT ![t] = j]
        BY <1>2, <1>4, <2>1, <3>2
      <3>. QED BY <2>1, <3>1, <3>3
    <2>2. CASE i # job[t].cpu
      <3>. DEFINE j == [at |-> "loop", on |-> job[t].on, next |-> i + 1,
                        left |-> job[t].left, cpu |-> job[t].cpu]
      <3>1. j \in Jobs /\ j = [job[t] EXCEPT !.next = i + 1]
        BY <1>1, <1>4 DEF Jobs
      <3>2. job' = [job EXCEPT ![t] = j]
        BY <1>2, <1>4, <2>2, <3>1
      <3>. QED BY <2>2, <3>1, <3>2
    <2>. QED BY <2>1, <2>2
  <1>6. /\ job' \in [G!Threads -> Jobs] /\ job'[t] = j
        /\ \A s \in G!Threads : s # t => job'[s] = job[s]
    BY <1>4, <1>5
  <1>7. dpcs' = IF i = job[t].cpu THEN dpcs ELSE dpcs \cup {<<t, i>>}
    BY <1>2
  <1>8. i \in job[t].left
    BY <1>1, <1>2 DEF GiveIInv, Called
  <1>9. \A c \in Cpus : c >= i + 1 => c >= job[t].next
    BY <1>1, <1>2, <1>4, GiveSettings DEF Jobs
  <1>10. \A c \in Cpus : c >= job[t].next => c = i \/ c >= i + 1
    BY <1>1, <1>2, <1>4, GiveSettings DEF Jobs
  <1>11. \A c \in Cpus : c < job[t].next => c < i + 1
    BY <1>1, <1>2, <1>4, GiveSettings DEF Jobs
  <1>12. Called'
    <2>1. ASSUME NEW s \in G!Threads, NEW c \in Cpus, <<s, c>> \in dpcs'
          PROVE  /\ job'[s].at \in {"loop", "here"} /\ c \in job'[s].left
                 /\ c < job'[s].next /\ c # job'[s].cpu
      <3>1. CASE <<s, c>> \in dpcs
        <4>1. /\ job[s].at \in {"loop", "here"} /\ c \in job[s].left
              /\ c < job[s].next /\ c # job[s].cpu
          BY <3>1 DEF GiveIInv, Called
        <4>. QED BY <4>1, <1>5, <1>6, <1>11
      <3>2. CASE <<s, c>> \notin dpcs
        <4>1. s = t /\ c = i /\ i # job[t].cpu
          BY <2>1, <1>7, <3>2
        <4>2. i < i + 1
          BY <1>4
        <4>. QED BY <4>1, <4>2, <1>5, <1>6, <1>8
      <3>. QED BY <3>1, <3>2
    <2>2. ASSUME NEW s \in G!Threads, NEW c \in Cpus,
                 job'[s].at \in {"loop", "here"}, c >= job'[s].next
          PROVE  c \in job'[s].left
      BY <2>2, <1>1, <1>5, <1>6, <1>9 DEF GiveIInv, Called
    <2>3. ASSUME NEW s \in G!Threads, NEW c \in Cpus,
                 job'[s].at \in {"loop", "here"}, c \in job'[s].left
          PROVE  \/ c >= job'[s].next \/ <<s, c>> \in dpcs'
                 \/ job'[s].at = "here" /\ c = job'[s].cpu
      <3>1. CASE s # t
        BY <2>3, <3>1, <1>6, <1>7 DEF GiveIInv, Called
      <3>2. CASE s = t
        <4>1. c >= job[t].next \/ <<t, c>> \in dpcs
          BY <1>1, <1>5, <1>6, <2>3, <3>2 DEF GiveIInv, Called
        <4>2. c = i \/ c >= i + 1 \/ <<t, c>> \in dpcs
          BY <4>1, <1>10
        <4>. QED BY <4>2, <3>2, <1>5, <1>6, <1>7
      <3>. QED BY <3>1, <3>2
    <2>4. ASSUME NEW s \in G!Threads, job'[s].at = "here" PROVE job'[s].cpu < job'[s].next
      <3>1. CASE s # t
        BY <2>4, <3>1, <1>6 DEF GiveIInv, Called
      <3>2. CASE s = t
        <4>1. i = job[t].cpu
          BY <2>4, <3>2, <1>5, <1>6
        <4>2. i < i + 1
          BY <1>4
        <4>. QED BY <4>1, <4>2, <3>2, <1>5, <1>6
      <3>. QED BY <3>1, <3>2
    <2>5. ASSUME NEW s \in G!Threads, job'[s].at = "done" PROVE job'[s].left = {}
      BY <2>5, <1>5, <1>6 DEF GiveIInv, Called
    <2>. QED BY <2>1, <2>2, <2>3, <2>4, <2>5 DEF Called
  <1>13. Reached'
    BY <1>1, <1>3, <1>5, <1>6 DEF GiveIInv, Reached
  <1>14. Turns'
    BY <1>1, <1>3, <1>5, <1>6, GiveSettings DEF GiveIInv, Turns
  <1>15. GiveTypes' /\ Opened'
    BY <1>3, <1>6, <1>7 DEF GiveIInv, GiveTypes, Opened
  <1>. QED BY <1>12, <1>13, <1>14, <1>15 DEF GiveIInv
\* A processor gets or loses access, and its thread does not wait for it any more.
LEMMA SetsTSS ==
  ASSUME GiveIInv, NEW t \in G!Threads, NEW c \in Cpus, NEW j \in Jobs,
         job[t].at \in {"loop", "here"}, G!SetTSS(c, job[t].on), Goes(t, j),
         j.at # "idle", j.on = job[t].on, j.left = job[t].left \ {c},
         UNCHANGED <<debugger, driver, device, links, opened>>
  PROVE  /\ long' \subseteq Cpus /\ gdt' \subseteq Cpus
         /\ Reached' /\ Turns' /\ Opened'
  <1>1. /\ job' \in [G!Threads -> Jobs] /\ job'[t] = j
        /\ \A s \in G!Threads : s # t => job'[s] = job[s]
    BY GoesOn
  <1>2. /\ long' = IF job[t].on THEN long \cup {c} ELSE long \ {c}
        /\ gdt' = IF job[t].on /\ debugger THEN gdt \cup {c} ELSE gdt \ {c}
    BY DEF G!SetTSS
  <1>3. long' \subseteq Cpus /\ gdt' \subseteq Cpus
    BY <1>2 DEF GiveIInv, GiveTypes
  <1>4. job[t].on = (driver # "unload") /\ driver # "out"
    BY GiveSettings DEF GiveIInv, Turns
  <1>5. \A s \in G!Threads : job[s].at # "idle" => job[s].on = job[t].on
    BY <1>4 DEF GiveIInv, Turns
  <1>6. Reached'
    <2>1. ASSUME NEW s \in G!Threads, NEW i \in Cpus, job'[s].at # "idle", i \notin job'[s].left
          PROVE  IF job'[s].on THEN i \in long' ELSE i \notin long' /\ i \notin gdt'
      <3>1. job'[s].on = job[t].on /\ job[s].on = job[t].on /\ job[s].at # "idle"
        BY <2>1, <1>1, <1>5
      <3>2. i = c \/ i \notin job[s].left
        BY <2>1, <1>1
      <3>3. i = c \/ IF job[t].on THEN i \in long ELSE i \notin long /\ i \notin gdt
        BY <3>1, <3>2 DEF GiveIInv, Reached
      <3>. QED BY <3>1, <3>3, <1>2
    <2>. QED BY <2>1 DEF Reached
  <1>7. Turns'
    BY <1>1, <1>4, GiveSettings DEF GiveIInv, Turns
  <1>8. Opened'
    <2>1. opened # {} => long' = Cpus
      BY <1>2, <1>3, <1>4 DEF GiveIInv, Opened
    <2>2. ~debugger => gdt' = {}
      BY <1>2 DEF GiveIInv, Opened
    <2>. QED BY <2>1, <2>2, <1>4 DEF GiveIInv, Opened
  <1>. QED BY <1>3, <1>6, <1>7, <1>8

LEMMA Here ==
  ASSUME Undisturbed, GiveIInv, NEW t \in G!Threads, G!Here(t) PROVE GiveIInv'
  <1>. DEFINE c == job[t].cpu
              j == [at |-> "loop", on |-> job[t].on, next |-> job[t].next,
                    left |-> job[t].left \ {c}, cpu |-> c]
  <1>1. job[t] \in Jobs /\ job \in [G!Threads -> Jobs] /\ job[t].at = "here" /\ c \in Cpus
    BY DEF GiveIInv, GiveTypes, G!Here, Jobs
  <1>2. /\ G!SetTSS(c, job[t].on)
        /\ job' = [job EXCEPT ![t].at = "loop", ![t].left = @ \ {c}, ![t].cpu = c]
        /\ UNCHANGED <<debugger, driver, device, links, dpcs, opened>>
    BY DEF G!Here, Undisturbed
  <1>3. j \in Jobs
    BY <1>1 DEF Jobs
  <1>4. j = [job[t] EXCEPT !.at = "loop", !.left = @ \ {c}, !.cpu = c]
    <2>. DEFINE x == [at |-> "loop", on |-> job[t].on, next |-> job[t].next,
                      left |-> job[t].left, cpu |-> job[t].cpu]
                y == [at |-> "loop", on |-> job[t].on, next |-> job[t].next,
                      left |-> job[t].left \ {c}, cpu |-> job[t].cpu]
    <2>1. [job[t] EXCEPT !.at = "loop"] = x
      BY <1>1 DEF Jobs
    <2>2. [x EXCEPT !.left = job[t].left \ {c}] = y
      OBVIOUS
    <2>3. [y EXCEPT !.cpu = c] = j
      OBVIOUS
    <2>. HIDE DEF x, y, j, c
    <2>. QED BY <2>1, <2>2, <2>3
  <1>5. Goes(t, j)
    BY <1>1, <1>2, <1>4 DEF Goes
  <1>6. /\ long' \subseteq Cpus /\ gdt' \subseteq Cpus
        /\ Reached' /\ Turns' /\ Opened'
    <2>. HIDE DEF j
    <2>1. j.at # "idle" /\ j.on = job[t].on /\ j.left = job[t].left \ {c}
      BY DEF j
    <2>. QED BY <1>1, <1>2, <1>3, <1>5, <2>1, SetsTSS
  <1>7. /\ job' \in [G!Threads -> Jobs] /\ job'[t] = j
        /\ \A s \in G!Threads : s # t => job'[s] = job[s]
    BY <1>3, <1>5, GoesOn
  <1>8. Called'
    <2>1. ASSUME NEW s \in G!Threads, NEW i \in Cpus, <<s, i>> \in dpcs'
          PROVE  /\ job'[s].at \in {"loop", "here"} /\ i \in job'[s].left
                 /\ i < job'[s].next /\ i # job'[s].cpu
      BY <2>1, <1>1, <1>2, <1>7 DEF GiveIInv, Called
    <2>2. \A i \in Cpus : i >= job[t].next => i # c
      <3>1. c < job[t].next
        BY <1>1 DEF GiveIInv, Called
      <3>. QED BY <3>1, <1>1, GiveSettings DEF Jobs
    <2>3. ASSUME NEW s \in G!Threads, NEW i \in Cpus,
                 job'[s].at \in {"loop", "here"}, i >= job'[s].next
          PROVE  i \in job'[s].left
      BY <2>2, <2>3, <1>1, <1>7 DEF GiveIInv, Called
    <2>4. ASSUME NEW s \in G!Threads, NEW i \in Cpus,
                 job'[s].at \in {"loop", "here"}, i \in job'[s].left
          PROVE  \/ i >= job'[s].next \/ <<s, i>> \in dpcs'
                 \/ job'[s].at = "here" /\ i = job'[s].cpu
      BY <2>4, <1>1, <1>2, <1>7 DEF GiveIInv, Called
    <2>5. /\ \A s \in G!Threads : job'[s].at = "here" => job'[s].cpu < job'[s].next
          /\ \A s \in G!Threads : job'[s].at = "done" => job'[s].left = {}
      BY <1>7 DEF GiveIInv, Called
    <2>. QED BY <2>1, <2>3, <2>4, <2>5 DEF Called
  <1>9. GiveTypes'
    BY <1>2, <1>6, <1>7 DEF GiveIInv, GiveTypes
  <1>. QED BY <1>6, <1>8, <1>9 DEF GiveIInv

LEMMA EachProcessorDpc ==
  ASSUME GiveIInv, NEW t \in G!Threads, NEW c \in Cpus, G!EachProcessorDpc(t, c)
  PROVE  GiveIInv'
  <1>. DEFINE j == [at |-> job[t].at, on |-> job[t].on, next |-> job[t].next,
                    left |-> job[t].left \ {c}, cpu |-> job[t].cpu]
  <1>1. /\ <<t, c>> \in dpcs /\ dpcs' = dpcs \ {<<t, c>>} /\ G!SetTSS(c, job[t].on)
        /\ job' = [job EXCEPT ![t].left = @ \ {c}]
        /\ UNCHANGED <<debugger, driver, device, links, opened>>
    BY DEF G!EachProcessorDpc
  <1>2. /\ job[t] \in Jobs /\ job \in [G!Threads -> Jobs]
        /\ job[t].at \in {"loop", "here"} /\ c < job[t].next /\ c # job[t].cpu
    BY <1>1 DEF GiveIInv, GiveTypes, Called
  <1>3. j \in Jobs
    BY <1>2 DEF Jobs
  <1>4. j = [job[t] EXCEPT !.left = @ \ {c}]
    BY <1>2 DEF Jobs
  <1>5. Goes(t, j)
    BY <1>1, <1>2, <1>4 DEF Goes
  <1>6. /\ long' \subseteq Cpus /\ gdt' \subseteq Cpus
        /\ Reached' /\ Turns' /\ Opened'
    <2>. HIDE DEF j
    <2>1. j.at # "idle" /\ j.on = job[t].on /\ j.left = job[t].left \ {c}
      BY <1>2 DEF j
    <2>. QED BY <1>1, <1>2, <1>3, <1>5, <2>1, SetsTSS
  <1>7. /\ job' \in [G!Threads -> Jobs] /\ job'[t] = j
        /\ \A s \in G!Threads : s # t => job'[s] = job[s]
    BY <1>3, <1>5, GoesOn
  <1>8. Called'
    <2>1. ASSUME NEW s \in G!Threads, NEW i \in Cpus, <<s, i>> \in dpcs'
          PROVE  /\ job'[s].at \in {"loop", "here"} /\ i \in job'[s].left
                 /\ i < job'[s].next /\ i # job'[s].cpu
      <3>1. <<s, i>> \in dpcs /\ (s = t => i # c)
        BY <2>1, <1>1
      <3>2. /\ job[s].at \in {"loop", "here"} /\ i \in job[s].left
            /\ i < job[s].next /\ i # job[s].cpu
        BY <3>1 DEF GiveIInv, Called
      <3>. QED BY <3>1, <3>2, <1>7
    <2>2. \A i \in Cpus : i >= job[t].next => i # c
      BY <1>2, GiveSettings DEF Jobs
    <2>3. ASSUME NEW s \in G!Threads, NEW i \in Cpus,
                 job'[s].at \in {"loop", "here"}, i >= job'[s].next
          PROVE  i \in job'[s].left
      BY <2>2, <2>3, <1>7 DEF GiveIInv, Called
    <2>4. ASSUME NEW s \in G!Threads, NEW i \in Cpus,
                 job'[s].at \in {"loop", "here"}, i \in job'[s].left
          PROVE  \/ i >= job'[s].next \/ <<s, i>> \in dpcs'
                 \/ job'[s].at = "here" /\ i = job'[s].cpu
      <3>1. job[s].at = job'[s].at /\ i \in job[s].left /\ job'[s].next = job[s].next
            /\ job'[s].cpu = job[s].cpu /\ (s = t => i # c)
        BY <2>4, <1>7
      <3>2. \/ i >= job[s].next \/ <<s, i>> \in dpcs
            \/ job[s].at = "here" /\ i = job[s].cpu
        BY <2>4, <3>1 DEF GiveIInv, Called
      <3>3. <<s, i>> \in dpcs => <<s, i>> \in dpcs'
        BY <3>1, <1>1
      <3>. QED BY <3>1, <3>2, <3>3
    <2>5. /\ \A s \in G!Threads : job'[s].at = "here" => job'[s].cpu < job'[s].next
          /\ \A s \in G!Threads : job'[s].at = "done" => job'[s].left = {}
      BY <1>2, <1>7 DEF GiveIInv, Called
    <2>. QED BY <2>1, <2>3, <2>4, <2>5 DEF Called
  <1>9. GiveTypes'
    BY <1>1, <1>6, <1>7 DEF GiveIInv, GiveTypes
  <1>. QED BY <1>6, <1>8, <1>9 DEF GiveIInv

LEMMA Done ==
  ASSUME GiveIInv, NEW t \in G!Threads, G!Done(t) PROVE GiveIInv'
  <1>. DEFINE j == [at |-> "done", on |-> job[t].on, next |-> job[t].next,
                    left |-> job[t].left, cpu |-> job[t].cpu]
  <1>1. /\ job[t].at = "loop" /\ job[t].left = {}
        /\ job' = [job EXCEPT ![t].at = "done"]
        /\ UNCHANGED <<debugger, driver, device, links, long, gdt, dpcs, opened>>
    BY DEF G!Done
  <1>2. job[t] \in Jobs /\ job \in [G!Threads -> Jobs]
    BY DEF GiveIInv, GiveTypes
  <1>3. j \in Jobs /\ j = [job[t] EXCEPT !.at = "done"]
    BY <1>2 DEF Jobs
  <1>4. Goes(t, j)
    BY <1>1, <1>2, <1>3 DEF Goes
  <1>5. /\ job' \in [G!Threads -> Jobs] /\ job'[t] = j
        /\ \A s \in G!Threads : s # t => job'[s] = job[s]
    BY <1>3, <1>4, GoesOn
  <1>6. \A c \in Cpus : <<t, c>> \notin dpcs
    BY <1>1 DEF GiveIInv, Called
  <1>7. Called'
    BY <1>1, <1>5, <1>6 DEF GiveIInv, Called
  <1>8. Reached' /\ Turns'
    BY <1>1, <1>5, GiveSettings DEF GiveIInv, Reached, Turns
  <1>9. GiveTypes' /\ Opened'
    BY <1>1, <1>5 DEF GiveIInv, GiveTypes, Opened
  <1>. QED BY <1>7, <1>8, <1>9 DEF GiveIInv
-----------------------------------------------------------------------------
LEMMA GiveStep ==
  ASSUME Undisturbed, GiveIInv, [G!Next]_(G!ioVars) PROVE GiveIInv'
  <1>1. CASE UNCHANGED G!ioVars
    BY <1>1 DEF G!ioVars, GiveIInv, GiveTypes, Turns, Called, Reached, Opened
  <1>2. CASE G!DriverEntry \/ G!EntryEnds \/ G!GiveioUnload \/ G!UnloadEnds \/ G!Sleep
    BY <1>2, DriverEntry, EntryEnds, GiveioUnload, UnloadEnds, Sleep
  <1>3. ASSUME NEW p \in Admins, G!OnCreate(p) \/ G!CreateEnds(p) PROVE GiveIInv'
    BY <1>3, OnCreate, CreateEnds
  <1>4. ASSUME NEW t \in G!Threads, G!Visit(t) \/ G!Here(t) \/ G!Done(t) PROVE GiveIInv'
    BY <1>4, Visit, Here, Done
  <1>5. ASSUME NEW t \in G!Threads, NEW c \in Cpus, G!EachProcessorDpc(t, c) PROVE GiveIInv'
    BY <1>5, EachProcessorDpc
  <1>. QED BY <1>1, <1>2, <1>3, <1>4, <1>5 DEF G!Next

LEMMA GiveKept == ASSUME GiveIInv PROVE AccessAsOpened
  <1>1. ASSUME NEW t \in G!Threads, job[t].at = "loop", NEW c \in job[t].left
        PROVE  c >= job[t].next \/ <<t, c>> \in dpcs
    <2>1. c \in Cpus
      BY DEF GiveIInv, GiveTypes, Jobs
    <2>. QED BY <1>1, <2>1 DEF GiveIInv, Called
  <1>. QED BY <1>1 DEF GiveIInv, Opened, AccessAsOpened, G!AccessAsOpened

\* A program that has opened giveio reaches the ports from every processor, an unloaded
\* driver leaves neither access nor names, nobody waits for a processor that was not
\* called, and the GDT looks untouched (OnCreate, EachProcessor, GiveioUnload).
THEOREM AccessOpened == ASSUME Undisturbed PROVE G!Spec => []AccessAsOpened
  <1>1. G!Init => GiveIInv
    BY GiveInit
  <1>2. GiveIInv /\ [G!Next]_(G!ioVars) => GiveIInv'
    BY GiveStep
  <1>3. GiveIInv => AccessAsOpened
    BY GiveKept
  <1>. QED BY <1>1, <1>2, <1>3, PTL DEF G!Spec
-----------------------------------------------------------------------------
(***************************************************************************)
(* Mapped memory.                                                          *)
(***************************************************************************)

\* One mapping at a time, below 4 GB, and not the 32-bit DLL on NT (README, Findings).
OneByOne == Alone /\ ~HighLin /\ "nt32" \notin Systems

Content == [M!Words -> Nat]

PhysTypes ==
  /\ sys \in {"9x", "nt64"}
  /\ true \subseteq M!Lpts
  /\ memory \in Content /\ wanted \in Content
  /\ mapping \in [Admins -> Content]
  /\ kept \in Int
  /\ call \in [Admins -> {"idle", "map", "get", "set", "console"}]
  /\ done \in [Admins -> BOOLEAN]
  /\ result \in [Admins -> {"none", "refused", "TRUE"}]

\* One program is in a call or none; the driver keeps its mapping.
OneCall ==
  /\ \A p, q \in Admins : call[p] # "idle" /\ call[q] # "idle" => p = q
  /\ \A p \in Admins : call[p] = "idle" => ~done[p]
  /\ kept = IF sys = "nt64" /\ \E p \in Admins : call[p] # "idle" THEN 1 ELSE 0
  /\ sys = "9x" => \A p \in Admins : call[p] \notin {"get", "set"}

\* What was written last is in the memory, or on Windows 9x in the copy that will be put
\* back.
Newest ==
  /\ sys = "9x" => \A p \in Admins : call[p] # "idle" => mapping[p] = wanted
  /\ sys = "nt64" \/ (\A p \in Admins : call[p] = "idle") => memory = wanted

\* The console has corrected the table.
Corrected ==
  \A p \in Admins : call[p] = "console" /\ done[p] =>
    \A i \in true : wanted[i] = 1 /\ wanted[M!Installed] > i

PhysIInv == PhysTypes /\ OneCall /\ Newest /\ Corrected
-----------------------------------------------------------------------------
LEMMA PhysInit == ASSUME OneByOne, M!Init PROVE PhysIInv
  <1>1. sys \in {"9x", "nt64"} /\ true \subseteq M!Lpts
    BY InpoutAssumption DEF OneByOne, M!Init, M!PhysMemAssumption
  <1>2. memory \in Content
    BY DEF M!Init, Content
  <1>. QED BY <1>1, <1>2 DEF M!Init, PhysIInv, PhysTypes, OneCall, Newest, Corrected

LEMMA MapPhysToLin ==
  ASSUME OneByOne, PhysIInv, NEW p \in Admins, NEW what \in {"map", "get", "set", "console"},
         M!MapPhysToLin(p, what)
  PROVE  PhysIInv'
  <1>1. /\ \A q \in Admins : call[q] = "idle" /\ ~done[q]
        /\ UNCHANGED <<sys, true, memory, done, wanted>>
    BY DEF OneByOne, PhysIInv, OneCall, M!MapPhysToLin
  <1>2. memory = wanted /\ kept = 0
    BY <1>1 DEF PhysIInv, OneCall, Newest
  <1>3. CASE sys = "9x" /\ what \in {"get", "set"}
    <2>1. UNCHANGED <<mapping, kept, call>> /\ result' = [result EXCEPT ![p] = "refused"]
      BY <1>3 DEF M!MapPhysToLin
    <2>. QED BY <1>1, <2>1 DEF PhysIInv, PhysTypes, OneCall, Newest, Corrected
  <1>4. CASE ~(sys = "9x" /\ what \in {"get", "set"})
    <2>1. /\ mapping' = [mapping EXCEPT ![p] = memory]
          /\ kept' = IF sys = "9x" THEN kept ELSE kept + 1
          /\ call' = [call EXCEPT ![p] = what]
          /\ result' = [result EXCEPT ![p] = "none"]
      BY <1>4 DEF M!MapPhysToLin
    <2>2. call'[p] = what /\ \A q \in Admins : q # p => call'[q] = "idle"
      BY <1>1, <2>1 DEF PhysIInv, PhysTypes
    <2>3. PhysTypes'
      BY <1>1, <2>1 DEF PhysIInv, PhysTypes
    <2>4. OneCall'
      BY <1>1, <1>2, <1>4, <2>1, <2>2 DEF PhysIInv, PhysTypes, OneCall
    <2>5. Newest'
      BY <1>1, <1>2, <2>1, <2>2 DEF PhysIInv, PhysTypes, Newest
    <2>6. Corrected'
      BY <1>1, <2>2 DEF Corrected
    <2>. QED BY <2>3, <2>4, <2>5, <2>6 DEF PhysIInv
  <1>. QED BY <1>3, <1>4

\* A set of numbers up to b has a greatest one.
LEMMA GreatestOf ==
  ASSUME NEW S \in SUBSET Nat, S # {}, NEW b \in Nat, \A n \in S : n <= b
  PROVE  M!Max(S) \in S /\ \A n \in S : n <= M!Max(S)
  <1>. DEFINE Less == {x \in Nat \X Nat : x[1] < x[2]}
              Above == {n \in Nat : \A k \in S : k <= n}
  <1>1. IsWellFoundedOn(Less, Nat)
    BY NatLessThanWellFounded DEF OpToRel
  <1>. HIDE DEF Less
  <1>2. PICK m \in Above : \A n \in Above : ~(<<n, m>> \in Less)
    BY <1>1, WFMin
  <1>3. \A n \in Above : ~(n < m)
    BY <1>2 DEF Less
  <1>4. m \in S
    <2>1. SUFFICES ASSUME m \notin S PROVE FALSE
      OBVIOUS
    <2>2. \A k \in S : k < m
      BY <2>1
    <2>3. PICK k \in S : k < m
      BY <2>2
    <2>4. m - 1 \in Nat /\ \A l \in S : l <= m - 1
      BY <2>2, <2>3
    <2>. QED BY <2>4, <1>3
  <1>5. \E x \in S : \A y \in S : x >= y
    BY <1>4
  <1>6. M!Max(S) \in S /\ \A y \in S : M!Max(S) >= y
    BY <1>5 DEF M!Max
  <1>. QED BY <1>6

LEMMA PhysWords == M!Words = 0 .. 3 /\ M!Installed = 3 /\ M!Installed \in M!Words
  BY DEF M!Words, M!Installed

\* What EnsureBiosDataArea leaves.
LEMMA EnsureBios ==
  ASSUME NEW words \in Content, true \subseteq M!Lpts
  PROVE  /\ M!EnsureBios(words) \in Content
         /\ \A i \in true : M!EnsureBios(words)[i] = 1 /\ M!EnsureBios(words)[M!Installed] > i
  <1>. DEFINE S == {words[M!Installed]} \cup {i + 1 : i \in true}
              n == M!Max(S)
  <1>1. words[M!Installed] \in Nat /\ true \subseteq Nat /\ M!Installed \notin true
    BY DEF Content, M!Words, M!Installed, M!Lpts
  <1>2. \A k \in S : k \in Nat /\ k <= words[M!Installed] + 3
    BY <1>1 DEF M!Lpts
  <1>3. n \in S /\ \A k \in S : k <= n
    <2>. HIDE DEF S
    <2>1. S \in SUBSET Nat /\ words[M!Installed] + 3 \in Nat
      BY <1>1, <1>2
    <2>2. S # {}
      BY DEF S
    <2>. QED BY <1>2, <2>1, <2>2, GreatestOf
  <1>4. n \in Nat /\ \A i \in true : i < n
    <2>1. n \in Nat
      BY <1>2, <1>3
    <2>2. \A i \in true : i + 1 \in S
      OBVIOUS
    <2>3. \A i \in true : i + 1 <= n
      BY <1>3, <2>2
    <2>. HIDE DEF n, S
    <2>. QED BY <1>1, <2>1, <2>3
  <1>. HIDE DEF n
  <1>. DEFINE E == M!EnsureBios(words)
  <1>5. M!Words = 0 .. 3 /\ M!Installed = 3 /\ M!Installed \in M!Words
    BY PhysWords
  <1>6. E = [w \in M!Words |-> CASE w \in true -> 1
                              [] w = M!Installed -> M!Max({words[w]} \cup {i + 1 : i \in true})
                              [] OTHER -> words[w]]
    BY Zenon DEF M!EnsureBios
  <1>7. E[M!Installed] = n
    BY <1>1, <1>5, <1>6, Zenon DEF n
  <1>8. \A w \in M!Words : w \in true => E[w] = 1
    BY <1>1, <1>6, Zenon
  <1>9. \A w \in M!Words : w \notin true /\ w # M!Installed => E[w] = words[w]
    BY <1>6, Zenon
  <1>10. DOMAIN E = M!Words /\ E = [w \in M!Words |-> E[w]]
    BY <1>6, Zenon
  <1>. HIDE DEF E
  <1>11. \A w \in M!Words : E[w] \in Nat
    BY <1>4, <1>7, <1>8, <1>9 DEF Content
  <1>12. E \in Content
    BY <1>11, <1>10 DEF Content
  <1>13. \A i \in true : E[i] = 1 /\ E[M!Installed] > i
    BY <1>1, <1>4, <1>5, <1>7, <1>8 DEF M!Lpts
  <1>. QED BY <1>12, <1>13 DEF E

-----------------------------------------------------------------------------
LEMMA Work ==
  ASSUME OneByOne, PhysIInv, NEW p \in Admins, M!Work(p) PROVE PhysIInv'
  <1>1. /\ call[p] # "idle" /\ ~done[p]
        /\ UNCHANGED <<sys, true, kept, call>>
        /\ M!Seen(p) = wanted /\ wanted \in Content
    BY DEF PhysIInv, PhysTypes, OneCall, Newest, M!Work, M!Seen
  <1>2. PICK words \in M!Written(p, M!Seen(p)) :
          /\ IF sys = "9x" THEN mapping' = [mapping EXCEPT ![p] = words] /\ UNCHANGED memory
                           ELSE memory' = words /\ UNCHANGED mapping
          /\ wanted' = [w \in M!Words |-> IF words[w] # M!Seen(p)[w] THEN words[w] ELSE wanted[w]]
          /\ done' = [done EXCEPT ![p] = TRUE]
          /\ UNCHANGED result
    BY DEF OneByOne, M!Work
  <1>3. words \in Content /\ (call[p] = "console" => words = M!EnsureBios(wanted))
    <2>1. CASE call[p] = "map"
      BY <1>1, <1>2, <2>1 DEF M!Written, Content
    <2>2. CASE call[p] = "set"
      <3>1. PICK w \in {0, 1} : words = [wanted EXCEPT ![w] = 1, ![w + 1] = 1]
        BY <1>1, <1>2, <2>2 DEF M!Written
      <3>. QED BY <1>1, <2>2, <3>1 DEF Content
    <2>3. CASE call[p] = "console"
      <3>1. words = M!EnsureBios(wanted)
        BY <1>1, <1>2, <2>3 DEF M!Written
      <3>. QED BY <1>1, <3>1, EnsureBios DEF PhysIInv, PhysTypes
    <2>4. CASE call[p] \notin {"map", "set", "console"}
      BY <1>1, <1>2, <2>4 DEF M!Written
    <2>. QED BY <2>1, <2>2, <2>3, <2>4
  <1>4. wanted' = words
    BY <1>1, <1>2, <1>3 DEF Content
  <1>5. \A q \in Admins : q # p => call[q] = "idle"
    BY <1>1 DEF PhysIInv, OneCall
  <1>6. done'[p] /\ \A q \in Admins : q # p => done'[q] = done[q]
    BY <1>2 DEF PhysIInv, PhysTypes
  <1>7. PhysTypes'
    BY <1>1, <1>2, <1>3, <1>4 DEF PhysIInv, PhysTypes
  <1>8. OneCall'
    BY <1>1, <1>5, <1>6 DEF PhysIInv, OneCall
  <1>9. Newest'
    BY <1>1, <1>2, <1>4, <1>5 DEF PhysIInv, PhysTypes, Newest
  <1>10. Corrected'
    BY <1>1, <1>3, <1>4, <1>5, EnsureBios DEF PhysIInv, PhysTypes, Corrected
  <1>. QED BY <1>7, <1>8, <1>9, <1>10 DEF PhysIInv

LEMMA UnmapPhysicalMemory ==
  ASSUME PhysIInv, NEW p \in Admins, M!UnmapPhysicalMemory(p) PROVE PhysIInv'
  <1>1. /\ call[p] # "idle"
        /\ memory' = (IF sys = "9x" THEN mapping[p] ELSE memory)
        /\ kept' = IF sys = "nt64" THEN kept - 1 ELSE kept
        /\ call' = [call EXCEPT ![p] = "idle"] /\ done' = [done EXCEPT ![p] = FALSE]
        /\ UNCHANGED <<sys, true, mapping, wanted>>
    BY DEF M!UnmapPhysicalMemory
  <1>2. \A q \in Admins : call'[q] = "idle" /\ ~done'[q]
    BY <1>1 DEF PhysIInv, PhysTypes, OneCall
  <1>3. result' \in [Admins -> {"none", "refused", "TRUE"}]
    BY DEF PhysIInv, PhysTypes, OneCall, M!UnmapPhysicalMemory
  <1>4. memory' = wanted
    BY <1>1 DEF PhysIInv, PhysTypes, Newest
  <1>5. kept' = 0
    BY <1>1 DEF PhysIInv, PhysTypes, OneCall
  <1>6. PhysTypes'
    <2>1. /\ call' \in [Admins -> {"idle", "map", "get", "set", "console"}]
          /\ done' \in [Admins -> BOOLEAN]
      BY <1>1 DEF PhysIInv, PhysTypes
    <2>2. /\ sys' \in {"9x", "nt64"} /\ true' \subseteq M!Lpts /\ kept' \in Int
          /\ wanted' \in Content /\ memory' \in Content /\ mapping' \in [Admins -> Content]
      BY <1>1, <1>4, <1>5 DEF PhysIInv, PhysTypes
    <2>. QED BY <1>3, <2>1, <2>2 DEF PhysTypes
  <1>7. OneCall' /\ Newest' /\ Corrected'
    BY <1>1, <1>2, <1>4, <1>5 DEF OneCall, Newest, Corrected
  <1>. QED BY <1>6, <1>7 DEF PhysIInv

LEMMA PhysStep ==
  ASSUME OneByOne, PhysIInv, [M!Next]_(M!physVars) PROVE PhysIInv'
  <1>1. CASE UNCHANGED M!physVars
    BY <1>1 DEF M!physVars, PhysIInv, PhysTypes, OneCall, Newest, Corrected
  <1>2. CASE M!Next
    BY <1>2, MapPhysToLin, Work, UnmapPhysicalMemory DEF M!Next
  <1>. QED BY <1>1, <1>2

LEMMA PhysKept == ASSUME PhysIInv PROVE MappingsKept
  <1>1. \A p \in Admins : result[p] \notin {"crash", "FALSE"}
    BY DEF PhysIInv, PhysTypes
  <1>2. (\A p \in Admins : call[p] = "idle") => memory = wanted /\ kept = 0
    BY DEF PhysIInv, OneCall, Newest
  <1>3. ASSUME NEW p \in Admins, call[p] = "console", done[p], NEW i \in true
        PROVE  M!Seen(p)[i] = 1 /\ M!Seen(p)[M!Installed] > i
    <2>1. M!Seen(p) = wanted
      BY <1>3 DEF PhysIInv, PhysTypes, Newest, M!Seen
    <2>. QED BY <1>3, <2>1 DEF PhysIInv, Corrected
  <1>. QED BY <1>1, <1>2, <1>3 DEF MappingsKept, M!MappingsKept

\* When no program is in a call, the memory holds what was written last and the driver
\* keeps no mapping; nobody is told of a failure there was not; and the debug console
\* leaves a table without ports beyond their number (MapPhysToLin,
\* UnmapPhysicalMemory, SetPhysLong, EnsureBiosDataArea).
THEOREM MemoryKept == ASSUME OneByOne PROVE M!Spec => []MappingsKept
  <1>1. M!Init => PhysIInv
    BY PhysInit
  <1>2. PhysIInv /\ [M!Next]_(M!physVars) => PhysIInv'
    BY PhysStep
  <1>3. PhysIInv => MappingsKept
    BY PhysKept
  <1>. QED BY <1>1, <1>2, <1>3, PTL DEF M!Spec
-----------------------------------------------------------------------------
(***************************************************************************)
(* The search for the ports.                                               *)
(***************************************************************************)

\* The processes ask one at a time, numbers from LPT4 on are contiguous, and the helper
\* comes up (README, Findings).
AskedInTurn == ~Overlap /\ ~Gaps /\ ~HelperFails

AddrRecord == [spp : Nat, ecp : Nat]

AddrTypes ==
  /\ devs \in DeviceLists /\ L!Contiguous(devs)
  /\ at \in [Admins -> {"idle", "find", "wait", "ask", "close", "done"}]
  /\ addrs \in [Admins -> [L!Indices -> AddrRecord]]
  /\ ret \in [Admins -> Nat]
  /\ own \in [Admins -> {"none", "starting", "open", "ended"}]
  /\ hWin64 \in [Admins -> Admins \cup {L!Nobody}]

\* One process asks or none.
OneAsks ==
  \A c, d \in Admins : at[c] \notin {"idle", "done"} /\ at[d] \notin {"idle", "done"} => c = d

\* The helper that is asked is one's own.
Helper(c) ==
  /\ at[c] \in {"idle", "find"} => own[c] = "none"
  /\ at[c] = "wait" => own[c] \in {"starting", "open"}
  /\ at[c] \in {"ask", "close"} => own[c] = "open" /\ hWin64[c] = c
  /\ at[c] = "done" => own[c] \in {"none", "ended"}

\* What AddressesTrue says of an array and the count.
Means(c) ==
  /\ \A i \in L!Indices :
       LET here == {k \in 1 .. Len(devs) : devs[k].works /\ devs[k].index = i}
       IN  IF here = {} THEN addrs[c][i] = L!None ELSE \E k \in here :
             addrs[c][i].spp = devs[k].spp /\ addrs[c][i].ecp \in {0, devs[k].ecp}
  /\ ret[c] = 0 => \A k \in 1 .. Len(devs) : ~devs[k].works \/ devs[k].index \notin L!Indices

\* The array at first, while the helper is asked, and at the end.
Array(c) ==
  /\ at[c] \in {"idle", "find", "wait"} => ret[c] = 0 /\ \A i \in L!Indices : addrs[c][i] = L!None
  /\ at[c] = "ask" =>
       /\ ret[c] <= N
       /\ \A i \in L!Indices : addrs[c][i] = IF i < ret[c] THEN L!Single(i) ELSE L!None
  /\ at[c] = "close" => ret[c] > 0 /\ \A i \in L!Indices : addrs[c][i] = L!Single(i)
  /\ at[c] = "done" => Means(c)

AddrIInv == AddrTypes /\ OneAsks /\ \A c \in Admins : Helper(c) /\ Array(c)
-----------------------------------------------------------------------------
LEMMA AddrConstants ==
  /\ N \in Nat \ {0}
  /\ \A list \in DeviceLists :
       list \in Seq([index : Int, spp : Nat \ {0}, ecp : Nat, works : BOOLEAN])
  BY InpoutAssumption DEF L!LptGetAddrAssumption

LEMMA LeastOf ==
  ASSUME NEW X \in SUBSET Nat, X # {}
  PROVE  \E k \in X : \A m \in X : k <= m
  <1>. DEFINE Less == {p \in Nat \X Nat : p[1] < p[2]}
  <1>1. IsWellFoundedOn(Less, Nat)
    BY NatLessThanWellFounded DEF OpToRel
  <1>. HIDE DEF Less
  <1>2. PICK n \in X : \A m \in X : ~(<<m, n>> \in Less)
    BY <1>1, WFMin
  <1>3. \A m \in X : ~(m < n)
    BY <1>2 DEF Less
  <1>. QED BY <1>3

\* The devices of the enumeration.
LEMMA Enumeration ==
  ASSUME devs \in DeviceLists
  PROVE  /\ Len(devs) \in Nat
         /\ \A k \in 1 .. Len(devs) :
              devs[k] \in [index : Int, spp : Nat \ {0}, ecp : Nat, works : BOOLEAN]
         /\ L!Ports = {k \in 1 .. Len(devs) : devs[k].works /\ devs[k].index >= 0}
  <1>. DEFINE R == [index : Int, spp : Nat \ {0}, ecp : Nat, works : BOOLEAN]
  <1>1. devs \in Seq(R)
    BY AddrConstants
  <1>2. Len(devs) \in Nat /\ \A k \in 1 .. Len(devs) : devs[k] \in R
    <2>. HIDE DEF R
    <2>. QED BY <1>1
  <1>3. \A k \in 1 .. Len(devs) : L!IsPort(devs[k]) <=> devs[k].works /\ devs[k].index >= 0
    BY DEF L!IsPort
  <1>4. L!Ports = {k \in 1 .. Len(devs) : devs[k].works /\ devs[k].index >= 0}
    BY <1>3 DEF L!Ports
  <1>. QED BY <1>2, <1>4

\* The first device of a number.
LEMMA Single ==
  ASSUME devs \in DeviceLists, NEW i
  PROVE  /\ L!Single(i) \in AddrRecord
         /\ (\A k \in L!Ports : devs[k].index # i) => L!Single(i) = L!None
         /\ (\E k \in L!Ports : devs[k].index = i) =>
              \E k \in L!Ports : devs[k].index = i /\ L!Single(i) = L!Address(devs[k])
         /\ L!Single(i) = L!None <=> \A k \in L!Ports : devs[k].index # i
  <1>. DEFINE hits == {k \in L!Ports : devs[k].index = i}
  <1>1. L!Single(i) = IF hits = {} THEN L!None ELSE L!Address(devs[L!Min(hits)])
    BY DEF L!Single
  <1>2. hits # {} => L!Min(hits) \in hits
    <2>1. SUFFICES ASSUME hits # {} PROVE L!Min(hits) \in hits
      OBVIOUS
    <2>2. hits \in SUBSET Nat
      BY Enumeration
    <2>. HIDE DEF hits
    <2>3. PICK k \in hits : \A m \in hits : k <= m
      BY <2>1, <2>2, LeastOf
    <2>. QED BY <2>3 DEF L!Min
  <1>3. \A k \in L!Ports : L!Address(devs[k]) \in AddrRecord /\ L!Address(devs[k]) # L!None
    BY Enumeration DEF L!Address, AddrRecord, L!None
  <1>4. L!None \in AddrRecord
    BY DEF AddrRecord, L!None
  <1>5. CASE hits = {}
    BY <1>1, <1>4, <1>5
  <1>6. CASE hits # {}
    <2>1. L!Min(hits) \in L!Ports /\ devs[L!Min(hits)].index = i
      BY <1>2, <1>6
    <2>. HIDE DEF hits
    <2>. QED BY <1>1, <1>3, <1>6, <2>1
  <1>. QED BY <1>5, <1>6

\* Past LPT3 no port follows one that is missing.
LEMMA NoMore ==
  ASSUME devs \in DeviceLists, L!Contiguous(devs), NEW i \in Nat, i >= 3, L!Single(i) = L!None,
         NEW j \in Nat, i <= j
  PROVE  L!Single(j) = L!None
  <1>. DEFINE Above == {n \in Nat : i <= n /\ \E k \in L!Ports : devs[k].index = n}
  <1>1. SUFFICES ASSUME L!Single(j) # L!None PROVE FALSE
    OBVIOUS
  <1>2. j \in Above
    BY <1>1, Single
  <1>3. PICK n \in Above : \A m \in Above : n <= m
    <2>. HIDE DEF Above
    <2>1. Above \in SUBSET Nat
      BY DEF Above
    <2>. QED BY <1>2, <2>1, LeastOf
  <1>4. PICK k \in L!Ports : devs[k].index = n
    OBVIOUS
  <1>5. n > i
    BY <1>4, Single
  <1>6. PICK l \in 1 .. Len(devs) : devs[l].index = n - 1 /\ devs[l].works
    BY <1>4, <1>5, Enumeration DEF L!Contiguous
  <1>7. n - 1 \in Above
    BY <1>5, <1>6, Enumeration
  <1>. QED BY <1>3, <1>7

\* An array of the first devices tells the truth.
LEMMA FirstOnes ==
  ASSUME devs \in DeviceLists, NEW table, \A i \in L!Indices : table[i] = L!Single(i),
         NEW i \in L!Indices
  PROVE  LET here == {k \in 1 .. Len(devs) : devs[k].works /\ devs[k].index = i}
         IN  IF here = {} THEN table[i] = L!None ELSE \E k \in here :
               table[i].spp = devs[k].spp /\ table[i].ecp \in {0, devs[k].ecp}
  <1>. DEFINE here == {k \in 1 .. Len(devs) : devs[k].works /\ devs[k].index = i}
  <1>1. i >= 0
    BY AddrConstants DEF L!Indices
  <1>2. here = {k \in L!Ports : devs[k].index = i}
    BY <1>1, Enumeration
  <1>3. CASE here = {}
    BY <1>2, <1>3, Single
  <1>4. CASE here # {}
    <2>1. PICK k \in here : L!Single(i) = L!Address(devs[k])
      BY <1>2, <1>4, Single
    <2>. QED BY <2>1 DEF L!Address
  <1>. QED BY <1>3, <1>4

\* What the ways without a helper find.
LEMMA Found ==
  ASSUME devs \in DeviceLists
  PROVE  /\ DOMAIN L!Enumerated = L!Ports
         /\ \A k \in L!Ports : /\ L!Enumerated[k] \in AddrRecord
                               /\ L!Enumerated[k].spp = devs[k].spp
                               /\ L!Enumerated[k].ecp \in {0, devs[k].ecp}
  <1>1. \A k \in L!Ports : /\ L!Address(devs[k]) = [spp |-> devs[k].spp, ecp |-> devs[k].ecp]
                           /\ devs[k].spp \in Nat /\ devs[k].ecp \in Nat
    BY Enumeration DEF L!Address
  <1>. DEFINE Good(f) ==
         /\ DOMAIN f = L!Ports
         /\ \A k \in L!Ports : /\ f[k] \in AddrRecord /\ f[k].spp = devs[k].spp
                               /\ f[k].ecp \in {0, devs[k].ecp}
  <1>2. Good(L!LptGetAddr95) /\ Good(L!LptGetAddrNT) /\ Good(L!LptGetAddrNT4)
    <2>1. \A k \in L!Ports : /\ L!LptGetAddr95[k] = [spp |-> devs[k].spp, ecp |-> devs[k].ecp]
                             /\ L!LptGetAddrNT[k] = [spp |-> devs[k].spp, ecp |-> devs[k].ecp]
                             /\ L!LptGetAddrNT4[k] = [spp |-> devs[k].spp, ecp |-> 0]
      BY <1>1 DEF L!LptGetAddr95, L!LptGetAddrNT4, L!LptGetAddrNT
    <2>2. /\ DOMAIN L!LptGetAddr95 = L!Ports /\ DOMAIN L!LptGetAddrNT = L!Ports
          /\ DOMAIN L!LptGetAddrNT4 = L!Ports
      BY DEF L!LptGetAddr95, L!LptGetAddrNT4, L!LptGetAddrNT
    <2>. QED BY <1>1, <2>1, <2>2 DEF AddrRecord
  <1>3. DOMAIN L!LptGetAddrPnp # {} => L!LptGetAddrPnp = L!LptGetAddr95
    BY DEF L!LptGetAddrPnp, L!LptGetAddr95
  <1>4. Good(L!Enumerated)
    <2>. HIDE DEF Good
    <2>. QED BY <1>2, <1>3 DEF L!Enumerated
  <1>. QED BY <1>4
-----------------------------------------------------------------------------
LEMMA AddrInit == ASSUME AskedInTurn, L!Init PROVE AddrIInv
  <1>1. devs \in DeviceLists /\ L!Contiguous(devs)
    BY DEF AskedInTurn, L!Init
  <1>2. addrs \in [Admins -> [L!Indices -> AddrRecord]]
    BY DEF L!Init, L!None, AddrRecord
  <1>. QED BY <1>1, <1>2 DEF L!Init, AddrIInv, AddrTypes, OneAsks, Helper, Array

LEMMA AddrKept == AddrIInv => AddressesTrue
  BY DEF AddrIInv, Helper, Array, Means, AddressesTrue, L!AddressesTrue

\* The others keep what they have.
LEMMA Others ==
  ASSUME AddrIInv, NEW c \in Admins, devs' = devs, AddrTypes', OneAsks', Helper(c)', Array(c)',
         \A d \in Admins \ {c} :
           /\ at'[d] = at[d] /\ addrs'[d] = addrs[d] /\ ret'[d] = ret[d]
           /\ own'[d] = own[d] /\ hWin64'[d] = hWin64[d]
  PROVE  AddrIInv'
  <1>1. ASSUME NEW d \in Admins \ {c} PROVE Helper(d)' /\ Array(d)'
    <2>1. Helper(d)'
      BY DEF AddrIInv, Helper
    <2>2. Means(d) => Means(d)'
      BY DEF Means
    <2>3. \A i : L!Single(i)' = L!Single(i)
      BY DEF L!Single, L!Ports, L!IsPort, L!Address, L!None
    <2>4. Array(d)'
      BY <2>2, <2>3 DEF AddrIInv, Array
    <2>. QED BY <2>1, <2>4
  <1>. QED BY <1>1 DEF AddrIInv

\* LptGetAddr of a process, when no other is at it.
LEMMA AddrFill ==
  ASSUME AddrIInv, NEW c \in Admins, system # "wow8",
         addrs' = [addrs EXCEPT ![c] = L!Write(@, L!Enumerated)],
         ret' = [ret EXCEPT ![c] = Cardinality(DOMAIN L!Enumerated)],
         at[c] = "idle", UNCHANGED devs
  PROVE  Means(c)' /\ addrs'[c] \in [L!Indices -> AddrRecord] /\ ret'[c] \in Nat
  <1>. DEFINE E == L!Enumerated
              hits(i) == {k \in L!Ports : devs[k].index = i}
  <1>1. addrs \in [Admins -> [L!Indices -> AddrRecord]] /\ ret \in [Admins -> Nat]
        /\ devs \in DeviceLists
    BY DEF AddrIInv, AddrTypes
  <1>2. DOMAIN E = L!Ports
    BY <1>1, Found
  <1>3. \A i \in L!Indices : addrs'[c][i] = IF hits(i) = {} THEN L!None ELSE E[L!Max(hits(i))]
    BY <1>1, <1>2 DEF AddrIInv, Array, L!Write
  <1>4. \A i \in L!Indices : hits(i) # {} => L!Max(hits(i)) \in hits(i)
    <2>1. SUFFICES ASSUME NEW i \in L!Indices, hits(i) # {} PROVE L!Max(hits(i)) \in hits(i)
      OBVIOUS
    <2>2. hits(i) \in SUBSET Nat /\ Len(devs) \in Nat /\ \A k \in hits(i) : k <= Len(devs)
      BY <1>1, Enumeration
    <2>. HIDE DEF hits
    <2>3. L!Max(hits(i)) = M!Max(hits(i))
      BY DEF L!Max, M!Max
    <2>. QED BY <2>1, <2>2, <2>3, GreatestOf
  <1>5. ret'[c] = Cardinality(L!Ports)
    BY <1>1, <1>2
  <1>6. IsFiniteSet(L!Ports)
    <2>1. IsFiniteSet(1 .. Len(devs))
      BY <1>1, Enumeration, FS_Interval
    <2>. QED BY <2>1, FS_Subset DEF L!Ports
  <1>7. ret'[c] \in Nat /\ (ret'[c] = 0 => L!Ports = {})
    BY <1>5, <1>6, FS_CardinalityType, FS_EmptySet
  <1>8. addrs'[c] = [i \in L!Indices |-> addrs'[c][i]]
    BY <1>1 DEF L!Write
  <1>9. L!None \in AddrRecord
    BY DEF L!None, AddrRecord
  <1>10. \A i \in L!Indices : i >= 0 /\ hits(i) = {k \in 1 .. Len(devs) : devs[k].works /\ devs[k].index = i}
    BY <1>1, AddrConstants, Enumeration DEF L!Indices
  <1>11. \A k \in L!Ports : E[k] \in AddrRecord /\ E[k].spp = devs[k].spp /\ E[k].ecp \in {0, devs[k].ecp}
    BY <1>1, Found
  <1>. HIDE DEF E
  <1>12. ASSUME NEW i \in L!Indices
         PROVE  /\ addrs'[c][i] \in AddrRecord
                /\ IF hits(i) = {} THEN addrs'[c][i] = L!None ELSE \E k \in hits(i) :
                     addrs'[c][i].spp = devs[k].spp /\ addrs'[c][i].ecp \in {0, devs[k].ecp}
    <2>1. CASE hits(i) = {}
      BY <1>3, <1>9, <2>1
    <2>2. CASE hits(i) # {}
      <3>1. PICK k \in hits(i) : addrs'[c][i] = E[k]
        BY <1>3, <1>4, <2>2
      <3>. QED BY <1>11, <2>2, <3>1
    <2>. QED BY <2>1, <2>2
  <1>13. addrs'[c] \in [L!Indices -> AddrRecord]
    BY <1>8, <1>12
  <1>14. ret'[c] = 0 => \A k \in 1 .. Len(devs) : ~devs[k].works \/ devs[k].index \notin L!Indices
    BY <1>1, <1>7, <1>10, Enumeration
  <1>. QED BY <1>7, <1>10, <1>12, <1>13, <1>14 DEF Means
-----------------------------------------------------------------------------
\* The instance counts as everybody does.
LEMMA Count == \A S : L!Cardinality(S) = Cardinality(S)
  <1>1. ASSUME NEW S PROVE L!Cardinality(S) = Cardinality(S)
    BY DEF L!Cardinality, Cardinality
  <1>. QED BY <1>1

LEMMA Asked ==
  ASSUME AskedInTurn, AddrIInv, NEW c \in Admins, L!LptGetAddr(c) PROVE AddrIInv'
  <1>1. at[c] = "idle" /\ (\A d \in Admins : at[d] \in {"idle", "done"}) /\ UNCHANGED <<devs, own, hWin64>>
    BY DEF AskedInTurn, L!LptGetAddr
  <1>2. CASE system = "wow8"
    <2>1. at' = [at EXCEPT ![c] = "find"] /\ UNCHANGED <<addrs, ret>>
      BY <1>2 DEF L!LptGetAddr
    <2>2. AddrTypes' /\ OneAsks'
      BY <1>1, <2>1 DEF AddrIInv, AddrTypes, OneAsks, L!Contiguous
    <2>3. Helper(c)' /\ Array(c)'
      BY <1>1, <2>1 DEF AddrIInv, AddrTypes, Helper, Array
    <2>. QED BY <1>1, <2>1, <2>2, <2>3, Others DEF AddrIInv, AddrTypes
  <1>3. CASE system # "wow8"
    <2>1. /\ addrs' = [addrs EXCEPT ![c] = L!Write(@, L!Enumerated)]
          /\ ret' = [ret EXCEPT ![c] = Cardinality(DOMAIN L!Enumerated)]
          /\ at' = [at EXCEPT ![c] = "done"]
      BY <1>3, Count DEF L!LptGetAddr
    <2>2. Means(c)' /\ addrs'[c] \in [L!Indices -> AddrRecord] /\ ret'[c] \in Nat
      BY <1>1, <1>3, <2>1, AddrFill
    <2>3. /\ at'[c] = "done"
          /\ \A d \in Admins \ {c} : at'[d] = at[d] /\ addrs'[d] = addrs[d] /\ ret'[d] = ret[d]
      BY <2>1 DEF AddrIInv, AddrTypes
    <2>4. AddrTypes'
      BY <1>1, <2>1, <2>2, <2>3 DEF AddrIInv, AddrTypes, L!Contiguous
    <2>5. OneAsks' /\ Helper(c)' /\ Array(c)'
      BY <1>1, <2>2, <2>3 DEF AddrIInv, OneAsks, Helper, Array
    <2>. QED BY <1>1, <2>3, <2>4, <2>5, Others
  <1>. QED BY <1>2, <1>3

\* Only the helper of the process that asks has a window.
LEMMA OneWindow ==
  ASSUME AddrIInv, NEW c \in Admins, at[c] \in {"find", "wait", "ask", "close"}
  PROVE  L!Windows = IF own[c] = "open" THEN {c} ELSE {}
  <1>1. ASSUME NEW d \in Admins, own[d] = "open" PROVE d = c
    BY <1>1 DEF AddrIInv, AddrTypes, OneAsks, Helper
  <1>. QED BY <1>1 DEF L!Windows

LEMMA WindowSought ==
  ASSUME AskedInTurn, AddrIInv, NEW c \in Admins, L!FindWindow(c) PROVE AddrIInv'
  <1>1. at[c] = "find" /\ own[c] = "none" /\ L!Windows = {}
    BY OneWindow DEF AddrIInv, Helper, L!FindWindow
  <1>2. /\ own' = [own EXCEPT ![c] = "starting"] /\ at' = [at EXCEPT ![c] = "wait"]
        /\ UNCHANGED <<devs, addrs, ret, hWin64>>
    BY <1>1 DEF AskedInTurn, L!FindWindow
  <1>3. /\ at'[c] = "wait" /\ own'[c] = "starting"
        /\ \A d \in Admins \ {c} : at'[d] = at[d] /\ own'[d] = own[d]
    BY <1>2 DEF AddrIInv, AddrTypes
  <1>4. AddrTypes'
    BY <1>2 DEF AddrIInv, AddrTypes, L!Contiguous
  <1>5. OneAsks' /\ Helper(c)' /\ Array(c)'
    BY <1>1, <1>2, <1>3 DEF AddrIInv, OneAsks, Helper, Array
  <1>. QED BY <1>2, <1>3, <1>4, <1>5, Others

LEMMA HelperRuns ==
  ASSUME AskedInTurn, AddrIInv, NEW c \in Admins, L!RunQueryWnd(c) PROVE AddrIInv'
  <1>1. /\ own[c] = "starting" /\ own' = [own EXCEPT ![c] = "open"]
        /\ UNCHANGED <<devs, at, addrs, ret, hWin64>>
    BY DEF AskedInTurn, L!RunQueryWnd
  <1>2. at[c] = "wait"
    BY <1>1 DEF AddrIInv, AddrTypes, Helper
  <1>3. own'[c] = "open" /\ \A d \in Admins \ {c} : own'[d] = own[d]
    BY <1>1 DEF AddrIInv, AddrTypes
  <1>4. AddrTypes'
    BY <1>1 DEF AddrIInv, AddrTypes, L!Contiguous
  <1>5. OneAsks' /\ Helper(c)' /\ Array(c)'
    BY <1>1, <1>2, <1>3 DEF AddrIInv, OneAsks, Helper, Array
  <1>. QED BY <1>1, <1>3, <1>4, <1>5, Others

LEMMA Waited ==
  ASSUME AddrIInv, NEW c \in Admins, L!Wait(c) PROVE AddrIInv'
  <1>1. at[c] = "wait" /\ own[c] \in {"starting", "open"} /\ ret[c] = 0
    BY DEF L!Wait, AddrIInv, Helper, Array
  <1>2. own[c] = "open" /\ L!Windows = {c}
    BY <1>1, OneWindow DEF L!Wait
  <1>3. /\ hWin64' = [hWin64 EXCEPT ![c] = c] /\ at' = [at EXCEPT ![c] = "ask"]
        /\ UNCHANGED <<devs, addrs, ret, own>>
    BY <1>2 DEF L!Wait
  <1>4. DOMAIN hWin64 = Admins
    BY DEF AddrIInv, AddrTypes
  <1>5. /\ at'[c] = "ask" /\ hWin64'[c] = c
        /\ \A d \in Admins \ {c} : at'[d] = at[d] /\ hWin64'[d] = hWin64[d]
    BY <1>3, <1>4 DEF AddrIInv, AddrTypes
  <1>6. AddrTypes'
    BY <1>3 DEF AddrIInv, AddrTypes, L!Contiguous
  <1>7. OneAsks'
    BY <1>1, <1>5 DEF AddrIInv, OneAsks
  <1>8. Array(c)'
    <2>1. \A i \in L!Indices : i \in Nat
      BY AddrConstants DEF L!Indices
    <2>. QED BY <1>1, <1>3, <1>5, <2>1, AddrConstants DEF AddrIInv, Array
  <1>. QED BY <1>2, <1>3, <1>5, <1>6, <1>7, <1>8, Others DEF Helper

LEMMA Answered ==
  ASSUME AddrIInv, NEW c \in Admins, L!Ask(c) PROVE AddrIInv'
  <1>. DEFINE i == ret[c]
              addr == IF i < N THEN L!MsgProc(hWin64[c], i) ELSE L!None
  <1>1. /\ at[c] = "ask" /\ UNCHANGED <<devs, own, hWin64>>
        /\ addrs' = IF addr = L!None THEN addrs ELSE [addrs EXCEPT ![c][i] = addr]
        /\ IF i = N \/ (i >= 3 /\ addr = L!None)
             THEN at' = [at EXCEPT ![c] = "close"] /\ UNCHANGED ret
             ELSE ret' = [ret EXCEPT ![c] = @ + 1] /\ UNCHANGED at
    BY DEF L!Ask
  <1>2. /\ devs \in DeviceLists /\ L!Contiguous(devs) /\ i \in Nat /\ i <= N /\ N \in Nat \ {0}
        /\ L!Indices = 0 .. N - 1
        /\ \A j \in L!Indices : addrs[c][j] = IF j < i THEN L!Single(j) ELSE L!None
        /\ own[c] = "open" /\ hWin64[c] = c
    BY <1>1, AddrConstants DEF AddrIInv, AddrTypes, Helper, Array, L!Indices
  <1>3. addr = IF i < N THEN L!Single(i) ELSE L!None
    BY <1>2 DEF L!MsgProc
  <1>4. /\ addr \in AddrRecord
        /\ addrs \in [Admins -> [L!Indices -> AddrRecord]] /\ at \in [Admins -> {"idle", "find", "wait", "ask", "close", "done"}]
        /\ ret \in [Admins -> Nat]
    BY <1>2, <1>3, Single DEF AddrIInv, AddrTypes, L!None, AddrRecord
  <1>. HIDE DEF addr
  <1>5. /\ addrs' \in [Admins -> [L!Indices -> AddrRecord]]
        /\ \A d \in Admins \ {c} : addrs'[d] = addrs[d]
        /\ \A j \in L!Indices : addrs'[c][j] = IF j = i THEN addr ELSE addrs[c][j]
    BY <1>1, <1>2, <1>3, <1>4
  <1>6. \A j \in L!Indices : addrs'[c][j] = IF j < i + 1 THEN L!Single(j) ELSE L!None
    BY <1>2, <1>3, <1>5
  <1>7. \A j : L!Single(j)' = L!Single(j)
    BY <1>1 DEF L!Single, L!Ports, L!IsPort, L!Address, L!None
  <1>8. L!Contiguous(devs)' /\ devs' \in DeviceLists
    BY <1>1, <1>2 DEF L!Contiguous
  <1>9. CASE i = N \/ (i >= 3 /\ addr = L!None)
    <2>1. at' = [at EXCEPT ![c] = "close"] /\ UNCHANGED ret
      BY <1>1, <1>9
    <2>2. at'[c] = "close" /\ \A d \in Admins \ {c} : at'[d] = at[d]
      BY <1>4, <2>1
    <2>3. \A j \in L!Indices : addrs'[c][j] = L!Single(j)
      <3>1. CASE i = N
        BY <1>2, <1>6, <3>1
      <3>2. CASE i < N /\ i >= 3 /\ addr = L!None
        <4>1. \A j \in L!Indices : j >= i => L!Single(j) = L!None
          BY <1>2, <1>3, <3>2, NoMore
        <4>. QED BY <1>2, <1>6, <4>1
      <3>. QED BY <1>2, <1>9, <3>1, <3>2
    <2>4. AddrTypes'
      BY <1>1, <1>4, <1>5, <1>8, <2>1 DEF AddrIInv, AddrTypes
    <2>5. OneAsks' /\ Helper(c)'
      BY <1>1, <1>2, <2>2 DEF AddrIInv, OneAsks, Helper
    <2>6. Array(c)'
      BY <1>2, <1>7, <1>9, <2>1, <2>2, <2>3 DEF Array
    <2>. QED BY <1>1, <1>5, <2>1, <2>2, <2>4, <2>5, <2>6, Others
  <1>10. CASE ~(i = N \/ (i >= 3 /\ addr = L!None))
    <2>1. ret' = [ret EXCEPT ![c] = @ + 1] /\ UNCHANGED at
      BY <1>1, <1>10
    <2>2. ret'[c] = i + 1 /\ \A d \in Admins \ {c} : ret'[d] = ret[d]
      BY <1>4, <2>1
    <2>3. AddrTypes'
      BY <1>1, <1>4, <1>5, <1>8, <2>1 DEF AddrIInv, AddrTypes
    <2>4. OneAsks' /\ Helper(c)'
      BY <1>1, <1>2, <2>1 DEF AddrIInv, OneAsks, Helper
    <2>5. Array(c)'
      BY <1>1, <1>2, <1>6, <1>7, <1>10, <2>1, <2>2 DEF Array
    <2>. QED BY <1>1, <1>5, <2>1, <2>2, <2>3, <2>4, <2>5, Others
  <1>. QED BY <1>9, <1>10

LEMMA Closed ==
  ASSUME AddrIInv, NEW c \in Admins, L!Close(c) PROVE AddrIInv'
  <1>1. /\ at[c] = "close" /\ own[c] = "open" /\ hWin64[c] = c
        /\ ret[c] > 0 /\ \A i \in L!Indices : addrs[c][i] = L!Single(i)
    BY DEF L!Close, AddrIInv, Helper, Array
  <1>2. /\ own' = [w \in Admins |-> IF w = c THEN "ended" ELSE own[w]]
        /\ at' = [at EXCEPT ![c] = "done"] /\ ret' = [ret EXCEPT ![c] = ret[c]]
        /\ UNCHANGED <<devs, addrs, hWin64>>
    BY <1>1 DEF L!Close, L!Return
  <1>3. devs \in DeviceLists /\ ret \in [Admins -> Nat]
    BY DEF AddrIInv, AddrTypes
  <1>4. /\ at'[c] = "done" /\ own'[c] = "ended" /\ ret' = ret
        /\ \A d \in Admins \ {c} : at'[d] = at[d] /\ own'[d] = own[d]
    BY <1>2, <1>3 DEF AddrIInv, AddrTypes
  <1>5. AddrTypes'
    BY <1>2, <1>4 DEF AddrIInv, AddrTypes, L!Contiguous
  <1>6. Means(c)
    BY <1>1, <1>3, FirstOnes DEF Means
  <1>7. Means(c)'
    BY <1>2, <1>4, <1>6 DEF Means
  <1>8. OneAsks' /\ Helper(c)' /\ Array(c)'
    BY <1>1, <1>4, <1>7 DEF AddrIInv, OneAsks, Helper, Array
  <1>. QED BY <1>2, <1>4, <1>5, <1>8, Others

LEMMA AddrStep ==
  ASSUME AskedInTurn, AddrIInv, [L!Next]_(L!addrVars) PROVE AddrIInv'
  <1>1. CASE UNCHANGED L!addrVars
    <2>1. UNCHANGED <<system, devs, at, addrs, ret, own, hWin64>>
      BY <1>1 DEF L!addrVars
    <2>2. AddrTypes' /\ OneAsks'
      BY <2>1 DEF AddrIInv, AddrTypes, OneAsks, L!Contiguous
    <2>3. \A i : L!Single(i)' = L!Single(i)
      BY <2>1 DEF L!Single, L!Ports, L!IsPort, L!Address, L!None
    <2>4. ASSUME NEW c \in Admins PROVE Helper(c)' /\ Array(c)'
      <3>1. Means(c) => Means(c)'
        BY <2>1 DEF Means
      <3>. QED BY <2>1, <2>3, <3>1 DEF AddrIInv, Helper, Array
    <2>. QED BY <2>2, <2>4 DEF AddrIInv
  <1>2. CASE L!Next
    BY <1>2, Asked, WindowSought, HelperRuns, Waited, Answered, Closed DEF L!Next
  <1>. QED BY <1>1, <1>2

\* Processes that ask one after the other are told of each port, and of no other, with an
\* address of a working device of that number, whichever way the system has; and no helper is
\* left behind (LptGetAddr, LptGetAddrIpc).
THEOREM AddressesTold == ASSUME AskedInTurn PROVE L!Spec => []AddressesTrue
  <1>1. L!Init => AddrIInv
    BY AddrInit
  <1>2. AddrIInv /\ [L!Next]_(L!addrVars) => AddrIInv'
    BY AddrStep
  <1>3. AddrIInv => AddressesTrue
    BY AddrKept
  <1>. QED BY <1>1, <1>2, <1>3, PTL DEF L!Spec
-----------------------------------------------------------------------------
(* The parts together *)

LEMMA InpoutParts ==
  [MCNext]_<<part, vars, catch, search, phys, give>> =>
    /\ [Next]_vars /\ [M!Next]_(M!physVars)
    /\ [G!Next]_(G!ioVars) /\ [L!Next]_(L!addrVars)
  <1>1. phys' = phys => UNCHANGED M!physVars
    BY DEF phys, M!physVars
  <1>2. give' = give => UNCHANGED G!ioVars
    BY DEF give, G!ioVars
  <1>3. search' = search => UNCHANGED L!addrVars
    BY DEF search, L!addrVars
  <1>. QED BY <1>1, <1>2, <1>3 DEF MCNext

\* In the composition that is model-checked the ports are served, mappings kept, ports opened
\* and addresses told as said above.
THEOREM InpoutKept ==
  ASSUME PortsApart, Undisturbed, OneByOne, AskedInTurn
  PROVE  MCSpec => [](PortsServed /\ MappingsKept /\ AccessAsOpened /\ AddressesTrue)
  <1>1. MCInit => Init /\ M!Init /\ G!Init /\ L!Init
    BY DEF MCInit
  <1>2. MCSpec => Spec
    BY <1>1, InpoutParts, PTL DEF MCSpec, Spec
  <1>3. MCSpec => M!Spec
    BY <1>1, InpoutParts, PTL DEF MCSpec, M!Spec
  <1>4. MCSpec => G!Spec
    BY <1>1, InpoutParts, PTL DEF MCSpec, G!Spec
  <1>5. MCSpec => L!Spec
    BY <1>1, InpoutParts, PTL DEF MCSpec, L!Spec
  <1>. QED BY <1>2, <1>3, <1>4, <1>5, PortsStayServed, MemoryKept, AccessOpened, AddressesTold, PTL
=============================================================================
