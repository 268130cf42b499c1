------------------------- MODULE CommandLineProofs -------------------------
(***************************************************************************)
(* The theorems about CommandLine, for any ids, ports and widths, and for  *)
(* command lines and port lists of any length.                             *)
(*                                                                         *)
(* First what the loop of ParseTrunkPoint computes.  Its definition is a   *)
(* recursive function; ParsedFrom says the same without recursion, the     *)
(* lemma ParsedIsFixpoint that it solves the equation of the function, and *)
(* RestIsParsed that no other function does: were there a place at which   *)
(* two solutions differ, there would be a last one (LEMMA Greatest), and   *)
(* there they agree.                                                       *)
(*                                                                         *)
(* The inductive invariant then says what the arguments that were looked   *)
(* at have made of the points and of the trunk ports.                      *)
(***************************************************************************)
EXTENDS CommandLine, TLAPS, SequenceTheorems, WellFoundedInduction

-----------------------------------------------------------------------------
(* The loop of ParseTrunkPoint.                                            *)

Lists == Seq(Texts(Ports))

\* The piece at which the loop that begins with the i-th piece stops: the first that is
\* not a number, or the end of the list.
StopsAt(list, i, m) ==
  /\ m \in i .. Len(list) + 1
  /\ m <= Len(list) => ~IsNumber(list[m])
  /\ \A k \in i .. m - 1 : IsNumber(list[k])

Stop(list, i) == CHOOSE m \in Nat : StopsAt(list, i, m)

ParsedFrom(list, i) ==
  [ok    |-> \/ Stop(list, i) > Len(list)
             \/ Stop(list, i) = Len(list) /\ list[Len(list)] = Empty,
   ports |-> [k \in 1 .. Stop(list, i) - i |-> Port(list[i + k - 1])]]

\* The equation of the recursive function in ParsePorts: one turn of the loop, given
\* what the turns behind it make.
Turn(list, i, rest) ==
  IF i > Len(list) \/ (i = Len(list) /\ list[i] = Empty)
    THEN [ok |-> TRUE, ports |-> <<>>]
  ELSE IF ~IsNumber(list[i]) THEN [ok |-> FALSE, ports |-> <<>>]
  ELSE [ok |-> rest.ok, ports |-> <<Port(list[i])>> \o rest.ports]

IsRest(list, f) == f = [i \in 1 .. Len(list) + 1 |-> Turn(list, i, f[i + 1])]

\* The natural numbers are well ordered.
LEMMA Least ==
  ASSUME NEW S, S \subseteq Nat, S # {}
  PROVE  \E m \in S : \A n \in S : m <= n
<1>1. PICK x \in S : \A y \in S : ~ (<<y, x>> \in OpToRel(<, Nat))
  BY WFMin, NatLessThanWellFounded
<1>2. \A y \in S : ~ (y < x)
  BY <1>1 DEF OpToRel
<1>3. \A y \in S : x <= y
  <2> TAKE y \in S
  <2>1. x \in Nat /\ y \in Nat
    BY <1>1
  <2> QED BY <1>2, <2>1
<1> QED BY <1>1, <1>3

\* A set of numbers with an upper bound has a last one.
LEMMA Greatest ==
  ASSUME NEW n \in Nat, NEW S, S \subseteq 0 .. n, S # {}
  PROVE  \E m \in S : \A k \in S : k <= m
<1> DEFINE Mirror == {j \in Nat : n - j \in S}
<1>1. Mirror \subseteq Nat /\ Mirror # {}
  <2>1. PICK k \in S : TRUE
    OBVIOUS
  <2>2. n - k \in Mirror
    BY <2>1
  <2> QED BY <2>2
<1>2. PICK x \in Mirror : \A y \in Mirror : x <= y
  BY <1>1, Least
<1>3. \A k \in S : k <= n - x
  <2> TAKE k \in S
  <2>1. n - k \in Mirror
    OBVIOUS
  <2>2. x <= n - k /\ x \in Nat
    BY <1>2, <2>1
  <2> QED BY <2>2
<1> QED BY <1>2, <1>3

LEMMA APieceIs ==
  ASSUME NEW list \in Lists, NEW i \in 1 .. Len(list)
  PROVE  /\ list[i] = Empty => ~IsNumber(list[i])
         /\ IsNumber(list[i]) => list[i] \in Numbers(Ports)
         /\ list[i] \in Numbers(Ports) => IsNumber(list[i])
         /\ IsNumber(list[i]) => Port(list[i]) \in Nat
<1>1. list[i] \in Texts(Ports)
  BY DEF Lists
<1>2. \A p \in Ports : p % PortBound \in Nat
  BY PortsAssumption
<1> QED BY <1>1, <1>2 DEF Texts, Numbers, Number, IsNumber, Empty, Junk, Port

LEMMA StopExists ==
  ASSUME NEW list \in Lists, NEW i \in 1 .. Len(list) + 1
  PROVE  StopsAt(list, i, Stop(list, i)) /\ Stop(list, i) \in Nat
<1> DEFINE Ends == {m \in i .. Len(list) + 1 : m <= Len(list) => ~IsNumber(list[m])}
<1>1. Len(list) \in Nat
  BY DEF Lists
<1>2. Ends \subseteq Nat /\ Len(list) + 1 \in Ends
  BY <1>1
<1>3. PICK m \in Ends : \A n \in Ends : m <= n
  BY <1>2, Least
<1>4. StopsAt(list, i, m) /\ m \in Nat
  BY <1>1, <1>2, <1>3 DEF StopsAt
<1> QED BY <1>4 DEF Stop

LEMMA StopIsUnique ==
  ASSUME NEW list \in Lists, NEW i \in 1 .. Len(list) + 1, NEW m \in Nat,
         StopsAt(list, i, m)
  PROVE  Stop(list, i) = m
<1> DEFINE n == Stop(list, i)
<1>1. Len(list) \in Nat
  BY DEF Lists
<1>2. StopsAt(list, i, n) /\ n \in Nat
  BY StopExists
<1> HIDE DEF n
<1>3. ~(m < n)
  BY <1>1, <1>2 DEF StopsAt
<1>4. ~(n < m)
  BY <1>1, <1>2 DEF StopsAt
<1>5. n = m
  BY <1>2, <1>3, <1>4
<1> QED BY <1>5 DEF n

\* One turn of the loop.
LEMMA ParsedIsFixpoint ==
  ASSUME NEW list \in Lists
  PROVE  IsRest(list, [i \in 1 .. Len(list) + 1 |-> ParsedFrom(list, i)])
<1> DEFINE g == [i \in 1 .. Len(list) + 1 |-> ParsedFrom(list, i)]
<1>0. Len(list) \in Nat
  BY DEF Lists
<1>1. ASSUME NEW i \in 1 .. Len(list) + 1,
             i > Len(list) \/ (i = Len(list) /\ list[i] = Empty)
      PROVE  ParsedFrom(list, i) = [ok |-> TRUE, ports |-> <<>>]
  <2>1. StopsAt(list, i, i) /\ i \in Nat
    BY <1>0, <1>1, APieceIs DEF StopsAt
  <2>2. Stop(list, i) = i
    BY <2>1, StopIsUnique
  <2>3. [k \in 1 .. i - i |-> Port(list[i + k - 1])] = <<>>
    OBVIOUS
  <2> QED BY <1>0, <1>1, <2>2, <2>3 DEF ParsedFrom
<1>2. ASSUME NEW i \in 1 .. Len(list),
             ~(i = Len(list) /\ list[i] = Empty), ~IsNumber(list[i])
      PROVE  ParsedFrom(list, i) = [ok |-> FALSE, ports |-> <<>>]
  <2>1. StopsAt(list, i, i) /\ i \in Nat
    BY <1>0, <1>2 DEF StopsAt
  <2>2. Stop(list, i) = i
    BY <2>1, <1>0, StopIsUnique
  <2>3. [k \in 1 .. i - i |-> Port(list[i + k - 1])] = <<>>
    OBVIOUS
  <2>4. ~(i > Len(list) \/ (i = Len(list) /\ list[Len(list)] = Empty))
    BY <1>0, <1>2
  <2>5. ParsedFrom(list, i)
          = [ok |-> i > Len(list) \/ (i = Len(list) /\ list[Len(list)] = Empty),
             ports |-> <<>>]
    BY <2>2, <2>3 DEF ParsedFrom
  <2> QED BY <2>4, <2>5
<1>3. ASSUME NEW i \in 1 .. Len(list), IsNumber(list[i])
      PROVE  ParsedFrom(list, i)
               = [ok    |-> ParsedFrom(list, i + 1).ok,
                  ports |-> <<Port(list[i])>> \o ParsedFrom(list, i + 1).ports]
  <2> DEFINE m == Stop(list, i + 1)
  <2> DEFINE tail == [k \in 1 .. m - (i + 1) |-> Port(list[i + 1 + k - 1])]
  <2>1. StopsAt(list, i + 1, m) /\ m \in Nat
    BY <1>0, StopExists
  <2> HIDE DEF m
  <2>2. StopsAt(list, i, m)
    BY <1>0, <1>3, <2>1 DEF StopsAt
  <2>3. Stop(list, i) = m
    BY <1>0, <2>1, <2>2, StopIsUnique
  <2>4. m \in i + 1 .. Len(list) + 1 /\ m - (i + 1) \in Nat
    BY <1>0, <2>1 DEF StopsAt
  <2>5. \A k \in 1 .. m - (i + 1) : Port(list[i + 1 + k - 1]) \in Nat
    <3> TAKE k \in 1 .. m - (i + 1)
    <3>1. i + 1 + k - 1 \in i + 1 .. m - 1 /\ i + 1 + k - 1 \in 1 .. Len(list)
      BY <1>0, <2>4
    <3>2. IsNumber(list[i + 1 + k - 1])
      BY <2>1, <3>1 DEF StopsAt
    <3> QED BY <3>1, <3>2, APieceIs
  <2>6. tail \in Seq(Nat) /\ Len(tail) = m - (i + 1)
    BY <2>4, <2>5
  <2>7. Port(list[i]) \in Nat
    BY <1>3, APieceIs
  <2>8. <<Port(list[i])>> \o tail = [k \in 1 .. m - i |-> Port(list[i + k - 1])]
    <3>1. Len(<<Port(list[i])>> \o tail) = m - i
      BY <2>4, <2>6, <2>7
    <3>2. ASSUME NEW k \in 1 .. m - i
          PROVE  (<<Port(list[i])>> \o tail)[k] = Port(list[i + k - 1])
      <4>1. CASE k = 1
        BY <4>1, <2>6, <2>7
      <4>2. CASE k # 1
        <5>1. k - 1 \in 1 .. Len(tail)
          BY <4>2, <2>4, <2>6
        <5>2. (<<Port(list[i])>> \o tail)[k] = tail[k - 1]
          BY <5>1, <2>4, <2>6, <2>7
        <5>3. tail[k - 1] = Port(list[i + 1 + (k - 1) - 1])
          BY <5>1, <2>6
        <5>4. i + 1 + (k - 1) - 1 = i + k - 1
          BY <2>4
        <5> QED BY <5>2, <5>3, <5>4
      <4> QED BY <4>1, <4>2
    <3> QED BY <3>1, <3>2, <2>4, <2>6, <2>7
  <2> DEFINE done == m > Len(list) \/ (m = Len(list) /\ list[Len(list)] = Empty)
  <2>9. ParsedFrom(list, i + 1) = [ok |-> done, ports |-> tail]
    BY DEF ParsedFrom, m
  <2>10. ParsedFrom(list, i)
          = [ok |-> done, ports |-> [k \in 1 .. m - i |-> Port(list[i + k - 1])]]
    BY <2>3 DEF ParsedFrom
  <2> HIDE DEF tail, done
  <2>11. ParsedFrom(list, i + 1).ports = tail /\ ParsedFrom(list, i + 1).ok = done
    BY <2>9
  <2> QED BY <2>8, <2>10, <2>11
<1>4. ASSUME NEW i \in 1 .. Len(list) + 1
      PROVE  g[i] = Turn(list, i, g[i + 1])
  <2>1. CASE i > Len(list) \/ (i = Len(list) /\ list[i] = Empty)
    BY <1>1, <2>1 DEF Turn
  <2>2. CASE ~(i > Len(list) \/ (i = Len(list) /\ list[i] = Empty))
    <3>1. i \in 1 .. Len(list) /\ i + 1 \in 1 .. Len(list) + 1
      BY <1>0, <2>2
    <3>2. g[i] = ParsedFrom(list, i) /\ g[i + 1] = ParsedFrom(list, i + 1)
      BY <3>1
    <3> HIDE DEF g
    <3>3. CASE ~IsNumber(list[i])
      BY <1>2, <2>2, <3>1, <3>2, <3>3 DEF Turn
    <3>4. CASE IsNumber(list[i])
      BY <1>3, <2>2, <3>1, <3>2, <3>4 DEF Turn
    <3> QED BY <3>3, <3>4
  <2> QED BY <2>1, <2>2
<1> HIDE DEF g
<1>5. g = [i \in 1 .. Len(list) + 1 |-> g[i]]
  BY DEF g
<1>6. IsRest(list, g)
  BY <1>4, <1>5 DEF IsRest
<1> QED BY <1>6 DEF g

\* Two solutions agree: at the last place where they did not, the next one is the same.
LEMMA RestIsUnique ==
  ASSUME NEW list \in Lists, NEW f, NEW g, IsRest(list, f), IsRest(list, g)
  PROVE  f[1] = g[1]
<1> DEFINE Differ == {i \in 1 .. Len(list) + 1 : f[i] # g[i]}
<1>0. Len(list) \in Nat
  BY DEF Lists
<1>1. SUFFICES Differ = {}
  BY <1>0
<1>2. SUFFICES ASSUME Differ # {} PROVE FALSE
  OBVIOUS
<1>3. Differ \subseteq 0 .. (Len(list) + 1) /\ Len(list) + 1 \in Nat
  BY <1>0
<1> HIDE DEF Differ
<1>4. PICK m \in Differ : \A k \in Differ : k <= m
  BY <1>2, <1>3, Greatest
<1> USE DEF Differ
<1>5. m \in 1 .. Len(list) + 1 /\ f[m] # g[m]
  OBVIOUS
<1>6. CASE m > Len(list)
  BY <1>5, <1>6 DEF IsRest, Turn
<1>7. CASE ~(m > Len(list))
  <2>1. m + 1 \in 1 .. Len(list) + 1 /\ ~(m + 1 <= m)
    BY <1>0, <1>5, <1>7
  <2>2. f[m + 1] = g[m + 1]
    BY <1>4, <2>1
  <2>3. f[m] = g[m]
    BY <1>5, <2>2 DEF IsRest
  <2> QED BY <1>5, <2>3
<1> QED BY <1>6, <1>7

LEMMA ParsePortsIsParsed ==
  ASSUME NEW list \in Lists
  PROVE  ParsePorts(list) = ParsedFrom(list, 1)
<1> DEFINE g == [i \in 1 .. Len(list) + 1 |-> ParsedFrom(list, i)]
<1> DEFINE Rest == CHOOSE f : IsRest(list, f)
<1>1. ParsePorts(list) = Rest[1]
  BY DEF ParsePorts, IsRest, Turn
<1>2. IsRest(list, g)
  BY ParsedIsFixpoint
<1>3. g[1] = ParsedFrom(list, 1)
  BY DEF Lists
<1> HIDE DEF g
<1>4. IsRest(list, Rest)
  BY <1>2
<1> HIDE DEF Rest
<1>5. Rest[1] = g[1]
  BY <1>2, <1>4, RestIsUnique
<1> QED BY <1>1, <1>3, <1>5

\* The loop accepts the lists of the usage text and no others, and makes of them the
\* ports that were written.
PortsOf(list) ==
  [k \in DOMAIN WrittenNumbers(list) |-> Port(WrittenNumbers(list)[k])]

LEMMA WrittenNumbersAre ==
  ASSUME NEW list \in Lists, list # <<>>
  PROVE  \E n \in Nat :
           /\ n = IF list[Len(list)] = Empty THEN Len(list) - 1 ELSE Len(list)
           /\ WrittenNumbers(list) \in Lists
           /\ DOMAIN WrittenNumbers(list) = 1 .. n
           /\ \A k \in 1 .. n : WrittenNumbers(list)[k] = list[k]
<1> DEFINE L == Len(list)
<1>1. L \in Nat /\ L # 0 /\ list \in [1 .. L -> Texts(Ports)]
  BY DEF Lists
<1>2. CASE list[L] = Empty
  <2>1. L - 1 \in Nat /\ 1 .. L - 1 \subseteq 1 .. L
    BY <1>1
  <2>2. WrittenNumbers(list) = [k \in 1 .. L - 1 |-> list[k]]
    BY <1>1, <1>2, <2>1 DEF WrittenNumbers, Lists
  <2>3. WrittenNumbers(list) \in Lists
    BY <1>1, <2>1, <2>2 DEF Lists
  <2> QED BY <1>2, <2>1, <2>2, <2>3, Zenon
<1>3. CASE list[L] # Empty
  <2>1. WrittenNumbers(list) = list
    BY <1>3 DEF WrittenNumbers
  <2> QED BY <1>1, <1>3, <2>1, Zenon
<1> QED BY <1>2, <1>3, Zenon

LEMMA ParserFollowsUsage ==
  ASSUME NEW list \in Lists, list # <<>>
  PROVE  /\ ParsePorts(list).ok <=> WrittenList(list)
         /\ WrittenList(list) => ParsePorts(list).ports = PortsOf(list)
         /\ WrittenList(list) => PortsOf(list) \in Seq(Nat)
         /\ WrittenList(list) => (PortsOf(list) = <<>> <=> WrittenNumbers(list) = <<>>)
<1> DEFINE L == Len(list)
<1> DEFINE m == Stop(list, 1)
<1> DEFINE w == WrittenNumbers(list)
<1> DEFINE done == m > L \/ (m = L /\ list[L] = Empty)
<1>1. L \in Nat /\ L # 0
  BY DEF Lists
<1>2. StopsAt(list, 1, m) /\ m \in Nat
  BY <1>1, StopExists
<1>3. ParsePorts(list)
        = [ok |-> done, ports |-> [k \in 1 .. m - 1 |-> Port(list[1 + k - 1])]]
  BY ParsePortsIsParsed DEF ParsedFrom
<1> HIDE DEF m, done
<1>4. PICK n \in Nat :
        /\ n = IF list[L] = Empty THEN L - 1 ELSE L
        /\ w \in Lists
        /\ DOMAIN w = 1 .. n
        /\ \A k \in 1 .. n : w[k] = list[k]
  BY WrittenNumbersAre
<1> HIDE DEF w
<1>5. Len(w) = n /\ n <= L
  BY <1>1, <1>4 DEF Lists
<1>6. WrittenList(list) <=> \A k \in 1 .. n : IsNumber(list[k])
  <2>1. WrittenList(list) <=> w \in Seq(Numbers(Ports))
    BY DEF WrittenList, w
  <2>2. w \in Seq(Numbers(Ports)) <=> \A k \in 1 .. n : w[k] \in Numbers(Ports)
    BY <1>4, <1>5 DEF Lists
  <2>3. \A k \in 1 .. n : w[k] \in Numbers(Ports) <=> IsNumber(list[k])
    BY <1>1, <1>4, <1>5, APieceIs
  <2> QED BY <2>1, <2>2, <2>3
<1>7. done <=> \A k \in 1 .. n : IsNumber(list[k])
  <2>1. ASSUME done PROVE \A k \in 1 .. n : IsNumber(list[k])
    BY <1>1, <1>2, <1>4, <1>5, <2>1, APieceIs DEF StopsAt, done
  <2>2. ASSUME \A k \in 1 .. n : IsNumber(list[k]) PROVE done
    BY <1>1, <1>2, <1>4, <1>5, <2>2 DEF StopsAt, done
  <2> QED BY <2>1, <2>2
<1>8. done => m - 1 = n
  BY <1>1, <1>2, <1>4, APieceIs DEF StopsAt, done
<1>9. PortsOf(list) = [k \in 1 .. n |-> Port(list[k])]
  BY <1>4 DEF PortsOf, w
<1>10. ASSUME WrittenList(list)
       PROVE  /\ ParsePorts(list).ports = PortsOf(list)
              /\ PortsOf(list) \in Seq(Nat)
              /\ PortsOf(list) = <<>> <=> w = <<>>
  <2>1. m - 1 = n
    BY <1>6, <1>7, <1>8, <1>10
  <2>2. ParsePorts(list).ports = [k \in 1 .. n |-> Port(list[1 + k - 1])]
    BY <1>3, <2>1
  <2>3. ParsePorts(list).ports = PortsOf(list)
    BY <1>4, <1>9, <2>2
  <2>4. \A k \in 1 .. n : Port(list[k]) \in Nat
    BY <1>1, <1>5, <1>6, <1>10, APieceIs
  <2>5. PortsOf(list) \in Seq(Nat) /\ Len(PortsOf(list)) = n
    BY <1>4, <1>9, <2>4
  <2>6. PortsOf(list) = <<>> <=> n = 0
    BY <2>5, EmptySeq
  <2>7. w = <<>> <=> n = 0
    <3>1. w \in Seq(Texts(Ports)) /\ Len(w) = n
      BY <1>4, <1>5 DEF Lists
    <3> QED BY <3>1, EmptySeq
  <2> QED BY <2>3, <2>5, <2>6, <2>7
<1>11. ParsePorts(list).ok <=> done
  BY <1>3
<1> QED BY <1>6, <1>7, <1>10, <1>11 DEF w

-----------------------------------------------------------------------------
(* The inductive invariant.                                                *)

TypeInv ==
  /\ program \in {"in", "out"}
  /\ args \in Seq(Arguments)
  /\ pc \in {"arguments", "starting", "running", "exited"}
  /\ trp \in Seq(Nat) /\ sockets \in Seq(Nat)

AllWritten == \A i \in DOMAIN args : Written(args[i])

\* Of several points for an id the last counts.
PointsInv ==
  /\ DOMAIN points = {Id(args[i].id) : i \in {j \in DOMAIN args : args[j].option = "point"}}
  /\ \A i \in DOMAIN args : LastOfId(i) => points[Id(args[i].id)] = Point(args[i])

\* The last --trunk counts.
TrunkInv ==
  \/ trp = <<>> /\ \A i \in DOMAIN args : args[i].option # "trunk"
  \/ \E i \in DOMAIN args : LastTrunk(i) /\ trp = PortsOf(args[i].ports)

\* How far main is and what it knows of the arguments.
ProgressInv ==
  /\ pc # "exited" => code = -1 /\ AllWritten /\ PointsInv /\ TrunkInv
  /\ pc = "arguments" => sockets = <<>>
  /\ pc \in {"starting", "running"} => HasPoint /\ HasTrunk
  /\ pc = "exited" =>
       \/ code = 0 /\ AllWritten /\ HasPoint /\ HasTrunk
       \/ code = 1 /\ args = <<>>
       \/ code = 2 /\ args # <<>> /\ ~AllWritten
       \/ code = 3 /\ args # <<>> /\ AllWritten /\ ~(HasPoint /\ HasTrunk)

\* The server binds the trunk ports in their order.
SocketsInv ==
  program = "out" /\ pc \in {"starting", "running"} =>
    /\ Len(sockets) <= Len(trp)
    /\ \A i \in 1 .. Len(sockets) : sockets[i] = trp[i]
    /\ \A i, j \in 1 .. Len(sockets) : sockets[i] = sockets[j] /\ i # j => sockets[i] = AnyPort
    /\ pc = "running" => Len(sockets) = Len(trp)

IInv == TypeInv /\ ProgressInv /\ SocketsInv

-----------------------------------------------------------------------------
(* Arguments and the usage text.                                           *)

LEMMA ArgumentIs ==
  ASSUME NEW a \in Arguments
  PROVE  /\ a.option \in {"point", "trunk", "other"}
         /\ a.option = "point" =>
              a \in [option : {"point"}, id : Texts(Ids) \union {Absent},
                     address : Addresses, port : Texts(Ports)]
         /\ a.option = "trunk" =>
              a.ports \in Lists /\ a.ports # <<>> /\ a.address \in Addresses
<1>1. CASE a \in [option : {"point"}, id : Texts(Ids) \union {Absent},
                  address : Addresses, port : Texts(Ports)]
  BY <1>1
<1>2. CASE a \in [option : {"trunk"}, address : Addresses, ports : PortLists]
  <2>1. a.option = "trunk" /\ a.address \in Addresses /\ a.ports \in PortLists
    BY <1>2
  <2>2. PICK n \in 1 .. MaxPorts : a.ports \in [1 .. n -> Texts(Ports)]
    BY <2>1 DEF PortLists
  <2>3. n \in Nat /\ n # 0
    BY ArgsAssumption
  <2>4. a.ports \in Seq(Texts(Ports)) /\ Len(a.ports) = n
    BY <2>2, <2>3
  <2>5. a.ports \in Lists /\ a.ports # <<>>
    BY <2>3, <2>4, EmptySeq DEF Lists
  <2> QED BY <2>1, <2>5
<1>3. CASE a \in [option : {"other"}]
  BY <1>3
<1> QED BY <1>1, <1>2, <1>3 DEF Arguments

LEMMA NumbersAreWritten ==
  ASSUME NEW set, NEW t \in Texts(set) \union {Absent}
  PROVE  IsNumber(t) <=> t \in Numbers(set)
BY DEF Texts, Numbers, Number, IsNumber, Empty, Junk, Absent

LEMMA PointFollowsUsage ==
  ASSUME TypeInv, NEW a \in Arguments, a.option = "point"
  PROVE  PointParses(a) <=> Written(a)
<1>1. a \in [option : {"point"}, id : Texts(Ids) \union {Absent},
             address : Addresses, port : Texts(Ports)]
  BY ArgumentIs
<1>2. /\ IsNumber(a.id) <=> a.id \in Numbers(Ids)
      /\ IsNumber(a.port) <=> a.port \in Numbers(Ports)
  BY <1>1, NumbersAreWritten
<1>3. (/\ a.address \notin {"absent", "empty"}
       /\ program = "in" => a.address = "ipv4")
      <=> a.address \in IF program = "in" THEN {"ipv4"} ELSE {"ipv4", "name"}
  BY <1>1 DEF Addresses
<1>4. Written(a) <=> a \in WrittenPoints
  BY DEF Written
<1>5. a \in WrittenPoints <=>
        /\ a.id \in Numbers(Ids)
        /\ a.address \in IF program = "in" THEN {"ipv4"} ELSE {"ipv4", "name"}
        /\ a.port \in Numbers(Ports)
  BY <1>1 DEF WrittenPoints
<1> QED BY <1>2, <1>3, <1>4, <1>5 DEF PointParses

LEMMA TrunkFollowsUsage ==
  ASSUME NEW a \in Arguments, a.option = "trunk"
  PROVE  TrunkParses(a) <=> Written(a)
<1>1. a.ports \in Lists /\ a.ports # <<>>
  BY ArgumentIs
<1> QED BY <1>1, ParserFollowsUsage DEF TrunkParses, Written

-----------------------------------------------------------------------------
(* One more argument.                                                      *)

LEMMA OneMore ==
  ASSUME TypeInv, NEW a \in Arguments, args' = Append(args, a)
  PROVE  /\ args' \in Seq(Arguments) /\ args' # <<>>
         /\ Len(args) \in Nat /\ Len(args') = Len(args) + 1
         /\ DOMAIN args = 1 .. Len(args)
         /\ DOMAIN args' = DOMAIN args \union {Len(args) + 1}
         /\ args'[Len(args) + 1] = a
         /\ \A i \in DOMAIN args : args'[i] = args[i] /\ args[i] \in Arguments
<1>1. args \in Seq(Arguments)
  BY DEF TypeInv
<1> QED BY <1>1

LEMMA AnotherPoint ==
  ASSUME TypeInv, PointsInv, NEW a \in Arguments, args' = Append(args, a),
         a.option = "point",
         points' = [id \in DOMAIN points \union {Id(a.id)} |->
                      IF id = Id(a.id) THEN Point(a) ELSE points[id]]
  PROVE  PointsInv'
<1> DEFINE L == Len(args)
<1> DEFINE Given(as) == {j \in DOMAIN as : as[j].option = "point"}
<1>0. /\ L \in Nat /\ Len(args') = L + 1
      /\ DOMAIN args = 1 .. L
      /\ DOMAIN args' = DOMAIN args \union {L + 1}
      /\ args'[L + 1] = a
      /\ \A i \in DOMAIN args : args'[i] = args[i]
  BY OneMore
<1>1. DOMAIN points' = DOMAIN points \union {Id(a.id)}
  OBVIOUS
<1>2. DOMAIN points' = {Id(args'[i].id) : i \in Given(args')}
  <2>1. DOMAIN points = {Id(args[i].id) : i \in Given(args)}
    BY DEF PointsInv
  <2>2. Given(args') = Given(args) \union {L + 1}
    BY <1>0
  <2>3. \A i \in Given(args) : args'[i] = args[i]
    BY <1>0
  <2> HIDE DEF Given, L
  <2> QED BY <1>0, <1>1, <2>1, <2>2, <2>3
<1>3. ASSUME NEW i \in DOMAIN args', LastOfId(i)'
      PROVE  points'[Id(args'[i].id)] = Point(args'[i])
  <2>1. CASE i = L + 1
    BY <1>0, <2>1
  <2>2. CASE i # L + 1
    <3>1. i \in DOMAIN args /\ args'[i] = args[i]
      BY <1>0, <2>2
    <3>2. L + 1 \in i + 1 .. L + 1
      BY <1>0, <3>1
    <3>3. Id(a.id) # Id(args[i].id)
      BY <1>0, <1>3, <3>1, <3>2 DEF LastOfId
    <3>4. LastOfId(i)
      BY <1>0, <1>3, <3>1 DEF LastOfId
    <3>5. points[Id(args[i].id)] = Point(args[i])
      BY <3>1, <3>4 DEF PointsInv
    <3>6. Id(args[i].id) \in DOMAIN points
      BY <3>1, <3>4 DEF PointsInv, LastOfId
    <3> QED BY <3>1, <3>3, <3>5, <3>6
  <2> QED BY <2>1, <2>2
<1>4. \A i \in DOMAIN args' : LastOfId(i)' => points'[Id(args'[i].id)] = Point(args'[i])
  BY <1>3
<1> QED BY <1>2, <1>4 DEF PointsInv

LEMMA PointsKept ==
  ASSUME TypeInv, PointsInv, NEW a \in Arguments, args' = Append(args, a),
         a.option # "point", points' = points
  PROVE  PointsInv'
<1> DEFINE L == Len(args)
<1> DEFINE Given(as) == {j \in DOMAIN as : as[j].option = "point"}
<1>0. /\ L \in Nat /\ Len(args') = L + 1
      /\ DOMAIN args = 1 .. L
      /\ DOMAIN args' = DOMAIN args \union {L + 1}
      /\ args'[L + 1] = a
      /\ \A i \in DOMAIN args : args'[i] = args[i]
  BY OneMore
<1>1. Given(args') = Given(args) /\ \A i \in Given(args) : args'[i] = args[i]
  BY <1>0
<1>2. DOMAIN points' = {Id(args'[i].id) : i \in Given(args')}
  <2>1. DOMAIN points = {Id(args[i].id) : i \in Given(args)}
    BY DEF PointsInv
  <2> HIDE DEF Given
  <2> QED BY <1>1, <2>1
<1>3. ASSUME NEW i \in DOMAIN args', LastOfId(i)'
      PROVE  points'[Id(args'[i].id)] = Point(args'[i])
  <2>1. i \in DOMAIN args /\ args'[i] = args[i]
    BY <1>0, <1>3 DEF LastOfId
  <2>2. LastOfId(i)
    BY <1>0, <1>3, <2>1 DEF LastOfId
  <2> QED BY <2>1, <2>2 DEF PointsInv
<1>4. \A i \in DOMAIN args' : LastOfId(i)' => points'[Id(args'[i].id)] = Point(args'[i])
  BY <1>3
<1> QED BY <1>2, <1>4 DEF PointsInv

LEMMA TrunkKept ==
  ASSUME TypeInv, TrunkInv, NEW a \in Arguments, args' = Append(args, a),
         a.option # "trunk", trp' = trp
  PROVE  TrunkInv'
<1> DEFINE L == Len(args)
<1>0. /\ L \in Nat /\ Len(args') = L + 1
      /\ DOMAIN args = 1 .. L
      /\ DOMAIN args' = DOMAIN args \union {L + 1}
      /\ args'[L + 1] = a
      /\ \A i \in DOMAIN args : args'[i] = args[i]
  BY OneMore
<1>1. CASE trp = <<>> /\ \A i \in DOMAIN args : args[i].option # "trunk"
  <2>1. \A i \in DOMAIN args' : args'[i].option # "trunk"
    BY <1>0, <1>1
  <2>2. trp' = <<>>
    BY <1>1
  <2> QED BY <2>1, <2>2, Zenon DEF TrunkInv
<1>2. CASE \E i \in DOMAIN args : LastTrunk(i) /\ trp = PortsOf(args[i].ports)
  <2>1. PICK i \in DOMAIN args : LastTrunk(i) /\ trp = PortsOf(args[i].ports)
    BY <1>2
  <2>2. i \in DOMAIN args' /\ args'[i] = args[i]
    BY <1>0
  <2>3. LastTrunk(i)'
    BY <1>0, <2>1, <2>2 DEF LastTrunk
  <2>4. trp' = PortsOf(args'[i].ports)
    BY <2>1, <2>2
  <2> QED BY <2>2, <2>3, <2>4, Zenon DEF TrunkInv, PortsOf, WrittenNumbers, Empty, Port
<1> QED BY <1>1, <1>2 DEF TrunkInv

LEMMA AnotherTrunk ==
  ASSUME TypeInv, NEW a \in Arguments, args' = Append(args, a),
         a.option = "trunk", trp' = PortsOf(a.ports)
  PROVE  TrunkInv'
<1>0. PICK i \in Nat : i \in DOMAIN args' /\ args'[i] = a /\ Len(args') = i
  BY OneMore
<1>1. LastTrunk(i)'
  <2>1. args'[i].option = "trunk"
    BY <1>0
  <2>2. \A j \in i + 1 .. Len(args') : args'[j].option # "trunk"
    BY <1>0
  <2> QED BY <2>1, <2>2 DEF LastTrunk
<1>2. trp' = PortsOf(args'[i].ports)
  BY <1>0
<1> QED BY <1>0, <1>1, <1>2 DEF TrunkInv, PortsOf, WrittenNumbers, Empty, Port

\* What was written and kept is what the checks behind the loop look at.
LEMMA ChecksFollowUsage ==
  ASSUME TypeInv, AllWritten, PointsInv, TrunkInv
  PROVE  /\ DOMAIN points # {} <=> HasPoint
         /\ trp # <<>> <=> HasTrunk
         /\ HasPoint => args # <<>>
<1>0. args \in Seq(Arguments)
  BY DEF TypeInv
<1>1. DOMAIN points # {} <=> HasPoint
  BY DEF PointsInv, HasPoint
<1>2. HasPoint => args # <<>>
  BY <1>0 DEF HasPoint
<1>3. CASE trp = <<>> /\ \A i \in DOMAIN args : args[i].option # "trunk"
  BY <1>1, <1>2, <1>3 DEF HasTrunk, LastTrunk
<1>4. CASE \E i \in DOMAIN args : LastTrunk(i) /\ trp = PortsOf(args[i].ports)
  <2>1. PICK i \in DOMAIN args : LastTrunk(i) /\ trp = PortsOf(args[i].ports)
    BY <1>4
  <2>2. args[i] \in Arguments /\ args[i].option = "trunk" /\ Written(args[i])
    BY <1>0, <2>1 DEF LastTrunk, AllWritten
  <2>3. args[i].ports \in Lists /\ args[i].ports # <<>> /\ WrittenList(args[i].ports)
    BY <2>2, ArgumentIs DEF Written
  <2>4. trp = <<>> <=> WrittenNumbers(args[i].ports) = <<>>
    BY <2>1, <2>3, ParserFollowsUsage
  <2>5. ASSUME NEW j \in DOMAIN args, LastTrunk(j) PROVE j = i
    BY <1>0, <2>1, <2>5 DEF LastTrunk
  <2>6. HasTrunk <=> WrittenNumbers(args[i].ports) # <<>>
    BY <2>1, <2>5 DEF HasTrunk
  <2> QED BY <1>1, <1>2, <2>4, <2>6
<1> QED BY <1>3, <1>4 DEF TrunkInv

LEMMA WrittenKept ==
  ASSUME TypeInv, NEW a \in Arguments, args' = Append(args, a), program' = program
  PROVE  AllWritten' <=> AllWritten /\ Written(a)
<1> DEFINE W(b) == Written(b)
<1>0. /\ DOMAIN args' = DOMAIN args \union {Len(args) + 1}
      /\ args'[Len(args) + 1] = a
      /\ \A i \in DOMAIN args : args'[i] = args[i]
  BY OneMore
<1>1. AllWritten' <=> \A i \in DOMAIN args' : W(args'[i])
  BY DEF AllWritten, Written, WrittenPoints, WrittenList, WrittenNumbers, Numbers, Number, Empty
<1> HIDE DEF W
<1>2. (\A i \in DOMAIN args' : W(args'[i])) <=> (\A i \in DOMAIN args : W(args[i])) /\ W(a)
  BY <1>0
<1> QED BY <1>1, <1>2 DEF W, AllWritten

-----------------------------------------------------------------------------
(* The invariant is inductive.                                             *)

LEMMA InitIInv == Init => IInv
<1> SUFFICES ASSUME Init PROVE IInv
  OBVIOUS
<1>1. args = <<>> /\ DOMAIN args = {} /\ args \in Seq(Arguments)
  BY DEF Init
<1>2. TypeInv
  BY <1>1 DEF Init, TypeInv
<1>3. points = <<>> /\ DOMAIN points = {}
  BY DEF Init
<1>4. PointsInv
  BY <1>1, <1>3 DEF PointsInv
<1>5. TrunkInv /\ AllWritten
  BY <1>1 DEF Init, TrunkInv, AllWritten
<1>6. ProgressInv /\ SocketsInv
  BY <1>4, <1>5 DEF Init, ProgressInv, SocketsInv
<1> QED BY <1>2, <1>6 DEF IInv

LEMMA ArgumentIInv ==
  ASSUME IInv, NEW a \in Arguments, Argument(a)
  PROVE  IInv'
<1>1. /\ TypeInv /\ AllWritten /\ PointsInv /\ TrunkInv
      /\ pc = "arguments" /\ code = -1 /\ sockets = <<>>
  BY DEF IInv, ProgressInv, Argument
<1>2. args' = Append(args, a) /\ program' = program /\ sockets' = sockets
  BY DEF Argument
<1>3. AllWritten' <=> Written(a)
  BY <1>1, <1>2, WrittenKept
<1>4. args' \in Seq(Arguments) /\ args' # <<>>
  BY <1>1, <1>2, OneMore
<1>5. ASSUME Written(a), PointsInv', TrunkInv', trp' \in Seq(Nat), UNCHANGED <<pc, code>>
      PROVE  IInv'
  <2>1. TypeInv'
    BY <1>1, <1>2, <1>4, <1>5 DEF TypeInv
  <2>2. ProgressInv' /\ SocketsInv'
    BY <1>1, <1>2, <1>3, <1>5 DEF ProgressInv, SocketsInv
  <2> QED BY <2>1, <2>2 DEF IInv
<1>6. CASE /\ a.option = "point" /\ PointParses(a)
           /\ points' = [id \in DOMAIN points \union {Id(a.id)} |->
                           IF id = Id(a.id) THEN Point(a) ELSE points[id]]
           /\ UNCHANGED <<trp, pc, code>>
  <2>1. Written(a)
    BY <1>1, <1>6, PointFollowsUsage
  <2>2. PointsInv'
    BY <1>1, <1>2, <1>6, AnotherPoint
  <2>3. TrunkInv'
    BY <1>1, <1>2, <1>6, TrunkKept
  <2> QED BY <1>1, <1>5, <1>6, <2>1, <2>2, <2>3 DEF TypeInv
<1>7. CASE /\ a.option = "trunk" /\ TrunkParses(a)
           /\ trp' = TrunkPoints(a)
           /\ UNCHANGED <<points, pc, code>>
  <2>1. Written(a)
    BY <1>7, TrunkFollowsUsage
  <2>2. a.ports \in Lists /\ a.ports # <<>> /\ WrittenList(a.ports)
    BY <1>7, <2>1, ArgumentIs DEF Written
  <2>3. trp' = PortsOf(a.ports) /\ trp' \in Seq(Nat)
    BY <1>7, <2>2, ParserFollowsUsage DEF TrunkPoints
  <2>4. PointsInv'
    BY <1>1, <1>2, <1>7, PointsKept
  <2>5. TrunkInv'
    BY <1>1, <1>2, <1>7, <2>3, AnotherTrunk
  <2> QED BY <1>5, <1>7, <2>1, <2>3, <2>4, <2>5
<1>8. CASE /\ \/ a.option = "point" /\ ~PointParses(a)
              \/ a.option = "trunk" /\ ~TrunkParses(a)
           /\ Exit(2)
           /\ UNCHANGED <<points, trp>>
  <2>1. ~Written(a)
    BY <1>1, <1>8, PointFollowsUsage, TrunkFollowsUsage
  <2>2. TypeInv'
    BY <1>1, <1>2, <1>4, <1>8 DEF TypeInv, Exit
  <2>3. ProgressInv' /\ SocketsInv'
    BY <1>3, <1>4, <1>8, <2>1 DEF ProgressInv, SocketsInv, Exit
  <2> QED BY <2>2, <2>3 DEF IInv
<1>9. CASE a.option = "other" /\ UNCHANGED <<points, trp, pc, code>>
  <2>1. Written(a)
    BY <1>9 DEF Written
  <2>2. PointsInv' /\ TrunkInv'
    BY <1>1, <1>2, <1>9, PointsKept, TrunkKept
  <2> QED BY <1>1, <1>5, <1>9, <2>1, <2>2 DEF TypeInv
<1> QED BY <1>6, <1>7, <1>8, <1>9 DEF Argument

\* The steps behind the loop leave the options alone.
LEMMA OptionsKept ==
  ASSUME UNCHANGED <<program, args, points, trp>>
  PROVE  /\ AllWritten' <=> AllWritten
         /\ PointsInv' <=> PointsInv
         /\ TrunkInv' <=> TrunkInv
         /\ HasPoint' <=> HasPoint
         /\ HasTrunk' <=> HasTrunk
<1>1. AllWritten' <=> AllWritten
  BY DEF AllWritten, Written, WrittenPoints, WrittenList, WrittenNumbers, Numbers, Number, Empty
<1>2. PointsInv' <=> PointsInv
  BY DEF PointsInv, LastOfId, Id, Point, Port
<1>3. TrunkInv' <=> TrunkInv
  BY DEF TrunkInv, LastTrunk, PortsOf, WrittenNumbers, Empty, Port
<1>4. HasPoint' <=> HasPoint
  BY DEF HasPoint
<1>5. HasTrunk' <=> HasTrunk
  BY DEF HasTrunk, LastTrunk, WrittenNumbers, Empty
<1> QED BY <1>1, <1>2, <1>3, <1>4, <1>5

LEMMA ChecksIInv == IInv /\ Checks => IInv'
<1> SUFFICES ASSUME IInv, Checks PROVE IInv'
  OBVIOUS
<1>1. /\ TypeInv /\ AllWritten /\ PointsInv /\ TrunkInv
      /\ pc = "arguments" /\ code = -1 /\ sockets = <<>>
  BY DEF IInv, ProgressInv, Checks
<1>2. UNCHANGED <<program, args, points, trp, sockets>>
  BY DEF Checks
<1>3. /\ AllWritten' /\ PointsInv' /\ TrunkInv'
      /\ HasPoint' <=> HasPoint
      /\ HasTrunk' <=> HasTrunk
  BY <1>1, <1>2, OptionsKept
<1>4. /\ DOMAIN points # {} <=> HasPoint
      /\ trp # <<>> <=> HasTrunk
  BY <1>1, ChecksFollowUsage
<1>5. TypeInv'
  BY <1>1, <1>2 DEF TypeInv, Checks, Exit
<1>6. ProgressInv'
  <2>1. CASE args = <<>> /\ Exit(1)
    BY <1>2, <2>1 DEF ProgressInv, Exit
  <2>2. CASE args # <<>> /\ (DOMAIN points = {} \/ trp = <<>>) /\ Exit(3)
    BY <1>2, <1>3, <1>4, <2>2 DEF ProgressInv, Exit
  <2>3. CASE DOMAIN points # {} /\ trp # <<>> /\ pc' = "starting" /\ UNCHANGED code
    BY <1>1, <1>2, <1>3, <1>4, <2>3 DEF ProgressInv
  <2> QED BY <2>1, <2>2, <2>3 DEF Checks
<1>7. SocketsInv'
  <2>1. trp \in Seq(Nat) /\ Len(sockets) = 0
    BY <1>1 DEF TypeInv
  <2>2. pc' # "running"
    BY DEF Checks, Exit
  <2> QED BY <1>2, <2>1, <2>2 DEF SocketsInv
<1> QED BY <1>5, <1>6, <1>7 DEF IInv

LEMMA BindIInv == IInv /\ BindTrunkPoint => IInv'
<1> SUFFICES ASSUME IInv, BindTrunkPoint PROVE IInv'
  OBVIOUS
<1> DEFINE n == Len(sockets)
<1>1. /\ TypeInv /\ AllWritten /\ PointsInv /\ TrunkInv /\ HasPoint /\ HasTrunk
      /\ program = "out" /\ pc = "starting" /\ code = -1 /\ n < Len(trp)
  BY DEF IInv, ProgressInv, BindTrunkPoint
<1>2. UNCHANGED <<program, args, points, trp>>
  BY DEF BindTrunkPoint
<1>3. AllWritten' /\ PointsInv' /\ TrunkInv' /\ HasPoint' /\ HasTrunk'
  BY <1>1, <1>2, OptionsKept
<1>4. /\ sockets \in Seq(Nat) /\ trp \in Seq(Nat)
      /\ n \in Nat /\ n + 1 \in 1 .. Len(trp) /\ trp[n + 1] \in Nat
  BY <1>1 DEF TypeInv
<1>5. /\ \A i \in 1 .. n : sockets[i] = trp[i]
      /\ \A i, j \in 1 .. n : sockets[i] = sockets[j] /\ i # j => sockets[i] = AnyPort
  BY <1>1 DEF IInv, SocketsInv
<1>6. CASE /\ trp[n + 1] = AnyPort \/ \A i \in DOMAIN sockets : sockets[i] # trp[n + 1]
           /\ sockets' = Append(sockets, trp[n + 1])
           /\ UNCHANGED <<pc, code>>
  <2>1. /\ sockets' \in Seq(Nat) /\ Len(sockets') = n + 1
        /\ \A i \in 1 .. n : sockets'[i] = sockets[i]
        /\ sockets'[n + 1] = trp[n + 1]
        /\ trp[n + 1] = AnyPort \/ \A i \in 1 .. n : sockets[i] # trp[n + 1]
        /\ \A i \in 1 .. n + 1 : i \in 1 .. n \/ i = n + 1
    BY <1>4, <1>6
  <2>2. TypeInv' /\ ProgressInv'
    BY <1>1, <1>2, <1>3, <1>6, <2>1 DEF TypeInv, ProgressInv
  <2>3. /\ \A i \in 1 .. n + 1 : sockets'[i] = trp'[i]
        /\ Len(sockets') <= Len(trp')
    <3>1. trp' = trp /\ Len(sockets') <= Len(trp)
      BY <1>2, <1>4, <2>1
    <3>2. \A i \in 1 .. n + 1 : sockets'[i] = trp[i]
      BY <1>5, <2>1
    <3> QED BY <3>1, <3>2
  <2>4. \A i, j \in 1 .. n + 1 : sockets'[i] = sockets'[j] /\ i # j => sockets'[i] = AnyPort
    BY <1>5, <2>1
  <2>5. pc' # "running"
    BY <1>1, <1>6
  <2>6. SocketsInv'
    BY <2>1, <2>3, <2>4, <2>5 DEF SocketsInv
  <2> QED BY <2>2, <2>6 DEF IInv
<1>7. CASE Exit(0) /\ sockets' = <<>>
  <2>1. TypeInv'
    BY <1>1, <1>2, <1>7 DEF TypeInv, Exit
  <2>2. ProgressInv' /\ SocketsInv'
    BY <1>3, <1>7 DEF ProgressInv, SocketsInv, Exit
  <2> QED BY <2>1, <2>2 DEF IInv
<1> QED BY <1>6, <1>7 DEF BindTrunkPoint, Bind

\* The steps that go on with the sockets there are.
LEMMA RunningIInv ==
  ASSUME IInv, pc \in {"starting", "running"}, UNCHANGED <<program, args, points, trp, sockets>>,
         \/ pc' = "running" /\ code' = code
         \/ Exit(0),
         program = "out" => Len(sockets) = Len(trp)
  PROVE  IInv'
<1>1. /\ TypeInv /\ AllWritten /\ PointsInv /\ TrunkInv /\ HasPoint /\ HasTrunk /\ code = -1
  BY DEF IInv, ProgressInv
<1>2. AllWritten' /\ PointsInv' /\ TrunkInv' /\ HasPoint' /\ HasTrunk'
  BY <1>1, OptionsKept
<1>3. TypeInv'
  BY <1>1 DEF TypeInv, Exit
<1>4. ProgressInv'
  BY <1>1, <1>2 DEF ProgressInv, Exit
<1>5. SocketsInv'
  BY DEF IInv, SocketsInv, Exit
<1> QED BY <1>3, <1>4, <1>5 DEF IInv

LEMMA StepIInv == IInv /\ [Next]_vars => IInv'
<1> SUFFICES ASSUME IInv, [Next]_vars PROVE IInv'
  OBVIOUS
<1>1. ASSUME NEW a \in Arguments, Argument(a) PROVE IInv'
  BY <1>1, ArgumentIInv
<1>2. CASE Checks
  BY <1>2, ChecksIInv
<1>3. CASE BindTrunkPoint
  BY <1>3, BindIInv
<1>4. CASE StartThreads
  BY <1>4, RunningIInv DEF StartThreads
<1>5. CASE SpawnListeners
  BY <1>5, RunningIInv DEF SpawnListeners
<1>6. ASSUME NEW id \in DOMAIN listeners, ListenLocalPoint(id) PROVE IInv'
  <2>1. program = "out" => Len(sockets) = Len(trp)
    BY <1>6 DEF IInv, SocketsInv, ListenLocalPoint
  <2> QED BY <1>6, <2>1, RunningIInv DEF ListenLocalPoint
<1>7. CASE Signal
  BY <1>7, RunningIInv DEF Signal
<1>8. CASE UNCHANGED vars
  <2>1. UNCHANGED <<program, args, points, trp>>
    BY <1>8 DEF vars
  <2>2. TypeInv' /\ ProgressInv' /\ SocketsInv'
    BY <1>8, <2>1, OptionsKept DEF IInv, TypeInv, ProgressInv, SocketsInv, vars
  <2> QED BY <2>2 DEF IInv
<1> QED BY <1>1, <1>2, <1>3, <1>4, <1>5, <1>6, <1>7, <1>8 DEF Next

\* The invariant holds in every state of either program.
THEOREM Inductive == Spec => []IInv
<1>1. Init => IInv
  BY InitIInv
<1>2. IInv /\ [Next]_vars => IInv'
  BY StepIInv
<1> QED BY <1>1, <1>2, PTL DEF Spec

-----------------------------------------------------------------------------
(* What follows.                                                           *)

\* main returns 1 exactly without arguments, 2 exactly when one of them is not as the
\* usage text says, 3 exactly when all are and there is no point or no trunk port; it
\* starts or runs only with a command line that has nothing wrong.
THEOREM ExitRight == Spec => []ExitTellsWhy
<1>1. IInv => ExitTellsWhy
  <2> SUFFICES ASSUME IInv PROVE ExitTellsWhy
    OBVIOUS
  <2>1. args = <<>> => AllWritten
    BY DEF AllWritten
  <2>2. HasPoint => args # <<>>
    BY DEF HasPoint
  <2>3. pc # "arguments" =>
          /\ code = 1 <=> args = <<>>
          /\ code = 2 <=> ~AllWritten
          /\ code = 3 <=> args # <<>> /\ AllWritten /\ ~(HasPoint /\ HasTrunk)
    BY <2>1, <2>2 DEF IInv, TypeInv, ProgressInv
  <2> QED BY <2>3 DEF ExitTellsWhy, AllWritten
<1> QED BY <1>1, Inductive, PTL

\* The points and the trunk ports a program works with are those written last on its
\* command line, of whatever length and order; the ports of a --trunk are what the loop
\* of ParseTrunkPoint makes of its list.
THEOREM OptionsRight == Spec => []OptionsAsWritten
<1>1. IInv => OptionsAsWritten
  <2> SUFFICES ASSUME IInv, pc \in {"starting", "running"}
               PROVE  /\ DOMAIN points = {Id(args[i].id) :
                                            i \in {j \in DOMAIN args : args[j].option = "point"}}
                      /\ \A i \in DOMAIN args : LastOfId(i) =>
                           points[Id(args[i].id)] = Point(args[i])
                      /\ \A i \in DOMAIN args : LastTrunk(i) => trp = PortsOf(args[i].ports)
    BY DEF OptionsAsWritten, PortsOf
  <2>1. PointsInv /\ TrunkInv /\ args \in Seq(Arguments)
    BY DEF IInv, TypeInv, ProgressInv
  <2>2. \A i, j \in DOMAIN args : LastTrunk(i) /\ LastTrunk(j) => i = j
    BY <2>1 DEF LastTrunk
  <2>3. \A i \in DOMAIN args : LastTrunk(i) => trp = PortsOf(args[i].ports)
    BY <2>1, <2>2 DEF TrunkInv, LastTrunk
  <2> QED BY <2>1, <2>3 DEF PointsInv
<1> QED BY <1>1, Inductive, PTL

\* A server that runs has one socket for each of its trunk ports, in their order, and
\* no port twice but 0: the constructor of TrunkServer binds all of them or throws.
THEOREM AllSocketsOrNone == Spec => []ServerHasItsSockets
<1>1. IInv => ServerHasItsSockets
  <2> SUFFICES ASSUME IInv, program = "out", pc = "running" PROVE ServerHasItsSockets
    BY DEF ServerHasItsSockets
  <2>1. /\ sockets \in Seq(Nat) /\ trp \in Seq(Nat)
        /\ Len(sockets) = Len(trp)
        /\ \A i \in 1 .. Len(sockets) : sockets[i] = trp[i]
        /\ \A i, j \in 1 .. Len(sockets) : sockets[i] = sockets[j] /\ i # j => sockets[i] = AnyPort
    BY DEF IInv, TypeInv, SocketsInv
  <2>2. sockets = trp
    BY <2>1
  <2> QED BY <2>1, <2>2 DEF ServerHasItsSockets
<1> QED BY <1>1, Inductive, PTL

=============================================================================
