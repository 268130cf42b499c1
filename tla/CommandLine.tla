---------------------------- MODULE CommandLine ----------------------------
(***************************************************************************)
(* The command line of the two programs and what they make of it: the      *)
(* loops over the arguments in the two main functions, the parser, and the *)
(* start of the program: the server binds its trunk sockets, the client    *)
(* spawns a listener for each local point.                                 *)
(*                                                                         *)
(* A program is "in" (byte_stacker_in, the client, with --local points) or *)
(* "out" (byte_stacker_out, the server, with --external points).  A text   *)
(* that is to be a number is a number, empty, something that is not wholly *)
(* a number, or missing with its separator.  All IPv4 addresses are one.   *)
(***************************************************************************)
EXTENDS Integers, Sequences

CONSTANTS
  Ids,        \* the numbers written as ids of points
  Ports,      \* the numbers written as ports
  IdBound,    \* values of unsigned int, 2^32 in the code
  PortBound,  \* values of unsigned short, 2^16 in the code
  MaxArgs,    \* bound: arguments of a program
  MaxPorts    \* bound: pieces between the commas of a port list

ASSUME IdsAssumption   == Ids \subseteq Int /\ IdBound \in Nat \ {0}
ASSUME PortsAssumption == Ports \subseteq Int /\ PortBound \in Nat \ {0}
ASSUME ArgsAssumption  == MaxArgs \in Nat /\ MaxPorts \in Nat \ {0}

VARIABLES
  program,    \* which of the two programs
  args,       \* history: the arguments looked at so far
  points,     \* lps or eps: id -> point
  trp,        \* the ports of the trunk points
  sockets,    \* trunk_sockets_ of the server: the ports they were bound to, as given
  listeners,  \* of the client: id -> state of its coroutine
  pc,         \* "arguments", "starting", "running" or "exited"
  code        \* what main returned

vars == <<program, args, points, trp, sockets, listeners, pc, code>>

-----------------------------------------------------------------------------
(* Arguments.                                                              *)

Number(n) == [text |-> "number", value |-> n]
Empty     == [text |-> "empty", value |-> 0]
Junk      == [text |-> "junk", value |-> 0]
Absent    == [text |-> "absent", value |-> 0]

Texts(numbers) == {Number(n) : n \in numbers} \union {Empty, Junk}
Addresses == {"ipv4", "name", "empty", "absent"}

PortLists == UNION {[1 .. n -> Texts(Ports)] : n \in 1 .. MaxPorts}

\* --local or --external id=address:port, --trunk=address:port,port..., any other.
Arguments ==
  [option : {"point"}, id : Texts(Ids) \union {Absent}, address : Addresses,
   port : Texts(Ports)]
  \union [option : {"trunk"}, address : Addresses, ports : PortLists]
  \union [option : {"other"}]

-----------------------------------------------------------------------------
(* The parser.                                                             *)

\* stoul of the whole text.
IsNumber(t) == t.text = "number"

\* ParsePoint.  The client turns the address into an IPv4 address, the server
\* keeps it as it is for the resolver.
PointParses(a) ==
  /\ IsNumber(a.id)
  /\ a.address \notin {"absent", "empty"}
  /\ IsNumber(a.port)
  /\ program = "in" => a.address = "ipv4"

\* The casts to unsigned int and to unsigned short.
Id(t)   == t.value % IdBound
Port(t) == t.value % PortBound

Point(a) == [address |-> a.address, port |-> Port(a.port)]

\* Mutant: an empty piece is skipped.
SkipsEmptyPieces(list) ==
  LET Rest[i \in 1 .. Len(list) + 1] ==
        IF i > Len(list) THEN [ok |-> TRUE, ports |-> <<>>]
        ELSE IF list[i] = Empty THEN Rest[i + 1]
        ELSE IF ~IsNumber(list[i]) THEN [ok |-> FALSE, ports |-> <<>>]
        ELSE [ok |-> Rest[i + 1].ok, ports |-> <<Port(list[i])>> \o Rest[i + 1].ports]
  IN  Rest[1]

\* The loop of ParseTrunkPoint, from the i-th piece on.  It ends when nothing is left
\* behind a comma, so a last piece that is empty is never looked at.
ParsePorts(list) ==
  LET Rest[i \in 1 .. Len(list) + 1] ==
        IF i > Len(list) \/ (i = Len(list) /\ list[i] = Empty)
          THEN [ok |-> TRUE, ports |-> <<>>]
        ELSE IF ~IsNumber(list[i]) THEN [ok |-> FALSE, ports |-> <<>>]
        ELSE [ok |-> Rest[i + 1].ok, ports |-> <<Port(list[i])>> \o Rest[i + 1].ports]
  IN  Rest[1]

TrunkParses(a) == a.address = "ipv4" /\ ParsePorts(a.ports).ok

\* Mutant: the points of an earlier option are kept.
AddsTrunkPoints(a) == trp \o ParsePorts(a.ports).ports

\* ParseTrunkPoint begins with points.clear().
TrunkPoints(a) == ParsePorts(a.ports).ports

-----------------------------------------------------------------------------
(* main.                                                                   *)

Init ==
  /\ program \in {"in", "out"}
  /\ args = <<>> /\ points = <<>> /\ trp = <<>>
  /\ sockets = <<>> /\ listeners = <<>>
  /\ pc = "arguments" /\ code = -1

Exit(c) == pc' = "exited" /\ code' = c

\* One turn of the loop over argv.
Argument(a) ==
  /\ pc = "arguments" /\ Len(args) < MaxArgs
  /\ args' = Append(args, a)
  /\ \/ /\ a.option = "point" /\ PointParses(a)
        /\ points' = [id \in DOMAIN points \union {Id(a.id)} |->
                       IF id = Id(a.id) THEN Point(a) ELSE points[id]]
        /\ UNCHANGED <<trp, pc, code>>
     \/ /\ a.option = "trunk" /\ TrunkParses(a)
        /\ trp' = TrunkPoints(a)
        /\ UNCHANGED <<points, pc, code>>
     \/ /\ \/ a.option = "point" /\ ~PointParses(a)
           \/ a.option = "trunk" /\ ~TrunkParses(a)
        /\ Exit(2)
        /\ UNCHANGED <<points, trp>>
     \/ /\ a.option = "other"
        /\ UNCHANGED <<points, trp, pc, code>>
  /\ UNCHANGED <<program, sockets, listeners>>

\* Behind the last argument.
Checks ==
  /\ pc = "arguments"
  /\ \/ args = <<>> /\ Exit(1)
     \/ args # <<>> /\ (DOMAIN points = {} \/ trp = <<>>) /\ Exit(3)
     \/ DOMAIN points # {} /\ trp # <<>> /\ pc' = "starting" /\ UNCHANGED code
  /\ UNCHANGED <<program, args, points, trp, sockets, listeners>>

\* Mutant: a port that cannot be bound is passed over.
BoundOrSkipped(p) ==
  /\ sockets' = Append(sockets, p)
  /\ UNCHANGED <<pc, code>>

\* To be bound to this port is to be given any port that is free.
AnyPort == 0

\* The constructor of a UDP socket binds it, or throws: the port is taken, by this
\* program or by another.  main prints the exception and returns 0.
Bind(p) ==
  \/ /\ p = AnyPort \/ \A i \in DOMAIN sockets : sockets[i] # p
     /\ sockets' = Append(sockets, p)
     /\ UNCHANGED <<pc, code>>
  \/ Exit(0) /\ sockets' = <<>>

\* The constructor of TrunkServer.
BindTrunkPoint ==
  /\ program = "out" /\ pc = "starting" /\ Len(sockets) < Len(trp)
  /\ Bind(trp[Len(sockets) + 1])
  /\ UNCHANGED <<program, args, points, trp, listeners>>

StartThreads ==
  /\ program = "out" /\ pc = "starting" /\ Len(sockets) = Len(trp)
  /\ pc' = "running"
  /\ UNCHANGED <<program, args, points, trp, sockets, listeners, code>>

\* The client spawns a coroutine for each local point.
SpawnListeners ==
  /\ program = "in" /\ pc = "starting"
  /\ pc' = "running"
  /\ listeners' = [id \in DOMAIN points |-> "spawned"]
  /\ UNCHANGED <<program, args, points, trp, sockets, code>>

Listening(id) == listeners[id] = "listening"

\* An acceptor is bound without sharing its endpoint.
EndpointFree(id) ==
  \/ points[id].port = AnyPort
  \/ \A other \in DOMAIN listeners : Listening(other) => points[other] # points[id]

\* ListenLocalPoint binds its acceptor and waits for connections.  An exception, of
\* the constructor or of async_accept, ends the coroutine and reaches nobody.
ListenLocalPoint(id) ==
  /\ pc = "running"
  /\ \/ listeners[id] = "spawned" /\ EndpointFree(id)
        /\ listeners' = [listeners EXCEPT ![id] = "listening"]
     \/ listeners[id] \in {"spawned", "listening"}
        /\ listeners' = [listeners EXCEPT ![id] = "ended"]
  /\ UNCHANGED <<program, args, points, trp, sockets, pc, code>>

\* SIGINT or SIGTERM stops the io_context of the client, and ctx.run() returns; for the
\* server see module ServerThreads.
Signal ==
  /\ program = "in" /\ pc = "running"
  /\ Exit(0)
  /\ listeners' = [id \in DOMAIN listeners |-> "ended"]
  /\ UNCHANGED <<program, args, points, trp, sockets>>

Next ==
  \/ \E a \in Arguments : Argument(a)
  \/ Checks
  \/ BindTrunkPoint \/ StartThreads
  \/ SpawnListeners \/ \E id \in DOMAIN listeners : ListenLocalPoint(id)
  \/ Signal

Spec == Init /\ [][Next]_vars

-----------------------------------------------------------------------------
(* What the usage text says, as a grammar.                                 *)

Numbers(set) == {Number(n) : n \in set}

WrittenPoints ==
  [option : {"point"}, id : Numbers(Ids),
   address : IF program = "in" THEN {"ipv4"} ELSE {"ipv4", "name"}, port : Numbers(Ports)]

\* The numbers of a list, and perhaps one comma too many behind them.
WrittenNumbers(list) ==
  IF list[Len(list)] = Empty THEN SubSeq(list, 1, Len(list) - 1) ELSE list
WrittenList(list) == WrittenNumbers(list) \in Seq(Numbers(Ports))

Written(a) ==
  \/ a.option = "other"
  \/ a.option = "point" /\ a \in WrittenPoints
  \/ a.option = "trunk" /\ a.address = "ipv4" /\ WrittenList(a.ports)

\* The last argument of all that count.
LastTrunk(i) ==
  args[i].option = "trunk" /\ \A j \in i + 1 .. Len(args) : args[j].option # "trunk"
LastOfId(i) ==
  /\ args[i].option = "point"
  /\ \A j \in i + 1 .. Len(args) :
       args[j].option = "point" => Id(args[j].id) # Id(args[i].id)

HasPoint == \E i \in DOMAIN args : args[i].option = "point"
HasTrunk == \E i \in DOMAIN args : LastTrunk(i) /\ WrittenNumbers(args[i].ports) # <<>>

-----------------------------------------------------------------------------
(* Properties.                                                             *)

\* What main returns tells what was wrong with the command line, and the program
\* starts only with one that has nothing wrong: 1 without arguments, 2 for an argument
\* that is not as the usage text says, 3 without points or without trunk ports; a later
\* --trunk with no ports takes the ports of an earlier one away (both main functions,
\* ParsePoint, ParseTrunkPoint).
ExitTellsWhy ==
  LET good == \A i \in DOMAIN args : Written(args[i])
  IN  pc # "arguments" =>
        /\ code = 1 <=> args = <<>>
        /\ code = 2 <=> ~good
        /\ code = 3 <=> args # <<>> /\ good /\ ~(HasPoint /\ HasTrunk)

\* The program works with the points that were written, whatever the order of the
\* options and however often one is repeated: of several for an id the last, and the
\* ports of the last --trunk in their order, each reduced to 16 bits.
OptionsAsWritten ==
  pc \in {"starting", "running"} =>
    /\ DOMAIN points = {Id(args[i].id) : i \in {j \in DOMAIN args : args[j].option = "point"}}
    /\ \A i \in DOMAIN args : LastOfId(i) =>
         points[Id(args[i].id)] = Point(args[i])
    /\ \A i \in DOMAIN args : LastTrunk(i) =>
         LET written == WrittenNumbers(args[i].ports)
         IN  trp = [k \in DOMAIN written |-> Port(written[k])]

\* A server that runs has every trunk socket it was asked for, at the position its
\* connections will name it by, and no port twice: two ports that are the same modulo
\* 2^16 keep it from starting, unless they are 0, which is a port of its own for each
\* socket (the constructor of TrunkServer).
ServerHasItsSockets ==
  program = "out" /\ pc = "running" =>
    /\ sockets = trp
    /\ \A i, j \in DOMAIN sockets : sockets[i] = sockets[j] /\ i # j => sockets[i] = AnyPort
=============================================================================
