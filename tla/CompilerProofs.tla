--------------------------- MODULE CompilerProofs ---------------------------
(***************************************************************************)
(* Proofs about the two halves of `haikunet'.                              *)
(*                                                                         *)
(* CodeGeneration: one inductive invariant, GenerationIInv, follows a run  *)
(* through its phases: which hosts of the program have been built into the *)
(* simulation (Built), which identifiers have led to their requests        *)
(* (Generated), and what of the requests has been sent.  The counts of     *)
(* intents compare sets: the requests of a flow are in bijection with the  *)
(* pairs of its ends (FlowIsAskedFor).                                     *)
(*                                                                         *)
(* HaikunetParser: a deterministic automaton for the language (Point,      *)
(* Goes) whose points are related to the language by its derivatives       *)
(* (Derivative), and at each point the stacks that the parser may have     *)
(* there (Stacks), which every step keeps (Sound).  ParserIInv says that   *)
(* the parser is at the point to which the symbols in front of its         *)
(* lookahead lead, and which names it has on its list by then (Naming).    *)
(***************************************************************************)
EXTENDS CodeGeneration, HaikunetParser, ProofFacts

(* The inductive invariant.                                                *)

(* A flow whose ends are hosts: DebugCodeGenerator builds no other.        *)
NoLiteral(i) ==
    program[i].kind = "flow" => \A e \in ToSet(program[i].src \o program[i].dst) : e.kind = "host"

(* How many identifiers have been built into the simulation so far, and    *)
(* how many have led to their requests.                                    *)
Built ==
    IF pc = "building" THEN pos - 1
    ELSE IF pc \in {"simulating", "generating", "posting", "written"} THEN Len(program) ELSE 0
Generated ==
    IF pc = "generating" THEN pos - 1
    ELSE IF pc \in {"posting", "written"} THEN Len(program) ELSE 0

OnosRequest ==
    [end_point : {"hosts"}, message : NetworkHost] \cup
    [end_point : {"intents"}, message : NetworkHost \X NetworkHost]
OdlMessage == Seq(Mac) \X Seq(Mac)
OdlRequest == [end_point : IntentId, message : OdlMessage]
Request == IF destiny = "ONOS" THEN OnosRequest ELSE OdlRequest

RunTyped ==
    /\ TypeOK
    /\ destiny \in {"ONOS", "OPENDAYLIGHT"} /\ source \in {"controller", "other"}
    /\ added \in Seq(HostValue)
    /\ odlIntents \in [IntentId -> {NoIntent} \cup OdlMessage]
    /\ requests \in Seq(Request)
    /\ pc \in {"checking", "building", "simulating", "generating"} => sent = 0
    /\ pc \in {"checking", "building", "simulating"} => requests = <<>>
    /\ pc = "written" => sent = Len(requests)
    /\ pc = "simulating" => pos = 1
    /\ pc \in Running => runs > 0

(* The hosts that the phases before have put into the network.             *)
HostsBuilt ==
    \A i \in 1 .. Built : /\ i \in Identifiers("host") => HasMac(Simulated, program[i].mac)
                          /\ NoLiteral(i)

(* ONOS knows a host, or will: one of the first n requests, which is still *)
(* to be sent, creates it.                                                 *)
AskedBefore(n, host) ==
    \E k \in sent + 1 .. n : requests[k].end_point = "hosts" /\ requests[k].message = host
Provided(n, host) == host \in hosts \/ AskedBefore(n, host)

(* What an intent names as its end is the mac of a host of the program.    *)
EndProvided(n, end) ==
    \E i \in Identifiers("host") : end = Named(program[i].mac) /\ Provided(n, Address(program[i]))

(* ONOS knows a host that has been treated, or will before the next intent.*)
HostsProvided ==
    destiny = "ONOS" =>
        /\ \A i \in 1 .. Generated : i \in Identifiers("host") => Provided(Len(requests), Address(program[i]))
        /\ pc \in {"generating", "posting"} =>
              \A k \in sent + 1 .. Len(requests) : requests[k].end_point = "intents" =>
                  \A x \in {1, 2} : EndProvided(k - 1, requests[k].message[x])

(* OpenDaylight is not asked for hosts: they must be in the topology.      *)
SnapshotIsKnown == source = "controller" => \A mac \in Mac : HasMac(snapshot, mac) => HasMac(hosts, mac)

FirstIsMac == \A i \in Identifiers("host") : program[i].first = program[i].mac

OdlHostsKnown ==
    destiny = "OPENDAYLIGHT" /\ source = "controller" /\ FirstIsMac =>
        /\ \A i \in 1 .. Generated : i \in Identifiers("host") => HasMac(hosts, program[i].mac)
        /\ \A k \in DOMAIN requests : \A x \in {1, 2} :
              \A mac \in ToSet(requests[k].message[x]) : HasMac(hosts, mac)

(* Every flow has its request, and the last one sent with an identifier is *)
(* what OpenDaylight has installed under it.                               *)
OdlRequests ==
    destiny = "OPENDAYLIGHT" =>
        /\ pc \in {"generating", "posting", "written"} =>
              Len(requests) = Cardinality({i \in Identifiers("flow") : i <= Generated})
        /\ \A i \in 1 .. Generated : i \in Identifiers("flow") =>
              requests[RequestOf(i)].message = <<Macs(program[i].src), Macs(program[i].dst)>>
        /\ pc \in {"posting", "written"} =>
              \A k \in 1 .. sent :
                  \/ odlIntents[requests[k].end_point] = requests[k].message
                  \/ \E later \in k + 1 .. sent : requests[later].end_point = requests[k].end_point

(* The first n requests for an intent between two hosts.                   *)
AskFor(pair) == [end_point |-> "intents", message |-> IntentOf(pair)]
Asks(pair, n) == {k \in 1 .. n : requests[k] = AskFor(pair)}

WantedUpTo(pair, n) == UNION {WantedBy(i, pair) : i \in {j \in Identifiers("flow") : j <= n}}

(* What ONOS has been asked for and has installed, by runs and requests.   *)
OnosCounts ==
    \A pair \in Mac \X Mac :
        /\ destiny = "ONOS" /\ pc \in {"generating", "posting", "written"} =>
              Cardinality(Asks(pair, Len(requests))) = Cardinality(WantedUpTo(pair, Generated))
        /\ destiny = "ONOS" /\ pc \in {"posting", "written"} =>
              Count(onosIntents, IntentOf(pair)) >= Cardinality(Asks(pair, sent))
        /\ destiny = "ONOS" =>
              Count(onosIntents, IntentOf(pair)) <=
                 IF pc \in Running
                 THEN (runs - 1) * Wanted(pair) + (IF pc = "posting" THEN Cardinality(Asks(pair, sent)) ELSE 0)
                 ELSE runs * Wanted(pair)
        /\ destiny # "ONOS" => onosIntents = <<>>

NothingSent == pc \in {"checking", "building", "simulating", "generating", "rejected"} => intents = before

GenerationIInv ==
    /\ RunTyped /\ SimulatedOnce /\ HostsBuilt
    /\ IntentsHaveHosts /\ HostsProvided /\ SnapshotIsKnown /\ OdlHostsKnown
    /\ OdlRequests /\ OnosCounts /\ NothingSent

-----------------------------------------------------------------------------
(* What is assumed of programs.                                            *)
LEMMA ProgramFacts ==
  ASSUME program \in Programs
  PROVE  /\ Len(program) \in Nat \ {0} /\ DOMAIN program = 1 .. Len(program)
         /\ \A i \in DOMAIN program : program[i] \in HostValue \cup FlowValue
  <1>1. program \in Seq(HostValue \cup FlowValue) /\ program # <<>>
    BY ProgramAssumption
  <1>2. Len(program) # 0
    BY <1>1
  <1>3. Len(program) \in Nat /\ DOMAIN program = 1 .. Len(program)
    BY <1>1
  <1>4. \A i \in DOMAIN program : program[i] \in HostValue \cup FlowValue
    BY <1>1
  <1> QED
    BY <1>2, <1>3, <1>4

LEMMA KindFacts ==
  ASSUME program \in Programs
  PROVE  \A i \in DOMAIN program :
            /\ \/ /\ program[i].kind = "host" /\ program[i] \in HostValue
                  /\ program[i].mac \in Mac /\ program[i].vlan \in Vlan
               \/ program[i].kind = "flow" /\ program[i].src \in Ends /\ program[i].dst \in Ends
            /\ i \in Identifiers("host") <=> program[i].kind = "host"
            /\ i \in Identifiers("flow") <=> program[i].kind = "flow"
  <1>1. \A x \in HostValue : x.kind = "host" /\ x.mac \in Mac /\ x.vlan \in Vlan
    BY DEF HostValue
  <1>2. \A x \in FlowValue : x.kind = "flow" /\ x.src \in Ends /\ x.dst \in Ends
    BY DEF FlowValue
  <1> QED
    BY <1>1, <1>2, ProgramFacts DEF Identifiers

(* The ends of a flow: a host has been defined before.                     *)
LEMMA EndFacts ==
  ASSUME program \in Programs, NEW i \in Identifiers("flow")
  PROVE  /\ program[i].src \in Ends /\ program[i].dst \in Ends /\ program[i].src \o program[i].dst \in Ends
         /\ \A k \in DOMAIN program[i].src : program[i].src[k] \in ToSet(program[i].src \o program[i].dst)
         /\ \A k \in DOMAIN program[i].dst : program[i].dst[k] \in ToSet(program[i].src \o program[i].dst)
         /\ \A e \in ToSet(program[i].src \o program[i].dst) :
               /\ e \in HostValue \/ (e \in LiteralValue /\ e.kind = "literal")
               /\ e.mac \in Mac
               /\ e.kind = "host" => \E j \in Identifiers("host") : j < i /\ program[j] = e
  <1> DEFINE s == program[i].src
             d == program[i].dst
  <1>1. i \in DOMAIN program /\ program[i].kind = "flow" /\ s \in Ends /\ d \in Ends
    BY KindFacts DEF Identifiers
  <1>2. \A e \in ToSet(s \o d) : e.kind = "host" => \E j \in 1 .. i - 1 : program[j] = e
    BY <1>1, ProgramAssumption
  <1> HIDE DEF s, d
  <1>3. s \o d \in Ends /\ DOMAIN (s \o d) = 1 .. Len(s) + Len(d) /\ Len(s) \in Nat /\ Len(d) \in Nat
        /\ DOMAIN s = 1 .. Len(s) /\ DOMAIN d = 1 .. Len(d)
    BY <1>1 DEF Ends
  <1>4. \A k \in DOMAIN s : s[k] \in ToSet(s \o d)
    <2>1. \A k \in DOMAIN s : k \in DOMAIN (s \o d) /\ (s \o d)[k] = s[k]
      BY <1>1, <1>3 DEF Ends
    <2> QED
      BY <2>1 DEF ToSet
  <1>5. \A k \in DOMAIN d : d[k] \in ToSet(s \o d)
    <2>1. \A k \in DOMAIN d : Len(s) + k \in DOMAIN (s \o d) /\ (s \o d)[Len(s) + k] = d[k]
      BY <1>1, <1>3 DEF Ends
    <2> QED
      BY <2>1 DEF ToSet
  <1>6. \A e \in ToSet(s \o d) : e \in HostValue \cup LiteralValue
    BY <1>3 DEF Ends, ToSet
  <1>7. \A e \in HostValue \cup LiteralValue : /\ e \in HostValue \/ (e \in LiteralValue /\ e.kind = "literal")
                                               /\ e.mac \in Mac
    BY DEF HostValue, LiteralValue
  <1>8. ASSUME NEW j \in 1 .. i - 1, program[j].kind = "host" PROVE j \in Identifiers("host") /\ j < i
    <2>1. j \in DOMAIN program /\ j < i
      BY <1>1, ProgramFacts
    <2> QED
      BY <1>8, <2>1 DEF Identifiers
  <1>9. ASSUME NEW e \in ToSet(s \o d), e.kind = "host" PROVE \E j \in Identifiers("host") : j < i /\ program[j] = e
    <2>1. PICK j \in 1 .. i - 1 : program[j] = e
      BY <1>2, <1>9
    <2> QED
      BY <1>8, <1>9, <2>1
  <1>10. s \in Ends /\ d \in Ends
    BY <1>1
  <1>11. \A e \in ToSet(s \o d) : /\ e \in HostValue \/ (e \in LiteralValue /\ e.kind = "literal")
                                  /\ e.mac \in Mac
    BY <1>6, <1>7, Zenon
  <1> QED
    BY <1>3, <1>4, <1>5, <1>9, <1>10, <1>11 DEF s, d

(* What check_if_path_exist_in adds for the ends of a flow.                *)
LEMMA RepresentedIsLoop ==
  ASSUME NEW ends \in Ends, added \in Seq(HostValue)
  PROVE  /\ Represented(ends)[0] = added
         /\ \A i \in 0 .. Len(ends) : Represented(ends)[i] \in Seq(HostValue)
         /\ \A i \in 0 .. Len(ends) - 1 : Represented(ends)[i + 1] = WithEnd(Represented(ends)[i], ends[i + 1])
  <1> DEFINE n == Len(ends)
             V == Seq(HostValue)
             step == [x \in (0 .. n - 1) \X V |-> WithEnd(x[2], ends[x[1] + 1])]
             G == Represented(ends)
  <1>1. n \in Nat /\ \A i \in 0 .. n - 1 : i + 1 \in 1 .. n /\ ends[i + 1] \in HostValue \cup LiteralValue
    BY DEF Ends
  <1>2. ASSUME NEW e \in HostValue \cup LiteralValue, NEW new \in V PROVE WithEnd(new, e) \in V
    <2>1. e.kind = "literal" \/ e \in HostValue
      BY DEF LiteralValue
    <2>2. e \in HostValue => Append(new, e) \in V
      OBVIOUS
    <2> QED
      BY <2>1, <2>2 DEF WithEnd
  <1>3. step \in [(0 .. n - 1) \X V -> V] /\ \A i \in 0 .. n - 1, new \in V : step[<<i, new>>] = WithEnd(new, ends[i + 1])
    <2>1. \A x \in (0 .. n - 1) \X V : WithEnd(x[2], ends[x[1] + 1]) \in V
      <3> HIDE DEF V, n
      <3>1. TAKE x \in (0 .. n - 1) \X V
      <3>2. x[1] \in 0 .. n - 1 /\ x[2] \in V
        OBVIOUS
      <3> QED
        BY <1>1, <1>2, <3>2
    <2> HIDE DEF V, n
    <2> QED
      BY <2>1
  <1> HIDE DEF step, n, V
  <1>4. PICK F : IsLoop(V, added, step, n, F)
    <2>1. n \in Nat /\ added \in V /\ step \in [(0 .. n - 1) \X V -> V]
      BY <1>1, <1>3 DEF V
    <2> QED
      BY <2>1, LoopExists
  <1>5. F = [i \in 0 .. n |-> IF i = 0 THEN added ELSE WithEnd(F[i - 1], ends[i])]
    <2>0. n \in Nat
      BY <1>1
    <2>1. \A i \in 0 .. n : /\ F[i] \in V
                            /\ F[i] = IF i = 0 THEN added ELSE step[<<i - 1, F[i - 1]>>]
                            /\ i # 0 => i - 1 \in 0 .. n - 1 /\ F[i - 1] \in V
      BY <1>4, <2>0, LoopEquation, Zenon
    <2>2. ASSUME NEW i \in 0 .. n PROVE F[i] = IF i = 0 THEN added ELSE WithEnd(F[i - 1], ends[i])
      <3>1. CASE i = 0
        BY <2>1, <3>1
      <3>2. CASE i # 0
        <4>1. i - 1 \in 0 .. n - 1 /\ (i - 1) + 1 = i /\ F[i - 1] \in V /\ F[i] = step[<<i - 1, F[i - 1]>>]
          BY <1>1, <2>1, <3>2
        <4> QED
          BY <1>3, <3>2, <4>1
      <3> QED
        BY <3>1, <3>2
    <2> QED
      BY <1>4, <2>2 DEF IsLoop
  <1>6. G = [i \in 0 .. n |-> IF i = 0 THEN added ELSE WithEnd(G[i - 1], ends[i])]
    BY <1>5, Zenon DEF Represented, n
  <1> HIDE DEF G
  <1>7. \A i \in 0 .. n : G[i] = IF i = 0 THEN added ELSE WithEnd(G[i - 1], ends[i])
    BY <1>6, Zenon
  <1>8. G[0] = added
    BY <1>1, <1>7
  <1>9. \A i \in 0 .. n - 1 : G[i + 1] = WithEnd(G[i], ends[i + 1])
    <2>1. TAKE i \in 0 .. n - 1
    <2>2. i + 1 \in 0 .. n /\ i + 1 # 0 /\ (i + 1) - 1 = i
      BY <1>1
    <2> QED
      BY <1>7, <2>2
  <1>10. 0 .. n \subseteq {i \in 0 .. n : G[i] \in V}
    <2> DEFINE S == {i \in 0 .. n : G[i] \in V}
    <2>1. 0 \in S
      BY <1>1, <1>8 DEF V
    <2>2. ASSUME NEW i \in 0 .. n - 1, i \in S PROVE i + 1 \in S
      <3>1. i + 1 \in 0 .. n
        BY <1>1
      <3> QED
        BY <1>1, <1>2, <1>9, <2>2, <3>1
    <2> HIDE DEF S
    <2>3. 0 .. n \subseteq S
      BY <1>1, <2>1, <2>2, IntervalInduction
    <2> QED
      BY <2>3 DEF S
  <1> QED
    BY <1>8, <1>9, <1>10 DEF G, V, n
(* What a host may be added for, and what keeps the network simple.        *)


AddedOnce(new) ==
    /\ \A i, j \in DOMAIN new : i # j => new[i].mac # new[j].mac
    /\ \A i \in DOMAIN new : ~HasMac(snapshot, new[i].mac)

LEMMA AppendAddsOnce ==
  ASSUME NEW new \in Seq(HostValue), NEW e \in HostValue, ToSet(new) \subseteq ProgramHosts, e \in ProgramHosts,
         AddedOnce(new), ~HasMac(snapshot \cup ToSet(new), e.mac)
  PROVE  Append(new, e) \in Seq(HostValue) /\ ToSet(Append(new, e)) \subseteq ProgramHosts /\ AddedOnce(Append(new, e))
  <1> DEFINE s == Append(new, e)
  <1>1. /\ s \in Seq(HostValue) /\ DOMAIN s = DOMAIN new \cup {Len(new) + 1} /\ Len(new) + 1 \notin DOMAIN new
        /\ s[Len(new) + 1] = e /\ \A i \in DOMAIN new : s[i] = new[i]
    OBVIOUS
  <1>2. \A i \in DOMAIN new : new[i].mac # e.mac
    BY DEF HasMac, ToSet
  <1>3. ~HasMac(snapshot, e.mac)
    BY DEF HasMac
  <1> HIDE DEF s
  <1>4. ToSet(s) \subseteq ProgramHosts
    BY <1>1 DEF ToSet
  <1>5. AddedOnce(s)
    BY <1>1, <1>2, <1>3 DEF AddedOnce
  <1> QED
    BY <1>1, <1>4, <1>5 DEF s

LEMMA EndIsAddedOnce ==
  ASSUME NEW new \in Seq(HostValue), NEW e \in HostValue \cup LiteralValue,
         ToSet(new) \subseteq ProgramHosts, e.kind = "host" => e \in ProgramHosts,
         AddedOnce(new)
  PROVE  /\ WithEnd(new, e) \in Seq(HostValue) /\ ToSet(WithEnd(new, e)) \subseteq ProgramHosts
         /\ AddedOnce(WithEnd(new, e))
  <1>1. CASE e.kind = "literal" \/ HasMac(snapshot \cup ToSet(new), e.mac)
    BY <1>1 DEF WithEnd
  <1>2. CASE ~(e.kind = "literal" \/ HasMac(snapshot \cup ToSet(new), e.mac))
    <2>1. e \in HostValue /\ e.kind = "host"
      BY <1>2 DEF LiteralValue, HostValue
    <2>2. WithEnd(new, e) = Append(new, e)
      BY <1>2 DEF WithEnd
    <2> QED
      BY <1>2, <2>1, <2>2, AppendAddsOnce
  <1> QED
    BY <1>1, <1>2

LEMMA RepresentedOnce ==
  ASSUME program \in Programs, added \in Seq(HostValue), ToSet(added) \subseteq ProgramHosts, AddedOnce(added),
         NEW i \in Identifiers("flow")
  PROVE  LET ends == program[i].src \o program[i].dst
             new == Represented(ends)[Len(ends)]
         IN  new \in Seq(HostValue) /\ ToSet(new) \subseteq ProgramHosts /\ AddedOnce(new)
  <1> DEFINE ends == program[i].src \o program[i].dst
             G == Represented(ends)
             n == Len(ends)
             S == {k \in 0 .. n : G[k] \in Seq(HostValue) /\ ToSet(G[k]) \subseteq ProgramHosts /\ AddedOnce(G[k])}
  <1>1. ends \in Ends /\ \A e \in ToSet(ends) : e.kind = "host" => e \in ProgramHosts
    <2>1. ends \in Ends
      BY EndFacts
    <2>2. ASSUME NEW e \in ToSet(ends), e.kind = "host" PROVE e \in ProgramHosts
      <3>1. \E j \in Identifiers("host") : j < i /\ program[j] = e
        BY <2>2, EndFacts
      <3> QED
        BY <3>1 DEF ProgramHosts
    <2> QED
      BY <2>1, <2>2
  <1> HIDE DEF ends
  <1>2. n \in Nat /\ \A k \in 0 .. n - 1 : k + 1 \in DOMAIN ends /\ ends[k + 1] \in HostValue \cup LiteralValue
    BY <1>1 DEF Ends
  <1>3. /\ G[0] = added
        /\ \A k \in 0 .. n : G[k] \in Seq(HostValue)
        /\ \A k \in 0 .. n - 1 : G[k + 1] = WithEnd(G[k], ends[k + 1])
    BY <1>1, RepresentedIsLoop
  <1> HIDE DEF G, n
  <1>4. 0 \in S
    BY <1>2, <1>3
  <1>5. ASSUME NEW k \in 0 .. n - 1, k \in S PROVE k + 1 \in S
    <2>1. k + 1 \in 0 .. n /\ ends[k + 1] \in ToSet(ends)
      BY <1>2 DEF ToSet
    <2>2. ends[k + 1].kind = "host" => ends[k + 1] \in ProgramHosts
      BY <1>1, <2>1
    <2>3. G[k] \in Seq(HostValue) /\ ToSet(G[k]) \subseteq ProgramHosts /\ AddedOnce(G[k])
      BY <1>5
    <2> QED
      BY <1>2, <1>3, <2>1, <2>2, <2>3, EndIsAddedOnce
  <1> HIDE DEF S
  <1>6. 0 .. n \subseteq S
    BY <1>2, <1>4, <1>5, IntervalInduction
  <1>7. n \in S
    BY <1>2, <1>6
  <1> QED
    BY <1>7 DEF S, G, n, ends

LEMMA ProductsGrow ==
  ASSUME NEW a \in Nat, NEW b \in Nat, NEW d \in Nat
  PROVE  a * b \in Nat /\ (a + d) * b \in Nat /\ (a + d) * b >= a * b
  <1>1. a * b \in Nat /\ d * b \in Nat
    OBVIOUS
  <1>2. (a + d) * b = a * b + d * b
    OBVIOUS
  <1> DEFINE x == a * b
             y == d * b
             z == (a + d) * b
  <1>3. x \in Nat /\ y \in Nat /\ z = x + y
    BY <1>1, <1>2
  <1> HIDE DEF x, y, z
  <1>4. x \in Nat /\ z \in Nat /\ z >= x
    BY <1>3
  <1> QED
    BY <1>4 DEF x, z

(* Requests have the form that their controller takes.                     *)
LEMMA IndexOfPair ==
  ASSUME NEW a \in Nat, NEW b \in Nat, NEW k \in 1 .. a * b
  PROVE  /\ ((k - 1) \div b) + 1 \in 1 .. a /\ ((k - 1) % b) + 1 \in 1 .. b
         /\ k = ((k - 1) \div b) * b + ((k - 1) % b) + 1
  <1>1. b > 0
    <2>1. CASE b = 0
      <3>1. a * b = 0
        BY <2>1
      <3> QED
        BY <3>1
    <2> QED
      BY <2>1
  <1> DEFINE m == k - 1
             q == m \div b
             r == m % b
  <1>2. m \in Nat /\ m < a * b
    OBVIOUS
  <1> HIDE DEF m
  <1>3. q \in Nat /\ r \in 0 .. b - 1 /\ m = q * b + r
    BY <1>1, <1>2
  <1> HIDE DEF q, r
  <1>4. q < a
    <2>1. ASSUME q >= a PROVE FALSE
      <3>1. q = a + (q - a) /\ q - a \in Nat
        BY <1>3, <2>1
      <3>2. q * b >= a * b /\ q * b \in Nat /\ a * b \in Nat
        BY <3>1, ProductsGrow
      <3> DEFINE x == a * b
                 y == q * b
      <3>3. y >= x /\ x \in Nat /\ y \in Nat /\ m = y + r /\ m < x
        BY <1>2, <1>3, <3>2
      <3> HIDE DEF x, y
      <3> QED
        BY <1>3, <3>3
    <2> QED
      BY <1>3, <2>1
  <1>5. q + 1 \in 1 .. a /\ r + 1 \in 1 .. b
    BY <1>1, <1>3, <1>4
  <1>6. k = q * b + r + 1
    BY <1>3 DEF m
  <1> QED
    BY <1>5, <1>6 DEF q, r, m

(* The ends of an intent are told apart by their macs.                     *)
LEMMA NamedFacts ==
  /\ \A m \in Mac : Named(m) \in NetworkHost
  /\ \A p \in Mac \X Mac : IntentOf(p) \in NetworkHost \X NetworkHost
  /\ \A p, q \in Mac \X Mac : IntentOf(p) = IntentOf(q) => p = q
  <1>1. \A m \in Mac : Named(m) \in NetworkHost
    BY ProgramAssumption DEF Named, NetworkHost
  <1>2. ASSUME NEW p \in Mac \X Mac PROVE IntentOf(p) \in NetworkHost \X NetworkHost
    <2>1. p[1] \in Mac /\ p[2] \in Mac
      OBVIOUS
    <2> QED
      BY <1>1, <2>1 DEF IntentOf
  <1>3. ASSUME NEW p \in Mac \X Mac, NEW q \in Mac \X Mac, IntentOf(p) = IntentOf(q) PROVE p = q
    <2>1. Named(p[1]) = Named(q[1]) /\ Named(p[2]) = Named(q[2])
      BY <1>3 DEF IntentOf
    <2>2. p[1] = q[1] /\ p[2] = q[2]
      BY <2>1 DEF Named
    <2> QED
      BY <2>2
  <1> QED
    BY <1>1, <1>2, <1>3

LEMMA HostToHostFacts ==
  ASSUME NEW flow, flow.src \in Ends, flow.dst \in Ends
  PROVE  LET a == Len(flow.src)
             b == Len(flow.dst)
         IN  /\ a \in Nat /\ b \in Nat /\ a * b \in Nat
             /\ DOMAIN HostToHost(flow) = 1 .. a * b /\ Len(HostToHost(flow)) = a * b
             /\ HostToHost(flow) \in Seq([end_point : {"intents"}, message : NetworkHost \X NetworkHost])
             /\ \A k \in 1 .. a * b :
                   HostToHost(flow)[k] = [end_point |-> "intents",
                                          message |-> IntentOf(<<flow.src[((k - 1) \div b) + 1].mac,
                                                                 flow.dst[((k - 1) % b) + 1].mac>>)]
  <1> DEFINE a == Len(flow.src)
             b == Len(flow.dst)
             H(k) == [end_point |-> "intents",
                      message |-> IntentOf(<<flow.src[((k - 1) \div b) + 1].mac, flow.dst[((k - 1) % b) + 1].mac>>)]
  <1>1. /\ a \in Nat /\ b \in Nat /\ DOMAIN flow.src = 1 .. a /\ DOMAIN flow.dst = 1 .. b
        /\ \A i \in 1 .. a : flow.src[i].mac \in Mac
        /\ \A i \in 1 .. b : flow.dst[i].mac \in Mac
    BY DEF Ends, HostValue, LiteralValue
  <1>2. a * b \in Nat
    BY <1>1, ProductsGrow
  <1>3. /\ DOMAIN Macs(flow.src) = 1 .. a /\ DOMAIN Macs(flow.dst) = 1 .. b
        /\ Len(Macs(flow.src)) = a /\ Len(Macs(flow.dst)) = b
        /\ \A i \in 1 .. a : Macs(flow.src)[i] = flow.src[i].mac
        /\ \A i \in 1 .. b : Macs(flow.dst)[i] = flow.dst[i].mac
    BY <1>1 DEF Macs
  <1>4. ASSUME NEW k \in 1 .. a * b
        PROVE  ((k - 1) \div b) + 1 \in 1 .. a /\ ((k - 1) % b) + 1 \in 1 .. b
    BY <1>1, IndexOfPair
  <1>5. HostToHost(flow) =
          [k \in 1 .. a * b |-> [end_point |-> "intents",
                                 message |-> IntentOf(<<Macs(flow.src)[((k - 1) \div b) + 1],
                                                        Macs(flow.dst)[((k - 1) % b) + 1]>>)]]
    BY <1>3 DEF HostToHost
  <1> HIDE DEF a, b
  <1>6. DOMAIN HostToHost(flow) = 1 .. a * b /\ \A k \in 1 .. a * b : HostToHost(flow)[k] = H(k)
    <2> DEFINE c == a * b
               row(k) == ((k - 1) \div b) + 1
               column(k) == ((k - 1) % b) + 1
               Pair(k) == [end_point |-> "intents", message |-> IntentOf(<<Macs(flow.src)[row(k)], Macs(flow.dst)[column(k)]>>)]
    <2>1. HostToHost(flow) = [k \in 1 .. c |-> Pair(k)]
      BY <1>5
    <2>2. ASSUME NEW k \in 1 .. c PROVE row(k) \in 1 .. a /\ column(k) \in 1 .. b
      BY <1>4
    <2> HIDE DEF c, row, column
    <2>3. ASSUME NEW k \in 1 .. c
          PROVE  Pair(k) = [end_point |-> "intents", message |-> IntentOf(<<flow.src[row(k)].mac, flow.dst[column(k)].mac>>)]
      <3>1. Macs(flow.src)[row(k)] = flow.src[row(k)].mac
        BY <1>3, <2>2
      <3>2. Macs(flow.dst)[column(k)] = flow.dst[column(k)].mac
        BY <1>3, <2>2
      <3> QED
        BY <3>1, <3>2
    <2>4. ASSUME NEW k \in 1 .. c PROVE Pair(k) = H(k)
      BY <2>3 DEF row, column
    <2> HIDE DEF H, Pair
    <2>5. DOMAIN HostToHost(flow) = 1 .. c /\ \A k \in 1 .. c : HostToHost(flow)[k] = H(k)
      BY <2>1, <2>4
    <2> QED
      BY <2>5 DEF c
  <1> DEFINE m == a * b
             R == [end_point : {"intents"}, message : NetworkHost \X NetworkHost]
             G == HostToHost(flow)
  <1>7. ASSUME NEW k \in 1 .. m PROVE H(k) \in R
    <2>1. <<flow.src[((k - 1) \div b) + 1].mac, flow.dst[((k - 1) % b) + 1].mac>> \in Mac \X Mac
      BY <1>1, <1>4
    <2> QED
      BY <2>1, NamedFacts
  <1>8. m \in Nat /\ DOMAIN G = 1 .. m /\ (\A k \in 1 .. m : G[k] \in R) /\ G = [k \in DOMAIN G |-> G[k]]
    <2>1. G = [k \in DOMAIN G |-> G[k]]
      BY <1>5
    <2> QED
      BY <1>2, <1>6, <1>7, <2>1
  <1>9. G \in Seq(R) /\ Len(G) = m
    <2> HIDE DEF G, R, m
    <2> QED
      BY <1>8
  <1> QED
    BY <1>1, <1>2, <1>6, <1>9 DEF a, b
-----------------------------------------------------------------------------
(* A run keeps its state well typed.                                       *)

(* What no step changes.                                                   *)
LEMMA Frame ==
  ASSUME [Next]_cgVars
  PROVE  /\ program' = program /\ destiny' = destiny /\ source' = source
         /\ Identifiers("host")' = Identifiers("host") /\ Identifiers("flow")' = Identifiers("flow")
         /\ Request' = Request /\ ProgramHosts' = ProgramHosts
  <1>1. program' = program /\ destiny' = destiny /\ source' = source
    BY DEF Next, Run, cgVars, Start, CheckIdentifier, CheckFails, BuildIdentifier, BuildFails, Simulate, GenerateIdentifier, Send,
           WriteFile, HostDiscovered, Raise
  <1> QED
    BY <1>1 DEF Identifiers, Request, ProgramHosts

LEMMA InitTyped == Init => RunTyped
  <1> SUFFICES ASSUME Init PROVE RunTyped
    OBVIOUS
  <1>1. Len(program) \in Nat \ {0}
    BY ProgramFacts DEF Init
  <1>2. hosts \subseteq NetworkHost
    BY ProgramAssumption DEF Init
  <1>3. TypeOK
    BY <1>1, <1>2, ProgramAssumption DEF Init, TypeOK, Ended, ToSet
  <1> QED
    BY <1>3 DEF Init, RunTyped, Running

LEMMA PushedTyped ==
  ASSUME RunTyped, NEW answered, NEW id \in IntentId, NEW i \in DOMAIN program
  PROVE  Pushed(program[i], answered, id) \in Seq(Request)
  <1> DEFINE x == program[i]
             R == Pushed(x, answered, id)
             Q == Request
  <1>0. /\ \/ destiny = "ONOS" /\ Request = OnosRequest
           \/ destiny = "OPENDAYLIGHT" /\ Request = OdlRequest
        /\ \/ x.kind = "host" /\ x.mac \in Mac /\ x.vlan \in Vlan
           \/ x.kind = "flow" /\ x.src \in Ends /\ x.dst \in Ends
    BY KindFacts DEF RunTyped, TypeOK, Request
  <1> HIDE DEF x
  <1> SUFFICES R \in Seq(Q)
    BY DEF R, Q, x
  <1>1. CASE destiny = "ONOS" /\ x.kind = "host"
    <2> DEFINE r == [end_point |-> "hosts", message |-> Address(x)]
    <2>1. r \in Q
      BY <1>0, <1>1 DEF OnosRequest, Address, NetworkHost
    <2>2. R = <<>> \/ R = <<r>>
      BY <1>1 DEF Pushed
    <2> HIDE DEF r, R, Q
    <2>3. <<>> \in Seq(Q) /\ <<r>> \in Seq(Q)
      BY <2>1
    <2> QED
      BY <2>2, <2>3
  <1>2. CASE destiny = "ONOS" /\ x.kind = "flow"
    <2> DEFINE W == [end_point : {"intents"}, message : NetworkHost \X NetworkHost]
    <2>1. R = HostToHost(x)
      BY <1>2 DEF Pushed
    <2>2. HostToHost(x) \in Seq(W)
      BY <1>0, <1>2, HostToHostFacts
    <2>3. W \subseteq Q
      BY <1>0, <1>2 DEF OnosRequest
    <2> HIDE DEF R, Q, W
    <2>4. Seq(W) \subseteq Seq(Q)
      BY <2>3
    <2> QED
      BY <2>1, <2>2, <2>4
  <1>3. CASE destiny = "OPENDAYLIGHT" /\ x.kind = "host"
    <2>1. R = <<>>
      BY <1>3 DEF Pushed
    <2> HIDE DEF R, Q
    <2> QED
      BY <2>1
  <1>4. CASE destiny = "OPENDAYLIGHT" /\ x.kind = "flow"
    <2> DEFINE r == [end_point |-> id, message |-> <<Macs(x.src), Macs(x.dst)>>]
    <2>1. \A ends \in Ends : Macs(ends) \in Seq(Mac)
      BY DEF Ends, Macs, HostValue, LiteralValue
    <2>2. r \in Q
      BY <1>0, <1>4, <2>1 DEF OdlRequest, OdlMessage
    <2>3. R = <<r>>
      BY <1>4 DEF Pushed
    <2> HIDE DEF r, R, Q
    <2> QED
      BY <2>2, <2>3
  <1> QED
    BY <1>0, <1>1, <1>2, <1>3, <1>4

(* What the controller does with a request.                                *)
LEMMA AcceptsTyped ==
  ASSUME RunTyped, NEW r \in Request, Accepts(r)
  PROVE  /\ hosts' \subseteq NetworkHost /\ onosIntents' \in Seq(NetworkHost \X NetworkHost)
         /\ odlIntents' \in [IntentId -> {NoIntent} \cup OdlMessage]
  <1>0. /\ hosts \subseteq NetworkHost /\ onosIntents \in Seq(NetworkHost \X NetworkHost)
        /\ odlIntents \in [IntentId -> {NoIntent} \cup OdlMessage]
        /\ {"hosts", "intents"} \cap IntentId = {}
    BY ProgramAssumption DEF RunTyped, TypeOK
  <1>1. \/ r \in [end_point : {"hosts"}, message : NetworkHost]
        \/ r \in [end_point : {"intents"}, message : NetworkHost \X NetworkHost]
        \/ r \in OdlRequest
    BY DEF Request, OnosRequest
  <1>2. CASE r \in [end_point : {"hosts"}, message : NetworkHost]
    BY <1>0, <1>2 DEF Accepts, intents
  <1>3. CASE r \in [end_point : {"intents"}, message : NetworkHost \X NetworkHost]
    <2>1. onosIntents' = Append(onosIntents, r.message) /\ r.message \in NetworkHost \X NetworkHost /\ UNCHANGED <<hosts, odlIntents>>
      BY <1>3 DEF Accepts
    <2>2. onosIntents' \in Seq(NetworkHost \X NetworkHost)
      <3> DEFINE P == NetworkHost \X NetworkHost
      <3> HIDE DEF P
      <3>1. onosIntents \in Seq(P) /\ r.message \in P
        BY <1>0, <2>1 DEF P
      <3>2. onosIntents' \in Seq(P)
        BY <2>1, <3>1
      <3> QED
        BY <3>2 DEF P
    <2> QED
      BY <1>0, <2>1, <2>2
  <1>4. CASE r \in OdlRequest
    <2>1. r.end_point \in IntentId /\ r.message \in OdlMessage
      BY <1>4 DEF OdlRequest
    <2>2. odlIntents' = [odlIntents EXCEPT ![r.end_point] = r.message] /\ UNCHANGED <<hosts, onosIntents>>
      BY <1>0, <2>1 DEF Accepts
    <2>3. odlIntents' \in [IntentId -> {NoIntent} \cup OdlMessage]
      <3> DEFINE M == {NoIntent} \cup OdlMessage
      <3>1. r.message \in M /\ odlIntents \in [IntentId -> M]
        BY <1>0, <2>1
      <3> HIDE DEF M
      <3>2. odlIntents' \in [IntentId -> M]
        BY <2>1, <2>2, <3>1
      <3> QED
        BY <3>2 DEF M
    <2> QED
      BY <1>0, <2>2, <2>3
  <1> QED
    BY <1>1, <1>2, <1>3, <1>4

(* The parts of the type that an action can disturb.                       *)
PhaseTyped ==
    /\ pc \in Running \cup Ended
    /\ pos \in 1 .. Len(program)
    /\ requests \in Seq(Request)
    /\ sent \in 0 .. Len(requests)
    /\ runs \in 0 .. MaxRuns
    /\ pc \in {"checking", "building", "simulating", "generating"} => sent = 0
    /\ pc \in {"checking", "building", "simulating"} => requests = <<>>
    /\ pc = "written" => sent = Len(requests)
    /\ pc = "simulating" => pos = 1
    /\ pc \in Running => runs > 0
HostsTyped ==
    /\ hosts \subseteq NetworkHost /\ snapshot \subseteq NetworkHost
    /\ onosIntents \in Seq(NetworkHost \X NetworkHost)
    /\ odlIntents \in [IntentId -> {NoIntent} \cup OdlMessage]
AddedTyped == added \in Seq(HostValue) /\ ToSet(added) \subseteq ProgramHosts /\ (pc \in Running => AddedOnce(added))

LEMMA TypedParts ==
  RunTyped /\ (pc \in Running => AddedOnce(added)) <=>
      /\ program \in Programs /\ destiny \in {"ONOS", "OPENDAYLIGHT"} /\ source \in {"controller", "other"}
      /\ PhaseTyped /\ HostsTyped /\ AddedTyped
  BY DEF RunTyped, TypeOK, PhaseTyped, HostsTyped, AddedTyped

LEMMA PhaseStep ==
  ASSUME RunTyped, [Next]_cgVars
  PROVE  PhaseTyped'
  <1> USE DEF Running, Ended
  <1>0. PhaseTyped /\ Len(program) \in Nat \ {0} /\ MaxRuns \in Nat /\ UNCHANGED <<program, Request>>
    BY Frame, ProgramFacts, ProgramAssumption DEF RunTyped, TypeOK, PhaseTyped
  <1>1. CASE Start
    BY <1>0, <1>1 DEF Start, PhaseTyped, SentAtStart
  <1>2. CASE CheckIdentifier
    <2>1. pc = "checking" /\ UNCHANGED <<requests, sent, runs>> /\ Advance("building")
      BY <1>2 DEF CheckIdentifier
    <2>2. pos' \in 1 .. Len(program) /\ (pc' = "building" \/ pc' = "checking")
      BY <1>0, <2>1 DEF PhaseTyped, Advance
    <2> QED
      BY <1>0, <2>1, <2>2 DEF PhaseTyped
  <1>3. CASE CheckFails
    BY <1>0, <1>3 DEF CheckFails, PhaseTyped, Raise
  <1>4. CASE BuildIdentifier
    <2>1. pc = "building" /\ UNCHANGED <<requests, sent, runs>> /\ Advance("simulating")
      BY <1>4 DEF BuildIdentifier
    <2>2. /\ pos' \in 1 .. Len(program) /\ (pc' = "building" \/ pc' = "simulating")
          /\ pc' = "simulating" => pos' = 1
      BY <1>0, <2>1 DEF PhaseTyped, Advance
    <2> QED
      BY <1>0, <2>1, <2>2 DEF PhaseTyped
  <1>5. CASE Simulate
    BY <1>0, <1>5 DEF Simulate, PhaseTyped
  <1>6. CASE \E answered \in BOOLEAN, id \in IntentId : GenerateIdentifier(answered, id)
    <2> PICK answered \in BOOLEAN, id \in IntentId : GenerateIdentifier(answered, id)
      BY <1>6
    <2>1. CASE Raise("rejected")
      BY <1>0, <2>1 DEF PhaseTyped, Raise
    <2>2. CASE ~Raise("rejected")
      <3> DEFINE R == Pushed(program[pos], answered, id)
      <3>1. /\ pc = "generating" /\ requests' = requests \o R /\ Advance("posting")
            /\ UNCHANGED <<sent, runs>>
        BY <2>2 DEF GenerateIdentifier
      <3>2. R \in Seq(Request)
        <4>1. pos \in DOMAIN program
          BY <1>0, ProgramFacts DEF RunTyped, TypeOK
        <4> QED
          BY <4>1, PushedTyped
      <3> HIDE DEF R
      <3>3. requests \in Seq(Request) /\ requests' \in Seq(Request) /\ Len(requests') = Len(requests) + Len(R) /\ Len(R) \in Nat
        BY <1>0, <3>1, <3>2 DEF PhaseTyped
      <3>4. sent' \in 0 .. Len(requests') /\ sent' = 0
        BY <1>0, <3>1, <3>3 DEF PhaseTyped
      <3>5. pos' \in 1 .. Len(program) /\ (pc' = "posting" \/ pc' = "generating")
        BY <1>0, <3>1 DEF PhaseTyped, Advance
      <3> QED
        BY <1>0, <3>1, <3>3, <3>4, <3>5 DEF PhaseTyped
    <2> QED
      BY <2>1, <2>2
  <1>7. CASE \E accepted, answered \in BOOLEAN : Send(accepted, answered)
    BY <1>0, <1>7 DEF Send, MaySend, AfterFailure, PhaseTyped
  <1>8. CASE WriteFile
    BY <1>0, <1>8 DEF WriteFile, AllSent, PhaseTyped
  <1>9. CASE \E host \in Network : HostDiscovered(host)
    BY <1>0, <1>9 DEF HostDiscovered, PhaseTyped
  <1>10. CASE UNCHANGED cgVars
    BY <1>0, <1>10 DEF cgVars, PhaseTyped
  <1>11. CASE BuildFails
    BY <1>0, <1>11 DEF BuildFails, PhaseTyped, Raise
  <1> QED
    BY <1>1, <1>2, <1>3, <1>4, <1>5, <1>6, <1>7, <1>8, <1>9, <1>10, <1>11 DEF Next, Run

LEMMA HostsStep ==
  ASSUME RunTyped, [Next]_cgVars
  PROVE  HostsTyped'
  <1>0. HostsTyped
    BY DEF RunTyped, TypeOK, HostsTyped
  <1>1. CASE Start
    <2>1. snapshot' \subseteq NetworkHost
      <3>1. snapshot' = hosts \/ snapshot' \subseteq Network
        BY <1>1 DEF Start
      <3> QED
        BY <1>0, <3>1, ProgramAssumption DEF HostsTyped
    <2>2. UNCHANGED <<hosts, onosIntents, odlIntents>>
      BY <1>1 DEF Start, intents
    <2> QED
      BY <1>0, <2>1, <2>2 DEF HostsTyped
  <1>2. CASE \E accepted, answered \in BOOLEAN : Send(accepted, answered)
    <2> PICK accepted \in BOOLEAN, answered \in BOOLEAN : Send(accepted, answered)
      BY <1>2
    <2>1. snapshot' = snapshot /\ (UNCHANGED <<hosts, onosIntents, odlIntents>> \/ Accepts(requests[sent + 1]))
      BY DEF Send, intents
    <2>2. CASE UNCHANGED <<hosts, onosIntents, odlIntents>>
      BY <1>0, <2>1, <2>2 DEF HostsTyped
    <2>3. CASE Accepts(requests[sent + 1])
      <3>1. requests[sent + 1] \in Request
        BY DEF Send, MaySend, RunTyped, TypeOK
      <3> QED
        BY <1>0, <2>1, <2>3, <3>1, AcceptsTyped DEF HostsTyped
    <2> QED
      BY <2>1, <2>2, <2>3
  <1>3. CASE \E host \in Network : HostDiscovered(host)
    BY <1>0, <1>3, ProgramAssumption DEF HostDiscovered, HostsTyped, intents
  <1>4. CASE (Run /\ ~(\E accepted, answered \in BOOLEAN : Send(accepted, answered))) \/ UNCHANGED cgVars
    <2>1. UNCHANGED <<hosts, snapshot, onosIntents, odlIntents>>
      BY <1>4 DEF Run, cgVars, CheckIdentifier, CheckFails, BuildIdentifier, BuildFails, Simulate, GenerateIdentifier,
                  WriteFile, Raise, intents
    <2> QED
      BY <1>0, <2>1 DEF HostsTyped
  <1> QED
    BY <1>1, <1>2, <1>3, <1>4 DEF Next

LEMMA AddedStep ==
  ASSUME RunTyped, AddedTyped, [Next]_cgVars
  PROVE  AddedTyped'
  <1> USE DEF Running
  <1>0. UNCHANGED <<program, ProgramHosts>>
    BY Frame
  <1>1. CASE Start
    <2>1. added' = <<>>
      BY <1>1 DEF Start
    <2>2. <<>> \in Seq(HostValue) /\ ToSet(<<>>) = {} /\ DOMAIN <<>> = {}
      BY DEF ToSet
    <2> QED
      BY <2>1, <2>2 DEF AddedTyped, AddedOnce
  <1>2. CASE CheckIdentifier
    <2>1. pc \in Running /\ snapshot' = snapshot
      BY <1>2 DEF CheckIdentifier
    <2>2. CASE added' = added
      BY <1>0, <2>1, <2>2 DEF AddedTyped, AddedOnce
    <2>3. CASE added' # added
      <3>1. /\ program[pos].kind = "flow"
            /\ added' = Represented(program[pos].src \o program[pos].dst)[Len(program[pos].src \o program[pos].dst)]
        <4>1. pos \in DOMAIN program
          BY ProgramFacts DEF RunTyped, TypeOK
        <4>2. program[pos].kind = "host" \/ program[pos].kind = "flow"
          BY <4>1, KindFacts DEF RunTyped, TypeOK
        <4> QED
          BY <1>2, <2>3, <4>2 DEF CheckIdentifier
      <3>2. pos \in Identifiers("flow") /\ program \in Programs
        BY <3>1, ProgramFacts DEF RunTyped, TypeOK, Identifiers
      <3>3. added' \in Seq(HostValue) /\ ToSet(added') \subseteq ProgramHosts /\ AddedOnce(added')
        BY <2>1, <3>1, <3>2, RepresentedOnce DEF AddedTyped
      <3> QED
        BY <1>0, <2>1, <3>3 DEF AddedTyped, AddedOnce
    <2> QED
      BY <2>2, <2>3
  <1>3. CASE BuildIdentifier
    <2>1. pc \in Running /\ snapshot' = snapshot
      BY <1>3 DEF BuildIdentifier
    <2>2. CASE added' = added
      BY <1>0, <2>1, <2>2 DEF AddedTyped, AddedOnce
    <2>3. CASE added' # added
      <3>1. program[pos].kind = "host" /\ ~InSimulation(program[pos]) /\ added' = Append(added, program[pos])
        BY <1>3, <2>3 DEF BuildIdentifier
      <3>2. pos \in Identifiers("host") /\ program[pos] \in HostValue /\ program[pos] \in ProgramHosts
        <4>1. pos \in DOMAIN program /\ program \in Programs
          BY ProgramFacts DEF RunTyped, TypeOK
        <4>2. pos \in Identifiers("host") /\ program[pos] \in HostValue
          BY <3>1, <4>1, KindFacts
        <4> QED
          BY <4>2 DEF ProgramHosts
      <3>3. ~HasMac(snapshot \cup ToSet(added), program[pos].mac)
        BY <3>1 DEF InSimulation, Simulated
      <3>4. added' \in Seq(HostValue) /\ ToSet(added') \subseteq ProgramHosts /\ AddedOnce(added')
        BY <2>1, <3>1, <3>2, <3>3, AppendAddsOnce DEF AddedTyped
      <3> QED
        BY <1>0, <2>1, <3>4 DEF AddedTyped, AddedOnce
    <2> QED
      BY <2>2, <2>3
  <1>4. CASE ~Start /\ ~CheckIdentifier /\ ~BuildIdentifier
    <2>1. UNCHANGED <<added, snapshot>> /\ (pc' \in Running => pc \in Running)
      BY <1>4 DEF Next, Run, cgVars, CheckFails, BuildFails, Simulate, GenerateIdentifier, Send, MaySend, AfterFailure, WriteFile, HostDiscovered,
                  Raise, Advance
    <2> QED
      BY <1>0, <2>1 DEF AddedTyped, AddedOnce
  <1> QED
    BY <1>1, <1>2, <1>3, <1>4

LEMMA TypedStep ==
  ASSUME RunTyped, SimulatedOnce, [Next]_cgVars
  PROVE  RunTyped' /\ (pc' \in Running => AddedOnce(added)')
  <1>1. pc \in Running => AddedOnce(added)
    BY DEF SimulatedOnce, AddedOnce
  <1>2. AddedTyped
    BY <1>1 DEF RunTyped, TypeOK, AddedTyped
  <1>3. PhaseTyped' /\ HostsTyped' /\ AddedTyped'
    BY <1>2, PhaseStep, HostsStep, AddedStep
  <1>4. /\ program \in Programs /\ destiny \in {"ONOS", "OPENDAYLIGHT"} /\ source \in {"controller", "other"}
        /\ UNCHANGED <<program, destiny, source>>
    BY Frame DEF RunTyped, TypeOK
  <1>5. /\ program' \in Programs /\ destiny' \in {"ONOS", "OPENDAYLIGHT"} /\ source' \in {"controller", "other"}
    BY <1>4
  <1> QED
    BY <1>3, <1>5 DEF RunTyped, TypeOK, PhaseTyped, HostsTyped, AddedTyped

-----------------------------------------------------------------------------
(* Checker and generator leave every host of the program in the network.   *)
LEMMA BuiltKeeps ==
  ASSUME RunTyped, HostsBuilt, [Next]_cgVars, Built' \in Nat, Built' <= Built,
         \A mac : HasMac(Simulated, mac) => HasMac(Simulated', mac)
  PROVE  HostsBuilt'
  <1>1. UNCHANGED program /\ Identifiers("host")' = Identifiers("host")
    BY Frame
  <1>2. Built \in Nat
    BY ProgramFacts DEF Built, RunTyped, TypeOK
  <1>3. \A i \in 1 .. Built' : i \in 1 .. Built
    BY <1>2
  <1>4. \A i : NoLiteral(i)' <=> NoLiteral(i)
    BY <1>1 DEF NoLiteral
  <1>5. \A set, mac : HasMac(set, mac) <=> \E h \in set : h.mac = mac
    BY DEF HasMac
  <1> QED
    BY <1>1, <1>3, <1>4 DEF HostsBuilt, HasMac

LEMMA BuildStep ==
  ASSUME RunTyped, HostsBuilt, BuildIdentifier
  PROVE  HostsBuilt'
  <1> DEFINE x == program[pos]
  <1>0. /\ pc = "building" /\ pos \in 1 .. Len(program) /\ Len(program) \in Nat \ {0} /\ program \in Programs
        /\ pos \in DOMAIN program /\ DOMAIN program = 1 .. Len(program)
        /\ Identifiers("host")' = Identifiers("host") /\ UNCHANGED <<program, snapshot>>
    BY ProgramFacts DEF BuildIdentifier, RunTyped, TypeOK, Identifiers
  <1>1. Built = pos - 1 /\ Built' = pos
    BY <1>0 DEF BuildIdentifier, Built, Advance
  <1>3. /\ x.kind = "host" \/ x.kind = "flow"
        /\ pos \in Identifiers("host") <=> x.kind = "host"
        /\ pos \in Identifiers("flow") <=> x.kind = "flow"
    BY <1>0, KindFacts
  <1>4. \/ x.kind = "host" /\ ~InSimulation(x) /\ added' = Append(added, x)
        \/ x.kind = "host" /\ InSimulation(x) /\ added' = added
        \/ /\ x.kind = "flow" /\ added' = added
           /\ ~\E e \in ToSet(x.src \o x.dst) : e.kind = "literal"
    <2>1. CASE x.kind = "host" /\ ~InSimulation(x)
      <3>1. added' = Append(added, x)
        BY <2>1, Zenon DEF BuildIdentifier
      <3> QED
        BY <2>1, <3>1
    <2>2. CASE x.kind = "host" /\ InSimulation(x)
      <3>1. added' = added
        BY <2>2 DEF BuildIdentifier
      <3> QED
        BY <2>2, <3>1
    <2>3. CASE x.kind = "flow"
      <3>1. x.kind # "host"
        BY <2>3
      <3>2. ~\E e \in ToSet(x.src \o x.dst) : e.kind = "literal"
        BY <2>3, <3>1 DEF BuildIdentifier
      <3>3. added' = added
        BY <2>3, <3>1 DEF BuildIdentifier
      <3> QED
        BY <2>3, <3>2, <3>3
    <2> QED
      BY <1>3, <2>1, <2>2, <2>3
  <1>5. ToSet(added) \subseteq ToSet(added') /\ (x.kind = "host" /\ ~InSimulation(x) => x \in ToSet(added'))
    <2>1. CASE added' = added
      BY <1>4, <2>1
    <2>2. CASE x.kind = "host" /\ added' = Append(added, x)
      <3>1. added \in Seq(HostValue)
        BY DEF RunTyped
      <3>2. x \in HostValue
        BY <1>0, <2>2, KindFacts
      <3> HIDE DEF x
      <3>3. Len(added) + 1 \in DOMAIN added' /\ added'[Len(added) + 1] = x /\ DOMAIN added \subseteq DOMAIN added'
            /\ \A i \in DOMAIN added : added'[i] = added[i]
        BY <2>2, <3>1, <3>2
      <3> QED
        BY <3>3 DEF ToSet
    <2> QED
      BY <1>4, <2>1, <2>2
  <1>6. \A mac : HasMac(Simulated, mac) => HasMac(Simulated', mac)
    BY <1>0, <1>5 DEF HasMac, Simulated
  <1>7. x.kind = "host" => HasMac(Simulated', x.mac)
    <2>1. CASE InSimulation(x)
      BY <1>6, <2>1 DEF InSimulation
    <2>2. CASE ~InSimulation(x)
      BY <1>0, <1>5, <2>2 DEF HasMac, Simulated
    <2> QED
      BY <2>1, <2>2
  <1>8. NoLiteral(pos)
    <2> SUFFICES ASSUME x.kind = "flow", NEW e \in ToSet(x.src \o x.dst) PROVE e.kind = "host"
      BY DEF NoLiteral
    <2>1. e.kind # "literal"
      BY <1>4
    <2>2. e \in HostValue \/ (e \in LiteralValue /\ e.kind = "literal")
      BY <1>0, <1>3, EndFacts
    <2> QED
      BY <2>1, <2>2 DEF HostValue
  <1> SUFFICES ASSUME NEW i \in 1 .. Built'
               PROVE  (i \in Identifiers("host") => HasMac(Simulated', program[i].mac)) /\ NoLiteral(i)
    BY <1>0 DEF HostsBuilt, NoLiteral, HasMac
  <1>9. CASE i = pos
    BY <1>3, <1>7, <1>8, <1>9
  <1>10. CASE i # pos
    <2>1. i \in 1 .. Built
      BY <1>0, <1>1, <1>10
    <2> QED
      BY <1>6, <2>1 DEF HostsBuilt
  <1> QED
    BY <1>9, <1>10

LEMMA HostsBuiltStep ==
  ASSUME RunTyped, HostsBuilt, [Next]_cgVars
  PROVE  HostsBuilt'
  <1>0. /\ UNCHANGED program /\ Len(program) \in Nat \ {0} /\ pos \in 1 .. Len(program)
        /\ Built \in Nat
    BY Frame, ProgramFacts DEF RunTyped, TypeOK, Built
  <1>1. CASE Built' = 0
    BY <1>1 DEF HostsBuilt
  <1>2. CASE Start \/ CheckIdentifier \/ CheckFails
    <2>1. Built' = 0
      <3>1. CASE Start
        BY <3>1 DEF Start, Built
      <3>2. CASE CheckFails
        BY <3>2 DEF CheckFails, Raise, Built
      <3>3. CASE CheckIdentifier
        <4>1. pc = "checking" /\ Advance("building")
          BY <3>3 DEF CheckIdentifier
        <4>2. \/ pc' = "checking"
              \/ pc' = "building" /\ pos' = 1
          BY <4>1 DEF Advance
        <4> QED
          BY <4>2 DEF Built
      <3> QED
        BY <1>2, <3>1, <3>2, <3>3
    <2> QED
      BY <1>1, <2>1
  <1>3. CASE BuildIdentifier
    BY <1>3, BuildStep
  <1>4. CASE ~Start /\ ~CheckIdentifier /\ ~CheckFails /\ ~BuildIdentifier
    <2>1. /\ UNCHANGED <<snapshot, added>>
          /\ \/ UNCHANGED <<pc, pos>>
             \/ pc' \in {"rejected", "failed"}
             \/ /\ pc \in {"simulating", "generating", "posting", "written"}
                /\ pc' \in {"simulating", "generating", "posting", "written"}
      BY <1>4 DEF Next, Run, cgVars, BuildFails, Simulate, GenerateIdentifier, Send, MaySend, AfterFailure, WriteFile, HostDiscovered,
                  Raise, Advance
    <2>2. Built' = 0 \/ Built' = Built
      BY <1>0, <2>1 DEF Built
    <2>3. Simulated' = Simulated
      BY <2>1 DEF Simulated
    <2> QED
      BY <1>0, <1>1, <2>2, <2>3, BuiltKeeps
  <1> QED
    BY <1>2, <1>3, <1>4

LEMMA AllBuilt ==
  ASSUME RunTyped, HostsBuilt, pc \in {"simulating", "generating", "posting", "written"}
  PROVE  \A i \in DOMAIN program : NoLiteral(i) /\ (i \in Identifiers("host") => HasMac(Simulated, program[i].mac))
  <1>1. Built = Len(program) /\ DOMAIN program = 1 .. Len(program)
    BY ProgramFacts DEF Built, RunTyped, TypeOK
  <1> QED
    BY <1>1 DEF HostsBuilt

LEMMA SimulatedStep ==
  ASSUME RunTyped, SimulatedOnce, HostsBuilt, [Next]_cgVars
  PROVE  SimulatedOnce'
  <1>1. RunTyped' /\ HostsBuilt' /\ (pc' \in Running => AddedOnce(added)')
    BY TypedStep, HostsBuiltStep
  <1>2. pc' \in {"simulating", "generating", "posting", "written"} =>
           \A i \in Identifiers("host")' : HasMac(Simulated, program[i].mac)'
    <2> SUFFICES ASSUME (pc \in {"simulating", "generating", "posting", "written"})'
                 PROVE  (\A i \in Identifiers("host") : HasMac(Simulated, program[i].mac))'
      OBVIOUS
    <2>1. (Built = Len(program) /\ DOMAIN program = 1 .. Len(program))'
      <3>1. (program \in Programs)'
        BY <1>1 DEF RunTyped, TypeOK
      <3>2. (Built = Len(program))'
        BY DEF Built
      <3>3. (Len(program) \in Nat \ {0} /\ DOMAIN program = 1 .. Len(program))'
        BY <3>1, Frame, ProgramFacts
      <3> QED
        BY <3>2, <3>3
    <2>2. (\A i \in Identifiers("host") : i \in 1 .. Built)'
      BY <2>1 DEF Identifiers
    <2> QED
      BY <1>1, <2>2 DEF HostsBuilt
  <1> QED
    BY <1>1, <1>2 DEF SimulatedOnce, AddedOnce

-----------------------------------------------------------------------------
(* What a step does to the requests.                                       *)
Generates(answered, id) == GenerateIdentifier(answered, id) /\ ~Raise("rejected")
Sends == Send(TRUE, TRUE)

LEMMA GenerateFacts ==
  ASSUME RunTyped, NEW answered, NEW id \in IntentId, Generates(answered, id)
  PROVE  LET R == Pushed(program[pos], answered, id)
         IN  /\ pc = "generating" /\ pos \in DOMAIN program /\ pos \in 1 .. Len(program)
             /\ Generated = pos - 1 /\ Generated' = pos
             /\ pc' \in {"generating", "posting"}
             /\ sent = 0 /\ sent' = 0
             /\ R \in Seq(Request) /\ requests' = requests \o R
             /\ UNCHANGED <<program, destiny, source, hosts, onosIntents, odlIntents, snapshot, added, runs, before>>
             /\ destiny = "OPENDAYLIGHT" /\ program[pos].kind = "host" => DefinedForOpendaylight(program[pos])
  <1> DEFINE R == Pushed(program[pos], answered, id)
  <1>1. /\ pc = "generating" /\ requests' = requests \o R /\ Advance("posting")
        /\ UNCHANGED <<program, destiny, source, hosts, onosIntents, odlIntents, snapshot, added, sent, runs, before>>
    BY DEF Generates, GenerateIdentifier, intents
  <1>2. destiny = "OPENDAYLIGHT" /\ program[pos].kind = "host" => DefinedForOpendaylight(program[pos])
    BY DEF Generates, GenerateIdentifier
  <1>3. pos \in 1 .. Len(program) /\ pos \in DOMAIN program /\ Len(program) \in Nat \ {0} /\ sent = 0
    BY <1>1, ProgramFacts DEF RunTyped, TypeOK
  <1>4. R \in Seq(Request)
    BY <1>3, PushedTyped
  <1>5. \/ pc' = "generating" /\ pos' = pos + 1
        \/ pc' = "posting" /\ pos = Len(program)
    BY <1>1, <1>3 DEF Advance
  <1>6. Generated = pos - 1 /\ Generated' = pos
    <2>1. CASE pc' = "generating" /\ pos' = pos + 1
      BY <1>1, <1>3, <2>1 DEF Generated
    <2>2. CASE pc' = "posting" /\ pos = Len(program)
      BY <1>1, <1>3, <2>2 DEF Generated
    <2> QED
      BY <1>5, <2>1, <2>2
  <1> HIDE DEF R
  <1>7. /\ pc = "generating" /\ pos \in DOMAIN program /\ pos \in 1 .. Len(program)
        /\ Generated = pos - 1 /\ Generated' = pos
        /\ pc' \in {"generating", "posting"}
        /\ sent = 0 /\ sent' = 0
        /\ R \in Seq(Request) /\ requests' = requests \o R
        /\ UNCHANGED <<program, destiny, source, hosts, onosIntents, odlIntents, snapshot, added, runs, before>>
        /\ destiny = "OPENDAYLIGHT" /\ program[pos].kind = "host" => DefinedForOpendaylight(program[pos])
    BY <1>1, <1>2, <1>3, <1>4, <1>5, <1>6
  <1> QED
    BY <1>7 DEF R

LEMMA SendFacts ==
  ASSUME RunTyped, Sends
  PROVE  /\ pc = "posting" /\ pc' = "posting" /\ sent \in Nat /\ sent < Len(requests) /\ sent' = sent + 1
         /\ UNCHANGED <<program, destiny, source, requests, snapshot, added, runs, before>>
         /\ Generated = Len(program) /\ Generated' = Len(program)
         /\ requests[sent + 1] \in Request /\ Accepts(requests[sent + 1])
  <1>1. /\ pc = "posting" /\ pc' = "posting" /\ sent < Len(requests) /\ sent' = sent + 1
        /\ UNCHANGED <<program, destiny, source, requests, snapshot, added, runs, before>>
        /\ Accepts(requests[sent + 1])
    BY DEF Sends, Send, MaySend
  <1>2. requests[sent + 1] \in Request /\ sent \in Nat
    BY <1>1 DEF RunTyped, TypeOK
  <1> QED
    BY <1>1, <1>2 DEF Generated

(* Nothing is generated or sent.                                           *)
Waits ==
    /\ UNCHANGED <<requests, sent>> /\ Generated' = Generated
    /\ \/ pc' = pc
       \/ pc \in {"checking", "building"} /\ pc' \in {"building", "simulating"}
       \/ pc = "simulating" /\ pc' = "generating"
       \/ pc = "posting" /\ pc' = "written" /\ sent = Len(requests)

(* There are no requests yet, or the run has ended without success.        *)
Forgets ==
    /\ pc' \in {"checking", "rejected", "failed"}
    /\ requests' = requests \/ requests' = <<>>
    /\ Generated' = 0

LEMMA RequestSteps ==
  ASSUME RunTyped, [Next]_cgVars
  PROVE  \/ \E answered \in BOOLEAN, id \in IntentId : Generates(answered, id)
         \/ Sends
         \/ Waits
         \/ Forgets
  <1>0. Len(program) \in Nat \ {0} /\ program' = program /\ pos \in 1 .. Len(program)
    BY Frame, ProgramFacts DEF RunTyped, TypeOK
  <1>1. CASE Raise("rejected")
    BY <1>1 DEF Raise, Forgets, Generated
  <1>2. CASE Start
    BY <1>2 DEF Start, Forgets, Generated
  <1>3. CASE CheckIdentifier
    <2>1. pc = "checking" /\ Advance("building") /\ UNCHANGED <<requests, sent>>
      BY <1>3 DEF CheckIdentifier
    <2>2. pc' = pc \/ pc' = "building"
      BY <2>1 DEF Advance
    <2> QED
      BY <2>1, <2>2 DEF Waits, Generated
  <1>4. CASE BuildIdentifier
    <2>1. pc = "building" /\ Advance("simulating") /\ UNCHANGED <<requests, sent>>
      BY <1>4 DEF BuildIdentifier
    <2>2. pc' = pc \/ pc' = "simulating"
      BY <2>1 DEF Advance
    <2> QED
      BY <2>1, <2>2 DEF Waits, Generated
  <1>5. CASE Simulate
    <2>1. pos' = 1
      BY <1>5 DEF Simulate, RunTyped
    <2> QED
      BY <1>5, <2>1 DEF Simulate, Waits, Generated
  <1>6. CASE \E accepted, answered \in BOOLEAN : Send(accepted, answered)
    <2> PICK accepted \in BOOLEAN, answered \in BOOLEAN : Send(accepted, answered)
      BY <1>6
    <2>1. CASE accepted /\ answered
      <3>1. accepted = TRUE /\ answered = TRUE
        BY <2>1
      <3>2. Sends
        BY <3>1 DEF Sends
      <3> QED
        BY <3>2
    <2>2. CASE ~(accepted /\ answered)
      BY <2>2 DEF Send, AfterFailure, Forgets, Generated
    <2> QED
      BY <2>1, <2>2
  <1>7. CASE WriteFile
    BY <1>0, <1>7 DEF WriteFile, AllSent, Waits, Generated
  <1>8. CASE (\E host \in Network : HostDiscovered(host)) \/ UNCHANGED cgVars
    <2>1. UNCHANGED <<requests, sent, pc, pos>>
      BY <1>8 DEF HostDiscovered, cgVars
    <2> QED
      BY <1>0, <2>1 DEF Waits, Generated
  <1> QED
    BY <1>1, <1>2, <1>3, <1>4, <1>5, <1>6, <1>7, <1>8 DEF Next, Run, CheckFails, BuildFails, Generates

-----------------------------------------------------------------------------
(* Hosts before intents.                                                   *)

(* The controller forgets no host.                                         *)
LEMMA HostsGrow ==
  ASSUME [Next]_cgVars
  PROVE  hosts \subseteq hosts' /\ \A mac : HasMac(hosts, mac) => HasMac(hosts', mac)
  <1>1. \/ hosts' = hosts
        \/ \E host \in Network : HostDiscovered(host)
        \/ \E r : Accepts(r)
    BY DEF Next, Run, cgVars, Start, CheckIdentifier, CheckFails, BuildIdentifier, BuildFails, Simulate, GenerateIdentifier, Send,
           WriteFile, Raise
  <1>2. CASE \E host \in Network : HostDiscovered(host)
    BY <1>2 DEF HostDiscovered, HasMac
  <1>3. CASE \E r : Accepts(r)
    <2> PICK r : Accepts(r)
      BY <1>3
    <2>1. hosts' = hosts \/ hosts' = hosts \cup {r.message}
      BY DEF Accepts
    <2> QED
      BY <2>1 DEF HasMac
  <1> QED
    BY <1>1, <1>2, <1>3 DEF HasMac

LEMMA SnapshotStep ==
  ASSUME SnapshotIsKnown, [Next]_cgVars
  PROVE  SnapshotIsKnown'
  <1>1. CASE Start
    <2>1. source = "controller" => snapshot' = hosts /\ hosts' = hosts
      BY <1>1 DEF Start
    <2>2. source' = source
      BY <1>1 DEF Start
    <2> QED
      BY <2>1, <2>2 DEF SnapshotIsKnown
  <1>2. CASE ~Start
    <2>1. snapshot' = snapshot /\ source' = source
      BY <1>2 DEF Next, Run, cgVars, CheckIdentifier, CheckFails, BuildIdentifier, BuildFails, Simulate, GenerateIdentifier, Send,
             WriteFile, HostDiscovered, Raise
    <2> SUFFICES ASSUME source = "controller", NEW mac \in Mac, HasMac(snapshot, mac)
                 PROVE  HasMac(hosts', mac)
      BY <2>1 DEF SnapshotIsKnown, HasMac
    <2> QED
      BY HostsGrow DEF SnapshotIsKnown
  <1> QED
    BY <1>1, <1>2

(* The ends of the flow that is generated have been generated before.      *)
LEMMA EndsGenerated ==
  ASSUME RunTyped, HostsBuilt, pc = "generating", pos \in Identifiers("flow")
  PROVE  \A e \in ToSet(program[pos].src \o program[pos].dst) :
            \E j \in 1 .. pos - 1 : j \in Identifiers("host") /\ program[j].mac = e.mac
  <1> SUFFICES ASSUME NEW e \in ToSet(program[pos].src \o program[pos].dst)
               PROVE  \E j \in 1 .. pos - 1 : j \in Identifiers("host") /\ program[j].mac = e.mac
    OBVIOUS
  <1>1. pos \in DOMAIN program /\ pos \in Nat /\ program \in Programs /\ program[pos].kind = "flow"
        /\ DOMAIN program = 1 .. Len(program)
    BY ProgramFacts DEF RunTyped, TypeOK, Identifiers
  <1>2. e.kind = "host"
    BY <1>1, AllBuilt DEF NoLiteral
  <1>3. PICK j \in Identifiers("host") : j < pos /\ program[j] = e
    BY <1>1, <1>2, EndFacts
  <1>4. j \in 1 .. pos - 1
    BY <1>1, <1>3 DEF Identifiers
  <1> QED
    BY <1>3, <1>4

(* Which ends the generated requests are about.                            *)
Earlier(mac) == \E j \in 1 .. pos - 1 : j \in Identifiers("host") /\ program[j].mac = mac
EarlierEnd(end) == \E mac : Earlier(mac) /\ end = Named(mac)
LEMMA PushedFacts ==
  ASSUME RunTyped, HostsBuilt, NEW answered, NEW id \in IntentId, Generates(answered, id),
         NEW R, R = Pushed(program[pos], answered, id)
  PROVE  /\ destiny = "ONOS" /\ pos \in Identifiers("host") =>
                \/ R = <<>> /\ Address(program[pos]) \in hosts
                \/ Len(R) = 1 /\ R[1].end_point = "hosts" /\ R[1].message = Address(program[pos])
         /\ destiny = "ONOS" => \A k \in DOMAIN R : R[k].end_point = "intents" => \A n \in {1, 2} :
                EarlierEnd(R[k].message[n])
         /\ destiny = "OPENDAYLIGHT" =>
                /\ pos \in Identifiers("host") => R = <<>> /\ HasMac(snapshot, program[pos].first)
                /\ pos \in Identifiers("flow") =>
                       R = <<[end_point |-> id, message |-> <<Macs(program[pos].src), Macs(program[pos].dst)>>]>>
                /\ \A k \in DOMAIN R : \A n \in {1, 2} : \A mac \in ToSet(R[k].message[n]) : Earlier(mac)
  <1> DEFINE x == program[pos]
  <1>0. /\ pc = "generating" /\ pos \in DOMAIN program
        /\ destiny = "OPENDAYLIGHT" /\ x.kind = "host" => DefinedForOpendaylight(x)
    BY GenerateFacts
  <1>1. /\ x.kind = "host" \/ x.kind = "flow"
        /\ pos \in Identifiers("host") <=> x.kind = "host"
        /\ pos \in Identifiers("flow") <=> x.kind = "flow"
    BY <1>0, KindFacts DEF RunTyped, TypeOK
  <1>2. ASSUME x.kind = "flow"
        PROVE  /\ x.src \in Ends /\ x.dst \in Ends
               /\ \A k \in DOMAIN x.src : Earlier(x.src[k].mac)
               /\ \A k \in DOMAIN x.dst : Earlier(x.dst[k].mac)
    <2>1. pos \in Identifiers("flow")
      BY <1>1, <1>2
    <2>2. \A e \in ToSet(x.src \o x.dst) : Earlier(e.mac)
      BY <1>0, <2>1, EndsGenerated DEF Earlier
    <2>3. /\ x.src \in Ends /\ x.dst \in Ends
          /\ \A k \in DOMAIN x.src : x.src[k] \in ToSet(x.src \o x.dst)
          /\ \A k \in DOMAIN x.dst : x.dst[k] \in ToSet(x.src \o x.dst)
      BY <2>1, EndFacts DEF RunTyped, TypeOK
    <2> HIDE DEF x
    <2> QED
      BY <2>2, <2>3
  <1>r. R = Pushed(x, answered, id)
    OBVIOUS
  <1> HIDE DEF x
  <1> SUFFICES /\ destiny = "ONOS" /\ pos \in Identifiers("host") =>
                      \/ R = <<>> /\ Address(x) \in hosts
                      \/ Len(R) = 1 /\ R[1].end_point = "hosts" /\ R[1].message = Address(x)
               /\ destiny = "ONOS" => \A k \in DOMAIN R : R[k].end_point = "intents" =>
                      \A n \in {1, 2} : EarlierEnd(R[k].message[n])
               /\ destiny = "OPENDAYLIGHT" =>
                      /\ pos \in Identifiers("host") => R = <<>> /\ HasMac(snapshot, x.first)
                      /\ pos \in Identifiers("flow") =>
                             R = <<[end_point |-> id, message |-> <<Macs(x.src), Macs(x.dst)>>]>>
                      /\ \A k \in DOMAIN R : \A n \in {1, 2} : \A mac \in ToSet(R[k].message[n]) : Earlier(mac)
    BY DEF x
  <1>3. CASE destiny = "ONOS" /\ x.kind = "host"
    <2>1. R = <<>> => Address(x) \in hosts
      BY <1>3, <1>r DEF Pushed, DefinedForOnos
    <2>2. ASSUME R # <<>>
          PROVE  Len(R) = 1 /\ DOMAIN R = {1} /\ R[1].end_point = "hosts" /\ R[1].message = Address(x)
      <3>1. R = <<[end_point |-> "hosts", message |-> Address(x)]>>
        BY <1>3, <2>2, <1>r DEF Pushed
      <3>2. Len(R) = 1 /\ DOMAIN R = {1} /\ R[1].end_point = "hosts" /\ R[1].message = Address(x)
        BY <3>1
      <3> QED
        BY <3>2
    <2>3. pos \notin Identifiers("flow") /\ destiny # "OPENDAYLIGHT"
      BY <1>1, <1>3
    <2>4. \A k \in DOMAIN R : R[k].end_point # "intents"
      <3>1. CASE R = <<>>
        BY <3>1
      <3>2. CASE R # <<>>
        BY <2>2, <3>2
      <3> QED
        BY <3>1, <3>2
    <2>5. /\ (R = <<>> /\ Address(x) \in hosts) \/ (Len(R) = 1 /\ R[1].end_point = "hosts" /\ R[1].message = Address(x))
          /\ \A k \in DOMAIN R : R[k].end_point # "intents"
      BY <2>1, <2>2, <2>4
    <2> QED
      BY <2>3, <2>5
  <1>4. CASE destiny = "ONOS" /\ x.kind = "flow"
    <2> DEFINE a == Len(x.src)
               b == Len(x.dst)
    <2>1. R = HostToHost(x)
      BY <1>4, <1>r DEF Pushed
    <2>2. /\ DOMAIN R = 1 .. a * b
          /\ \A k \in 1 .. a * b : R[k].message = IntentOf(<<x.src[((k - 1) \div b) + 1].mac, x.dst[((k - 1) % b) + 1].mac>>)
      <3>1. /\ DOMAIN HostToHost(x) = 1 .. a * b
            /\ \A k \in 1 .. a * b :
                  HostToHost(x)[k] = [end_point |-> "intents",
                                      message |-> IntentOf(<<x.src[((k - 1) \div b) + 1].mac, x.dst[((k - 1) % b) + 1].mac>>)]
        <4>1. x.src \in Ends /\ x.dst \in Ends
          BY <1>2, <1>4
        <4> HIDE DEF a, b
        <4> QED
          BY <4>1, HostToHostFacts DEF a, b
      <3> HIDE DEF a, b
      <3> SUFFICES ASSUME NEW k \in 1 .. a * b
                   PROVE  R[k].message = IntentOf(<<x.src[((k - 1) \div b) + 1].mac, x.dst[((k - 1) % b) + 1].mac>>)
        BY <2>1, <3>1, Zenon
      <3> DEFINE s == x.src[((k - 1) \div b) + 1].mac
                 d == x.dst[((k - 1) % b) + 1].mac
      <3>2. R[k] = [end_point |-> "intents", message |-> IntentOf(<<s, d>>)]
        BY <2>1, <3>1, Zenon
      <3> HIDE DEF s, d
      <3>3. R[k].message = IntentOf(<<s, d>>)
        BY <3>2
      <3> QED
        BY <3>3 DEF s, d
    <2>3. a \in Nat /\ b \in Nat /\ DOMAIN x.src = 1 .. a /\ DOMAIN x.dst = 1 .. b
      BY <1>2, <1>4 DEF Ends
    <2> HIDE DEF a, b
    <2>4. ASSUME NEW k \in DOMAIN R, NEW n \in {1, 2}
          PROVE  EarlierEnd(R[k].message[n])
      <3>1. k \in 1 .. a * b
        BY <2>2
      <3>2. ((k - 1) \div b) + 1 \in 1 .. a /\ ((k - 1) % b) + 1 \in 1 .. b
        BY <2>3, <3>1, IndexOfPair
      <3>3. R[k].message = IntentOf(<<x.src[((k - 1) \div b) + 1].mac, x.dst[((k - 1) % b) + 1].mac>>)
        BY <2>2, <3>1
      <3> DEFINE s == ((k - 1) \div b) + 1
                 d == ((k - 1) % b) + 1
      <3>4. s \in DOMAIN x.src /\ d \in DOMAIN x.dst
        BY <2>3, <3>2
      <3>5. R[k].message = IntentOf(<<x.src[s].mac, x.dst[d].mac>>)
        BY <3>3
      <3> HIDE DEF s, d
      <3>6. R[k].message[n] = Named(x.src[s].mac) \/ R[k].message[n] = Named(x.dst[d].mac)
        BY <3>5 DEF IntentOf
      <3> QED
        BY <1>2, <1>4, <3>4, <3>6 DEF EarlierEnd
    <2>5. pos \notin Identifiers("host") /\ destiny # "OPENDAYLIGHT"
      BY <1>1, <1>4
    <2> QED
      BY <2>4, <2>5
  <1>5. CASE destiny = "OPENDAYLIGHT" /\ x.kind = "host"
    <2>1. R = <<>> /\ HasMac(snapshot, x.first)
      BY <1>0, <1>5, <1>r DEF Pushed, DefinedForOpendaylight
    <2>2. DOMAIN R = {} /\ pos \notin Identifiers("flow") /\ destiny # "ONOS"
      BY <1>1, <1>5, <2>1
    <2> QED
      BY <2>1, <2>2
  <1>6. CASE destiny = "OPENDAYLIGHT" /\ x.kind = "flow"
    <2>1. R = <<[end_point |-> id, message |-> <<Macs(x.src), Macs(x.dst)>>]>>
      BY <1>6, <1>r DEF Pushed
    <2>2. ASSUME NEW ends \in {x.src, x.dst}, NEW mac \in ToSet(Macs(ends))
          PROVE  Earlier(mac)
      <3>1. PICK i \in DOMAIN ends : mac = ends[i].mac
        BY DEF ToSet, Macs
      <3> QED
        BY <1>2, <1>6, <3>1
    <2>3. DOMAIN R = {1} /\ R[1].message[1] = Macs(x.src) /\ R[1].message[2] = Macs(x.dst)
      BY <2>1
    <2>4. pos \notin Identifiers("host") /\ destiny # "ONOS"
      BY <1>1, <1>6
    <2>5. \A k \in DOMAIN R : \A n \in {1, 2} : \A mac \in ToSet(R[k].message[n]) : Earlier(mac)
      BY <2>2, <2>3
    <2> QED
      BY <2>1, <2>4, <2>5
  <1> QED
    BY <1>1, <1>3, <1>4, <1>5, <1>6 DEF RunTyped

(* What the controller has done with a request of ONOS.                    *)
LEMMA OnosAccepts ==
  ASSUME RunTyped, NEW r \in Request, destiny = "ONOS", Accepts(r)
  PROVE  /\ odlIntents' = odlIntents
         /\ \/ /\ r.end_point = "hosts" /\ r.message \in NetworkHost
               /\ onosIntents' = onosIntents /\ r.message \in hosts'
            \/ /\ r.end_point = "intents" /\ r.message \in NetworkHost \X NetworkHost /\ r = [end_point |-> "intents", message |-> r.message]
               /\ onosIntents' = Append(onosIntents, r.message) /\ hosts' = hosts
  <1>1. r \in OnosRequest
    BY DEF Request
  <1>2. CASE r \in [end_point : {"hosts"}, message : NetworkHost]
    <2>1. r.end_point = "hosts" /\ r.message \in NetworkHost
      BY <1>2
    <2>2. r.message \in hosts' /\ UNCHANGED <<onosIntents, odlIntents>>
      BY <2>1 DEF Accepts, intents
    <2> QED
      BY <2>1, <2>2
  <1>3. CASE r \in [end_point : {"intents"}, message : NetworkHost \X NetworkHost]
    <2>1. r.end_point = "intents" /\ r.message \in NetworkHost \X NetworkHost /\ r = [end_point |-> "intents", message |-> r.message]
      BY <1>3
    <2> QED
      BY <2>1 DEF Accepts
  <1> QED
    BY <1>1, <1>2, <1>3 DEF OnosRequest

LEMMA OdlAccepts ==
  ASSUME RunTyped, NEW r \in Request, destiny = "OPENDAYLIGHT", Accepts(r)
  PROVE  /\ UNCHANGED <<onosIntents, hosts>>
         /\ r.end_point \in IntentId /\ r.message \in OdlMessage
         /\ odlIntents' = [odlIntents EXCEPT ![r.end_point] = r.message]
  <1>1. r \in OdlRequest
    BY DEF Request
  <1>2. r.end_point \in IntentId /\ r.message \in OdlMessage
    BY <1>1 DEF OdlRequest
  <1> QED
    BY <1>2, ProgramAssumption DEF Accepts

(* Only a request of the run changes the controller's intents.             *)
LEMMA IntentSteps ==
  ASSUME RunTyped, [Next]_cgVars
  PROVE  \/ UNCHANGED <<onosIntents, odlIntents>>
         \/ /\ pc = "posting" /\ sent \in Nat /\ sent + 1 \in DOMAIN requests /\ sent < Len(requests)
            /\ requests[sent + 1] \in Request /\ Accepts(requests[sent + 1])
            /\ \/ Sends
               \/ pc' = "failed"
            /\ UNCHANGED <<runs, before, destiny, source>>
  <1>1. CASE \E accepted, answered \in BOOLEAN : Send(accepted, answered)
    <2> PICK accepted \in BOOLEAN, answered \in BOOLEAN : Send(accepted, answered)
      BY <1>1
    <2>1. CASE ~accepted
      BY <2>1 DEF Send, intents
    <2>2. CASE accepted
      <3>1. pc = "posting" /\ sent < Len(requests) /\ Accepts(requests[sent + 1])
            /\ UNCHANGED <<runs, before, destiny, source>>
        BY <2>2 DEF Send, MaySend
      <3>2. sent \in Nat /\ requests[sent + 1] \in Request /\ sent + 1 \in DOMAIN requests
        BY <3>1 DEF RunTyped, TypeOK
      <3>3. Sends \/ pc' = "failed"
        <4>1. CASE answered
          <5>1. accepted = TRUE /\ answered = TRUE
            BY <2>2, <4>1
          <5> QED
            BY <5>1 DEF Sends
        <4>2. CASE ~answered
          BY <4>2 DEF Send, AfterFailure
        <4> QED
          BY <4>1, <4>2
      <3> QED
        BY <3>1, <3>2, <3>3
    <2> QED
      BY <2>1, <2>2
  <1>2. CASE ~\E accepted, answered \in BOOLEAN : Send(accepted, answered)
    BY <1>2 DEF Next, Run, cgVars, Start, CheckIdentifier, CheckFails, BuildIdentifier, BuildFails, Simulate, GenerateIdentifier,
           WriteFile, HostDiscovered, Raise, intents
  <1> QED
    BY <1>1, <1>2

(* What is asked for stays asked for, or has been created.                 *)
ProvidedNext(n, host) ==
    \/ host \in hosts'
    \/ \E k \in sent' + 1 .. n : requests'[k].end_point = "hosts" /\ requests'[k].message = host
EndProvidedNext(n, end) ==
    \E i \in Identifiers("host") : end = Named(program[i].mac) /\ ProvidedNext(n, Address(program[i]))

LEMMA ProvidedStays ==
  ASSUME RunTyped, [Next]_cgVars, NEW n \in Nat, n <= Len(requests), NEW host, Provided(n, host),
         destiny = "ONOS",
         Sends \/ (sent' = sent /\ \A k \in 1 .. n : requests'[k] = requests[k])
  PROVE  ProvidedNext(n, host)
  <1>0. sent \in Nat /\ Len(requests) \in Nat
    BY DEF RunTyped, TypeOK
  <1>1. CASE host \in hosts
    BY <1>1, HostsGrow DEF ProvidedNext
  <1>2. CASE AskedBefore(n, host)
    <2> PICK k \in sent + 1 .. n : requests[k].end_point = "hosts" /\ requests[k].message = host
      BY <1>2 DEF AskedBefore
    <2>1. CASE sent' = sent /\ \A i \in 1 .. n : requests'[i] = requests[i]
      BY <1>0, <2>1 DEF ProvidedNext
    <2>2. CASE Sends
      <3>1. sent' = sent + 1 /\ requests' = requests /\ requests[sent + 1] \in Request /\ Accepts(requests[sent + 1])
        BY <2>2, SendFacts
      <3>2. CASE k = sent + 1
        <4>1. host \in hosts'
          BY <3>1, <3>2, OnosAccepts
        <4> QED
          BY <4>1 DEF ProvidedNext
      <3>3. CASE k # sent + 1
        <4>1. k \in sent' + 1 .. n
          BY <1>0, <3>1, <3>3
        <4> QED
          BY <3>1, <4>1 DEF ProvidedNext
      <3> QED
        BY <3>2, <3>3
    <2> QED
      BY <2>1, <2>2
  <1> QED
    BY <1>1, <1>2 DEF Provided

LEMMA HostsProvidedStep ==
  ASSUME RunTyped, HostsBuilt, HostsProvided, [Next]_cgVars
  PROVE  HostsProvided'
  <1>0. /\ UNCHANGED <<program, destiny>> /\ Identifiers("host")' = Identifiers("host")
        /\ sent \in Nat /\ sent <= Len(requests) /\ requests \in Seq(Request) /\ Len(requests) \in Nat
        /\ Generated \in Nat
    BY Frame, ProgramFacts DEF RunTyped, TypeOK, Generated
  <1> SUFFICES ASSUME destiny = "ONOS" PROVE HostsProvided'
    BY <1>0 DEF HostsProvided
  <1>h. \A i \in 1 .. Generated : i \in Identifiers("host") => Provided(Len(requests), Address(program[i]))
    BY DEF HostsProvided
  <1>i. pc \in {"generating", "posting"} =>
          \A k \in sent + 1 .. Len(requests) : requests[k].end_point = "intents" =>
              \A x \in {1, 2} : EndProvided(k - 1, requests[k].message[x])
    BY DEF HostsProvided
  <1> SUFFICES /\ \A i \in 1 .. Generated' : i \in Identifiers("host") => ProvidedNext(Len(requests'), Address(program[i]))
               /\ pc' \in {"generating", "posting"} =>
                    \A k \in sent' + 1 .. Len(requests') : requests'[k].end_point = "intents" =>
                        \A x \in {1, 2} : EndProvidedNext(k - 1, requests'[k].message[x])
    BY <1>0 DEF HostsProvided, Provided, ProvidedNext, EndProvided, EndProvidedNext, AskedBefore, Address
  <1>e. ASSUME NEW m \in Nat, NEW n \in Nat, NEW end, EndProvided(m, end),
               \A host : Provided(m, host) => ProvidedNext(n, host)
        PROVE  EndProvidedNext(n, end)
    BY <1>e DEF EndProvided, EndProvidedNext
  <1>1. CASE Forgets
    BY <1>1 DEF Forgets
  <1>2. CASE Waits
    <2>1. UNCHANGED <<requests, sent>> /\ Generated' = Generated
      BY <1>2 DEF Waits
    <2>2. \A n \in Nat : \A host : n <= Len(requests) /\ Provided(n, host) => ProvidedNext(n, host)
      BY <2>1, ProvidedStays
    <2>3. \A i \in 1 .. Generated' : i \in Identifiers("host") => ProvidedNext(Len(requests'), Address(program[i]))
      BY <1>0, <1>h, <2>1, <2>2
    <2>4. ASSUME pc' \in {"generating", "posting"}, NEW k \in sent' + 1 .. Len(requests'),
                 requests'[k].end_point = "intents", NEW x \in {1, 2}
          PROVE  EndProvidedNext(k - 1, requests'[k].message[x])
      <3>1. pc \in {"generating", "posting"} \/ requests = <<>>
        BY <1>2, <2>4 DEF Waits, RunTyped
      <3>2. requests # <<>>
        BY <1>0, <2>1
      <3>3. k - 1 \in Nat /\ k - 1 <= Len(requests) /\ k \in sent + 1 .. Len(requests)
        BY <1>0, <2>1
      <3>4. EndProvided(k - 1, requests[k].message[x])
        BY <1>i, <2>1, <2>4, <3>1, <3>2, <3>3
      <3> QED
        BY <1>e, <2>1, <2>2, <3>3, <3>4
    <2> QED
      BY <2>3, <2>4
  <1>3. CASE Sends
    <2>1. requests' = requests /\ sent' = sent + 1 /\ Generated' = Generated /\ pc = "posting"
      BY <1>3, SendFacts
    <2>2. \A n \in Nat : \A host : n <= Len(requests) /\ Provided(n, host) => ProvidedNext(n, host)
      BY <1>3, ProvidedStays
    <2>3. \A i \in 1 .. Generated' : i \in Identifiers("host") => ProvidedNext(Len(requests'), Address(program[i]))
      BY <1>0, <1>h, <2>1, <2>2
    <2>4. ASSUME NEW k \in sent' + 1 .. Len(requests'),
                 requests'[k].end_point = "intents", NEW x \in {1, 2}
          PROVE  EndProvidedNext(k - 1, requests'[k].message[x])
      <3>1. k - 1 \in Nat /\ k - 1 <= Len(requests) /\ k \in sent + 1 .. Len(requests)
        BY <1>0, <2>1
      <3>2. EndProvided(k - 1, requests[k].message[x])
        BY <1>i, <2>1, <2>4, <3>1
      <3> QED
        BY <1>e, <2>1, <2>2, <3>1, <3>2
    <2> QED
      BY <2>3, <2>4
  <1>4. CASE \E answered \in BOOLEAN, id \in IntentId : Generates(answered, id)
    <2> PICK answered \in BOOLEAN, id \in IntentId : Generates(answered, id)
      BY <1>4
    <2> DEFINE R == Pushed(program[pos], answered, id)
               N == Len(requests)
    <2>1. /\ pc = "generating" /\ pos \in 1 .. Len(program) /\ Generated = pos - 1 /\ Generated' = pos
          /\ sent = 0 /\ sent' = 0 /\ R \in Seq(Request) /\ requests' = requests \o R
      BY GenerateFacts
    <2>2. /\ pos \in Identifiers("host") =>
                 \/ R = <<>> /\ Address(program[pos]) \in hosts
                 \/ Len(R) = 1 /\ R[1].end_point = "hosts" /\ R[1].message = Address(program[pos])
          /\ \A k \in DOMAIN R : R[k].end_point = "intents" => \A n \in {1, 2} :
                 EarlierEnd(R[k].message[n])
      <3>1. R = Pushed(program[pos], answered, id)
        OBVIOUS
      <3> HIDE DEF R
      <3> QED
        BY <3>1, PushedFacts
    <2> HIDE DEF R, N
    <2>3. /\ N \in Nat /\ Len(R) \in Nat /\ Len(requests') = N + Len(R) /\ DOMAIN R = 1 .. Len(R)
          /\ \A k \in 1 .. N : requests'[k] = requests[k]
          /\ \A k \in 1 .. Len(R) : requests'[N + k] = R[k]
      <3> DEFINE Q == Request
      <3>1. requests \in Seq(Q) /\ R \in Seq(Q) /\ requests' = requests \o R
        BY <1>0, <2>1
      <3> HIDE DEF Q
      <3> QED
        BY <3>1 DEF N
    <2>4. \A n \in Nat : \A host : n <= N /\ Provided(n, host) => ProvidedNext(n, host)
      <3> SUFFICES ASSUME NEW n \in Nat, NEW host, n <= N, Provided(n, host) PROVE ProvidedNext(n, host)
        OBVIOUS
      <3>1. sent' = sent /\ \A k \in 1 .. n : requests'[k] = requests[k]
        BY <2>1, <2>3
      <3> QED
        BY <3>1, ProvidedStays DEF N
    <2>5. \A m \in Nat, n \in Nat : \A host : m <= n /\ ProvidedNext(m, host) => ProvidedNext(n, host)
      <3> SUFFICES ASSUME NEW m \in Nat, NEW n \in Nat, NEW host, m <= n, ProvidedNext(m, host)
                   PROVE  ProvidedNext(n, host)
        OBVIOUS
      <3>1. \A k \in sent' + 1 .. m : k \in sent' + 1 .. n
        BY <2>1
      <3> QED
        BY <3>1 DEF ProvidedNext
    <2>6. \A i \in 1 .. pos - 1 : i \in Identifiers("host") => ProvidedNext(N, Address(program[i]))
      <3> SUFFICES ASSUME NEW i \in 1 .. pos - 1, i \in Identifiers("host") PROVE ProvidedNext(N, Address(program[i]))
        OBVIOUS
      <3>1. i \in 1 .. Generated
        BY <2>1
      <3>2. Provided(N, Address(program[i]))
        BY <1>h, <3>1 DEF N
      <3>3. N <= N
        BY <2>3
      <3> QED
        BY <2>3, <2>4, <3>2, <3>3
    <2>7. ASSUME NEW i \in 1 .. Generated', i \in Identifiers("host")
          PROVE  ProvidedNext(Len(requests'), Address(program[i]))
      <3> DEFINE host == Address(program[i])
                 L == Len(requests')
      <3>0. L \in Nat /\ N <= L
        BY <2>3
      <3> HIDE DEF host
      <3>1. CASE i \in 1 .. pos - 1
        BY <2>3, <2>5, <2>6, <2>7, <3>0, <3>1 DEF host
      <3>2. CASE i = pos /\ host \in hosts
        BY <3>0, <3>2, HostsGrow DEF ProvidedNext, host
      <3>3. CASE i = pos /\ ~host \in hosts
        <4>1. Len(R) = 1 /\ R[1].end_point = "hosts" /\ R[1].message = host
          BY <2>2, <2>7, <3>3 DEF host
        <4>2. requests'[N + 1].end_point = "hosts" /\ requests'[N + 1].message = host /\ N + 1 \in sent' + 1 .. L
          BY <2>1, <2>3, <4>1
        <4> QED
          BY <3>0, <4>2 DEF ProvidedNext, host
      <3> QED
        BY <2>1, <2>7, <3>1, <3>2, <3>3
    <2>8. ASSUME NEW k \in sent' + 1 .. Len(requests'),
                 requests'[k].end_point = "intents", NEW x \in {1, 2}
          PROVE  EndProvidedNext(k - 1, requests'[k].message[x])
      <3>1. CASE k \in 1 .. N
        <4>1. k - 1 \in Nat /\ k - 1 <= N /\ k \in sent + 1 .. Len(requests) /\ requests'[k] = requests[k]
          BY <2>1, <2>3, <3>1 DEF N
        <4>2. EndProvided(k - 1, requests[k].message[x])
          BY <1>i, <2>1, <2>8, <4>1
        <4> QED
          BY <1>e, <2>4, <4>1, <4>2
      <3>2. CASE k \notin 1 .. N
        <4> DEFINE q == k - N
        <4>1. q \in 1 .. Len(R) /\ k = N + q /\ k - 1 \in Nat /\ N <= k - 1
          BY <2>1, <2>3, <3>2
        <4> HIDE DEF q
        <4>2. requests'[k] = R[q] /\ q \in DOMAIN R
          BY <2>3, <4>1
        <4>3. PICK j \in 1 .. pos - 1 : j \in Identifiers("host") /\ R[q].message[x] = Named(program[j].mac)
          BY <2>2, <2>8, <4>2 DEF Earlier, EarlierEnd
        <4>4. ProvidedNext(k - 1, Address(program[j]))
          BY <2>3, <2>5, <2>6, <4>1, <4>3
        <4> QED
          BY <4>2, <4>3, <4>4 DEF EndProvidedNext
      <3> QED
        BY <3>1, <3>2
    <2> QED
      BY <2>7, <2>8
  <1> QED
    BY <1>1, <1>2, <1>3, <1>4, RequestSteps

LEMMA OdlHostsStep ==
  ASSUME RunTyped, HostsBuilt, SnapshotIsKnown, OdlHostsKnown, [Next]_cgVars
  PROVE  OdlHostsKnown'
  <1>0. /\ UNCHANGED <<program, destiny, source>> /\ Identifiers("host")' = Identifiers("host")
        /\ requests \in Seq(Request) /\ Generated \in Nat
    BY Frame, ProgramFacts DEF RunTyped, TypeOK, Generated
  <1>a. FirstIsMac' => FirstIsMac
    BY <1>0 DEF FirstIsMac
  <1> SUFFICES ASSUME destiny = "OPENDAYLIGHT", source = "controller", FirstIsMac PROVE OdlHostsKnown'
    BY <1>0, <1>a DEF OdlHostsKnown
  <1>1. /\ \A i \in 1 .. Generated : i \in Identifiers("host") => HasMac(hosts', program[i].mac)
        /\ \A k \in DOMAIN requests : \A x \in {1, 2} :
              \A mac \in ToSet(requests[k].message[x]) : HasMac(hosts', mac)
    BY HostsGrow DEF OdlHostsKnown
  <1> SUFFICES /\ \A i \in 1 .. Generated' : i \in Identifiers("host") => HasMac(hosts', program[i].mac)
               /\ \A k \in DOMAIN requests' : \A x \in {1, 2} :
                     \A mac \in ToSet(requests'[k].message[x]) : HasMac(hosts', mac)
    BY <1>0 DEF OdlHostsKnown, HasMac, ToSet
  <1>2. CASE Forgets
    <2>1. Generated' = 0 /\ (requests' = requests \/ DOMAIN requests' = {})
      BY <1>2 DEF Forgets
    <2> QED
      BY <1>1, <2>1
  <1>3. CASE Waits
    BY <1>1, <1>3 DEF Waits
  <1>4. CASE Sends
    BY <1>1, <1>4, SendFacts
  <1>5. CASE \E answered \in BOOLEAN, id \in IntentId : Generates(answered, id)
    <2> PICK answered \in BOOLEAN, id \in IntentId : Generates(answered, id)
      BY <1>5
    <2> DEFINE R == Pushed(program[pos], answered, id)
               N == Len(requests)
    <2>1. /\ pos \in 1 .. Len(program) /\ Generated = pos - 1 /\ Generated' = pos
          /\ R \in Seq(Request) /\ requests' = requests \o R /\ hosts' = hosts /\ pos \in DOMAIN program
      BY GenerateFacts
    <2>2. /\ pos \in Identifiers("host") => HasMac(snapshot, program[pos].first)
          /\ \A k \in DOMAIN R : \A n \in {1, 2} : \A mac \in ToSet(R[k].message[n]) : Earlier(mac)
      <3>1. R = Pushed(program[pos], answered, id) /\ destiny = "OPENDAYLIGHT"
        OBVIOUS
      <3> HIDE DEF R
      <3> QED
        BY <3>1, PushedFacts
    <2>3. ASSUME pos \in Identifiers("host") PROVE HasMac(hosts', program[pos].mac)
      <3>1. program[pos].mac \in Mac /\ program[pos].first = program[pos].mac
        BY <2>1, <2>3, KindFacts DEF RunTyped, TypeOK, FirstIsMac, Identifiers
      <3> QED
        BY <2>1, <2>2, <2>3, <3>1 DEF SnapshotIsKnown
    <2>4. \A j \in 1 .. pos - 1 : j \in Identifiers("host") => HasMac(hosts', program[j].mac)
      BY <1>1, <2>1
    <2> HIDE DEF R, N
    <2>5. /\ N \in Nat /\ Len(R) \in Nat /\ DOMAIN requests' = 1 .. N + Len(R) /\ DOMAIN R = 1 .. Len(R)
          /\ DOMAIN requests = 1 .. N
          /\ \A k \in 1 .. N : requests'[k] = requests[k]
          /\ \A k \in N + 1 .. N + Len(R) : requests'[k] = R[k - N]
      <3> DEFINE Q == Request
      <3>1. requests \in Seq(Q) /\ R \in Seq(Q) /\ requests' = requests \o R
        BY <1>0, <2>1
      <3> HIDE DEF Q
      <3> QED
        BY <3>1 DEF N
    <2>6. ASSUME NEW i \in 1 .. Generated', i \in Identifiers("host") PROVE HasMac(hosts', program[i].mac)
      <3>1. i = pos \/ i \in 1 .. pos - 1
        BY <2>1
      <3> QED
        BY <2>3, <2>4, <2>6, <3>1
    <2>7. ASSUME NEW k \in DOMAIN requests', NEW x \in {1, 2}, NEW mac \in ToSet(requests'[k].message[x])
          PROVE  HasMac(hosts', mac)
      <3>1. CASE k \in 1 .. N
        BY <1>1, <2>5, <3>1
      <3>2. CASE k \in N + 1 .. N + Len(R)
        <4> DEFINE q == k - N
        <4>1. requests'[k] = R[q] /\ q \in DOMAIN R
          BY <2>5, <3>2
        <4> HIDE DEF q
        <4>2. PICK j \in 1 .. pos - 1 : j \in Identifiers("host") /\ program[j].mac = mac
          BY <2>2, <4>1 DEF Earlier
        <4> QED
          BY <2>4, <4>2
      <3>3. k \in 1 .. N \/ k \in N + 1 .. N + Len(R)
        BY <2>5
      <3> QED
        BY <3>1, <3>2, <3>3
    <2> QED
      BY <2>6, <2>7
  <1> QED
    BY <1>2, <1>3, <1>4, <1>5, RequestSteps

(* What IntentsHaveHosts says of an end of an intent, now and next.        *)
EndKnown(end) == HasMac(hosts, end.mac) /\ (NoVlan(end.mac) => end \in hosts)
EndKnownNext(end) == HasMac(hosts', end.mac) /\ (NoVlan(end.mac) => end \in hosts')

LEMMA EndIsKnown ==
  ASSUME NEW n, NEW end, EndProvided(n, end), \A host : ~AskedBefore(n, host)
  PROVE  EndKnown(end)
  <1>1. PICK i \in Identifiers("host") : end = Named(program[i].mac) /\ Address(program[i]) \in hosts
    BY DEF EndProvided, Provided
  <1>2. end.mac = program[i].mac /\ Address(program[i]).mac = program[i].mac
    BY <1>1 DEF Named, Address
  <1>3. HasMac(hosts, end.mac)
    BY <1>1, <1>2 DEF HasMac
  <1>4. ASSUME NoVlan(end.mac) PROVE end \in hosts
    <2>1. program[i].vlan = Untagged
      BY <1>2, <1>4 DEF NoVlan
    <2>2. Address(program[i]) = end
      BY <1>1, <2>1 DEF Address, Named
    <2> QED
      BY <1>1, <2>2
  <1> QED
    BY <1>3, <1>4 DEF EndKnown

LEMMA IntentsStep ==
  ASSUME RunTyped, IntentsHaveHosts, HostsProvided, OdlHostsKnown, [Next]_cgVars
  PROVE  IntentsHaveHosts'
  <1> DEFINE Clean == source = "controller" /\ \A i \in Identifiers("host") : program[i].first = program[i].mac
  <1>0. /\ UNCHANGED <<source, program, destiny>> /\ (Clean' <=> Clean) /\ (Clean <=> source = "controller" /\ FirstIsMac)
        /\ destiny \in {"ONOS", "OPENDAYLIGHT"} /\ onosIntents \in Seq(NetworkHost \X NetworkHost)
        /\ odlIntents \in [IntentId -> {NoIntent} \cup OdlMessage]
    BY Frame DEF FirstIsMac, RunTyped, TypeOK
  <1>n. \A mac : NoVlan(mac)' <=> NoVlan(mac)
    BY Frame DEF NoVlan
  <1>k. \A end : EndKnown(end) => EndKnownNext(end)
    BY HostsGrow DEF EndKnown, EndKnownNext
  <1> SUFFICES /\ \A i \in DOMAIN onosIntents' : \A k \in {1, 2} : EndKnownNext(onosIntents'[i][k])
               /\ Clean => \A id \in IntentId : \A k \in DOMAIN odlIntents'[id] :
                               \A mac \in ToSet(odlIntents'[id][k]) : HasMac(hosts', mac)
    BY <1>0, <1>n DEF IntentsHaveHosts, EndKnownNext, HasMac, ToSet
  <1>1. /\ \A i \in DOMAIN onosIntents : \A k \in {1, 2} : EndKnownNext(onosIntents[i][k])
        /\ Clean => \A id \in IntentId : \A k \in DOMAIN odlIntents[id] :
                        \A mac \in ToSet(odlIntents[id][k]) : HasMac(hosts', mac)
    BY <1>k, HostsGrow DEF IntentsHaveHosts, EndKnown
  <1>2. CASE UNCHANGED <<onosIntents, odlIntents>>
    BY <1>1, <1>2
  <1>3. CASE /\ pc = "posting" /\ sent \in Nat /\ sent + 1 \in DOMAIN requests /\ sent < Len(requests)
             /\ requests[sent + 1] \in Request /\ Accepts(requests[sent + 1])
    <2> DEFINE r == requests[sent + 1]
    <2>0. r \in Request /\ Accepts(r) /\ Len(requests) \in Nat
      BY <1>3 DEF RunTyped, TypeOK
    <2>1. CASE destiny = "ONOS"
      <3>1. CASE onosIntents' = onosIntents /\ odlIntents' = odlIntents
        BY <1>1, <3>1
      <3>2. CASE /\ odlIntents' = odlIntents /\ r.end_point = "intents" /\ r.message \in NetworkHost \X NetworkHost
                 /\ onosIntents' = Append(onosIntents, r.message)
        <4>1. sent + 1 \in sent + 1 .. Len(requests)
          BY <1>3, <2>0
        <4>2. \A x \in {1, 2} : EndProvided((sent + 1) - 1, r.message[x])
          BY <1>3, <2>1, <3>2, <4>1 DEF HostsProvided
        <4>3. \A host : ~AskedBefore((sent + 1) - 1, host)
          BY <1>3 DEF AskedBefore
        <4>4. \A x \in {1, 2} : EndKnownNext(r.message[x])
          BY <1>k, <4>2, <4>3, EndIsKnown
        <4> DEFINE m == r.message
                   P == NetworkHost \X NetworkHost
        <4>5. onosIntents \in Seq(P) /\ m \in P /\ onosIntents' = Append(onosIntents, m)
          BY <1>0, <3>2
        <4> HIDE DEF P, m
        <4>6. \A i \in DOMAIN onosIntents' :
                 \/ i \in DOMAIN onosIntents /\ onosIntents'[i] = onosIntents[i]
                 \/ onosIntents'[i] = m
          BY <4>5
        <4>7. \A i \in DOMAIN onosIntents' : \A k \in {1, 2} : EndKnownNext(onosIntents'[i][k])
          BY <1>1, <4>4, <4>6 DEF m
        <4> QED
          BY <1>1, <3>2, <4>7
      <3> QED
        BY <2>0, <2>1, <3>1, <3>2, OnosAccepts
    <2>2. CASE destiny = "OPENDAYLIGHT"
      <3>1. /\ onosIntents' = onosIntents /\ r.end_point \in IntentId /\ r.message \in OdlMessage
            /\ odlIntents' = [odlIntents EXCEPT ![r.end_point] = r.message]
        BY <2>0, <2>2, OdlAccepts
      <3>2. ASSUME Clean, NEW id \in IntentId, NEW k \in DOMAIN odlIntents'[id], NEW mac \in ToSet(odlIntents'[id][k])
            PROVE  HasMac(hosts', mac)
        <4>1. CASE id # r.end_point
          <5>1. odlIntents'[id] = odlIntents[id]
            BY <1>0, <3>1, <4>1
          <5> QED
            BY <1>1, <3>2, <5>1
        <4>2. CASE id = r.end_point
          <5>1. odlIntents'[id] = r.message
            BY <1>0, <3>1, <4>2
          <5>2. k \in {1, 2}
            BY <3>1, <5>1 DEF OdlMessage
          <5>3. HasMac(hosts, mac)
            BY <1>0, <1>3, <2>2, <3>2, <5>1, <5>2 DEF OdlHostsKnown
          <5> QED
            BY <5>3, HostsGrow
        <4> QED
          BY <4>1, <4>2
      <3> QED
        BY <1>1, <3>1, <3>2
    <2> QED
      BY <1>0, <2>1, <2>2
  <1> QED
    BY <1>2, <1>3, IntentSteps

LEMMA NothingSentStep ==
  ASSUME RunTyped, NothingSent, [Next]_cgVars
  PROVE  NothingSent'
  <1>1. CASE Start
    BY <1>1 DEF Start, NothingSent, intents
  <1>2. CASE \E accepted, answered \in BOOLEAN : Send(accepted, answered)
    BY <1>2 DEF Send, MaySend, AfterFailure, NothingSent
  <1>3. CASE ~Start /\ ~(\E accepted, answered \in BOOLEAN : Send(accepted, answered))
    <2>1. /\ UNCHANGED <<onosIntents, odlIntents, before>>
          /\ \/ pc' = pc
             \/ pc \in {"checking", "building", "simulating", "generating"}
             \/ pc' = "written"
      BY <1>3 DEF Next, Run, cgVars, CheckIdentifier, CheckFails, BuildIdentifier, BuildFails, Simulate, GenerateIdentifier,
             WriteFile, HostDiscovered, Raise, Advance, intents
    <2> QED
      BY <2>1 DEF NothingSent, intents
  <1> QED
    BY <1>1, <1>2, <1>3

-----------------------------------------------------------------------------
(* One request of OpenDaylight for each flow.                              *)
FlowsUpTo(n) == {i \in Identifiers("flow") : i <= n}

LEMMA FlowCount ==
  ASSUME RunTyped, NEW n \in 0 .. Len(program)
  PROVE  /\ IsFiniteSet(FlowsUpTo(n)) /\ Cardinality(FlowsUpTo(n)) \in Nat
         /\ n = 0 => Cardinality(FlowsUpTo(n)) = 0
         /\ \A m \in 0 .. n : Cardinality(FlowsUpTo(m)) <= Cardinality(FlowsUpTo(n))
         /\ n > 0 /\ n \in Identifiers("flow") => Cardinality(FlowsUpTo(n)) = Cardinality(FlowsUpTo(n - 1)) + 1
         /\ n > 0 /\ n \notin Identifiers("flow") => Cardinality(FlowsUpTo(n)) = Cardinality(FlowsUpTo(n - 1))
         /\ n = Len(program) => FlowsUpTo(n) = Identifiers("flow")
  <1>0. Len(program) \in Nat /\ Identifiers("flow") \subseteq 1 .. Len(program)
    BY ProgramFacts DEF RunTyped, TypeOK, Identifiers
  <1>1. IsFiniteSet(1 .. Len(program))
    BY <1>0, FS_Interval
  <1>2. \A m : IsFiniteSet(FlowsUpTo(m)) /\ Cardinality(FlowsUpTo(m)) \in Nat
    BY <1>0, <1>1, FS_Subset, FS_CardinalityType DEF FlowsUpTo
  <1>3. n = 0 => FlowsUpTo(n) = {}
    BY <1>0 DEF FlowsUpTo
  <1>4. \A m \in 0 .. n : Cardinality(FlowsUpTo(m)) <= Cardinality(FlowsUpTo(n))
    <2> TAKE m \in 0 .. n
    <2>1. FlowsUpTo(m) \subseteq FlowsUpTo(n)
      BY <1>0 DEF FlowsUpTo
    <2> QED
      BY <1>2, <2>1, FS_Subset
  <1>5. n > 0 /\ n \in Identifiers("flow") => FlowsUpTo(n) = FlowsUpTo(n - 1) \cup {n} /\ n \notin FlowsUpTo(n - 1)
    BY <1>0 DEF FlowsUpTo
  <1>6. n > 0 /\ n \notin Identifiers("flow") => FlowsUpTo(n) = FlowsUpTo(n - 1)
    BY <1>0 DEF FlowsUpTo
  <1>7. n > 0 /\ n \in Identifiers("flow") => Cardinality(FlowsUpTo(n)) = Cardinality(FlowsUpTo(n - 1)) + 1
    BY <1>2, <1>5, FS_AddElement
  <1>8. n = Len(program) => FlowsUpTo(n) = Identifiers("flow")
    BY <1>0 DEF FlowsUpTo
  <1> QED
    BY <1>2, <1>3, <1>4, <1>6, <1>7, <1>8, FS_EmptySet

LEMMA RequestOfFlow ==
  ASSUME RunTyped, NEW n \in 0 .. Len(program), NEW i \in 1 .. n, i \in Identifiers("flow")
  PROVE  RequestOf(i) \in 1 .. Cardinality(FlowsUpTo(n))
  <1>0. Len(program) \in Nat
    BY ProgramFacts DEF RunTyped, TypeOK
  <1>1. RequestOf(i) = Cardinality(FlowsUpTo(i))
    BY DEF RequestOf, FlowsUpTo
  <1>2. i \in 0 .. Len(program) /\ i - 1 \in 0 .. Len(program) /\ i > 0 /\ i \in 0 .. n
    BY <1>0
  <1>3. /\ Cardinality(FlowsUpTo(i)) = Cardinality(FlowsUpTo(i - 1)) + 1
        /\ Cardinality(FlowsUpTo(i - 1)) \in Nat
        /\ Cardinality(FlowsUpTo(i)) <= Cardinality(FlowsUpTo(n))
        /\ Cardinality(FlowsUpTo(n)) \in Nat
    BY <1>2, FlowCount
  <1> QED
    BY <1>1, <1>3

LEMMA OdlRequestsStep ==
  ASSUME RunTyped, HostsBuilt, OdlRequests, [Next]_cgVars
  PROVE  OdlRequests'
  <1> DEFINE Asked(i) == <<Macs(program[i].src), Macs(program[i].dst)>>
             F(n) == Cardinality(FlowsUpTo(n))
             In(k) == \/ odlIntents[requests[k].end_point] = requests[k].message
                      \/ \E later \in k + 1 .. sent : requests[later].end_point = requests[k].end_point
             InNext(k) == \/ odlIntents'[requests'[k].end_point] = requests'[k].message
                          \/ \E later \in k + 1 .. sent' : requests'[later].end_point = requests'[k].end_point
  <1>0. /\ UNCHANGED <<program, destiny>> /\ Identifiers("flow")' = Identifiers("flow")
        /\ requests \in Seq(Request) /\ Len(requests) \in Nat /\ sent \in Nat
        /\ Generated \in 0 .. Len(program) /\ Len(program) \in Nat
    BY Frame, ProgramFacts DEF RunTyped, TypeOK, Generated
  <1>a. \A i : RequestOf(i)' = RequestOf(i) /\ RequestOf(i) = F(i)
    BY <1>0 DEF RequestOf, FlowsUpTo
  <1> SUFFICES ASSUME destiny = "OPENDAYLIGHT" PROVE OdlRequests'
    BY <1>0 DEF OdlRequests
  <1>b. /\ pc \in {"generating", "posting", "written"} => Len(requests) = F(Generated)
        /\ \A i \in 1 .. Generated : i \in Identifiers("flow") => requests[RequestOf(i)].message = Asked(i)
        /\ pc \in {"posting", "written"} => \A k \in 1 .. sent : In(k)
    BY DEF OdlRequests, FlowsUpTo
  <1> SUFFICES /\ pc' \in {"generating", "posting", "written"} => Len(requests') = F(Generated')
               /\ \A i \in 1 .. Generated' : i \in Identifiers("flow") => requests'[RequestOf(i)].message = Asked(i)
               /\ pc' \in {"posting", "written"} => \A k \in 1 .. sent' : InNext(k)
    BY <1>0, <1>a DEF OdlRequests, FlowsUpTo, Macs
  <1>1. CASE Forgets
    BY <1>1 DEF Forgets
  <1>2. CASE Waits
    <2>0. /\ requests' = requests /\ sent' = sent /\ Generated' = Generated
          /\ pc' # "failed" \/ pc # "posting"
      BY <1>2 DEF Waits
    <2>1. ASSUME pc' \in {"generating", "posting", "written"} PROVE Len(requests') = F(Generated')
      <3>1. CASE pc \in {"generating", "posting", "written"}
        BY <1>b, <2>0, <3>1
      <3>2. CASE pc = "simulating"
        <4>1. Generated = 0 /\ Len(requests) = 0
          BY <3>2 DEF RunTyped, Generated
        <4>2. F(0) = 0
          BY <1>0, FlowCount
        <4> QED
          BY <2>0, <4>1, <4>2
      <3> QED
        BY <1>2, <2>1, <3>1, <3>2 DEF Waits
    <2>2. ASSUME pc' \in {"posting", "written"} PROVE \A k \in 1 .. sent' : InNext(k)
      <3>1. pc \in {"posting", "written"} /\ pc' # "failed"
        BY <1>2, <2>2 DEF Waits
      <3>2. ~Sends
        <4>1. sent + 1 # sent
          BY <1>0
        <4> QED
          BY <2>0, <4>1, SendFacts
      <3>3. odlIntents' = odlIntents
        BY <3>1, <3>2, IntentSteps
      <3> QED
        BY <1>b, <2>0, <3>1, <3>3
    <2> QED
      BY <1>b, <2>0, <2>1, <2>2
  <1>3. CASE Sends
    <2> DEFINE r == requests[sent + 1]
    <2>0. /\ pc = "posting" /\ requests' = requests /\ sent' = sent + 1 /\ Generated' = Generated
          /\ r \in Request /\ Accepts(r)
      BY <1>3, SendFacts
    <2>1. /\ r.end_point \in IntentId /\ odlIntents' = [odlIntents EXCEPT ![r.end_point] = r.message]
          /\ DOMAIN odlIntents = IntentId
      BY <2>0, OdlAccepts DEF RunTyped, TypeOK
    <2>2. ASSUME NEW k \in 1 .. sent' PROVE InNext(k)
      <3>1. CASE k = sent + 1
        BY <2>0, <2>1, <3>1
      <3>2. CASE k \in 1 .. sent
        <4>1. CASE requests[k].end_point = r.end_point
          <5>1. sent + 1 \in k + 1 .. sent'
            BY <1>0, <2>0, <3>2
          <5> QED
            BY <2>0, <4>1, <5>1
        <4>2. CASE requests[k].end_point # r.end_point
          <5>1. odlIntents'[requests[k].end_point] = odlIntents[requests[k].end_point]
            <6>1. requests[k] \in Request
              BY <1>0, <2>0, <3>2, SendFacts, <1>3
            <6>2. requests[k].end_point \in IntentId
              BY <6>1 DEF Request, OdlRequest
            <6> QED
              BY <2>1, <4>2, <6>2
          <5>2. In(k)
            BY <1>b, <2>0, <3>2
          <5>3. \A later \in k + 1 .. sent : later \in k + 1 .. sent'
            BY <1>0, <2>0
          <5> QED
            BY <2>0, <5>1, <5>2, <5>3
        <4> QED
          BY <4>1, <4>2
      <3>3. k = sent + 1 \/ k \in 1 .. sent
        BY <1>0, <2>0
      <3> QED
        BY <3>1, <3>2, <3>3
    <2> QED
      BY <1>b, <2>0, <2>2
  <1>4. CASE \E answered \in BOOLEAN, id \in IntentId : Generates(answered, id)
    <2> PICK answered \in BOOLEAN, id \in IntentId : Generates(answered, id)
      BY <1>4
    <2> DEFINE R == Pushed(program[pos], answered, id)
               N == Len(requests)
    <2>1. /\ pos \in 1 .. Len(program) /\ Generated = pos - 1 /\ Generated' = pos
          /\ pc = "generating" /\ sent' = 0
          /\ R \in Seq(Request) /\ requests' = requests \o R /\ pos \in DOMAIN program
      BY GenerateFacts
    <2>2. R = Pushed(program[pos], answered, id)
      OBVIOUS
    <2> HIDE DEF R
    <2>3. /\ pos \in Identifiers("host") => R = <<>>
          /\ pos \in Identifiers("flow") => R = <<[end_point |-> id, message |-> Asked(pos)]>>
      BY <2>2, PushedFacts
    <2>4. pos \in Identifiers("host") \/ pos \in Identifiers("flow")
      BY <2>1, KindFacts DEF RunTyped, TypeOK
    <2>5. /\ N \in Nat /\ Len(R) \in Nat /\ Len(requests') = N + Len(R)
          /\ \A k \in 1 .. N : requests'[k] = requests[k]
          /\ \A k \in 1 .. Len(R) : requests'[N + k] = R[k]
      <3> DEFINE Q == Request
      <3>1. requests \in Seq(Q) /\ R \in Seq(Q) /\ requests' = requests \o R
        BY <1>0, <2>1
      <3> HIDE DEF Q
      <3> QED
        BY <3>1
    <2>6. N = F(pos - 1)
      BY <1>b, <2>1
    <2>7. pos \in 0 .. Len(program) /\ pos - 1 \in 0 .. Len(program) /\ pos > 0 /\ pos \in Nat
      BY <1>0, <2>1
    <2> HIDE DEF N, F, Asked
    <2>8. \A i \in 1 .. pos - 1 : i \in Identifiers("flow") => requests'[RequestOf(i)].message = Asked(i)
      <3> SUFFICES ASSUME NEW i \in 1 .. pos - 1, i \in Identifiers("flow")
                   PROVE  requests'[RequestOf(i)].message = Asked(i)
        OBVIOUS
      <3>1. RequestOf(i) \in 1 .. N
        BY <2>6, <2>7, RequestOfFlow DEF F
      <3> QED
        BY <1>b, <2>1, <2>5, <3>1
    <2>9. CASE pos \in Identifiers("host") /\ pos \notin Identifiers("flow")
      <3>1. R = <<>> /\ F(pos) = F(pos - 1)
        BY <2>3, <2>7, <2>9, FlowCount DEF F
      <3>2. Len(R) = 0
        BY <3>1
      <3>3. \A i \in 1 .. pos : i \in Identifiers("flow") => i \in 1 .. pos - 1
        BY <2>7, <2>9
      <3> QED
        BY <2>1, <2>5, <2>6, <2>8, <3>1, <3>2, <3>3
    <2>10. CASE pos \in Identifiers("flow")
      <3>1. R = <<[end_point |-> id, message |-> Asked(pos)]>> /\ F(pos) = F(pos - 1) + 1
        BY <2>3, <2>7, <2>10, FlowCount DEF F
      <3>2. Len(R) = 1 /\ R[1].message = Asked(pos)
        BY <3>1
      <3>3. RequestOf(pos) = N + 1
        BY <1>a, <2>6, <3>1
      <3>4. requests'[RequestOf(pos)].message = Asked(pos)
        BY <2>5, <3>2, <3>3
      <3>5. \A i \in 1 .. pos : i = pos \/ i \in 1 .. pos - 1
        BY <2>7
      <3>6. Len(requests') = F(Generated') /\ 1 .. sent' = {}
        BY <2>1, <2>5, <2>6, <3>1, <3>2
      <3>7. \A i \in 1 .. Generated' : i \in Identifiers("flow") => requests'[RequestOf(i)].message = Asked(i)
        BY <2>1, <2>8, <3>4, <3>5
      <3> QED
        BY <3>6, <3>7
    <2> QED
      BY <2>4, <2>9, <2>10
  <1> QED
    BY <1>1, <1>2, <1>3, <1>4, RequestSteps

-----------------------------------------------------------------------------
(* How often an intent has been wanted, asked for and installed.           *)

LEMMA CountFacts ==
  ASSUME NEW P, NEW s \in Seq(P), NEW x
  PROVE  /\ IsFiniteSet(Occurrences(s, x)) /\ Count(s, x) \in Nat
         /\ s = <<>> => Count(s, x) = 0
         /\ \A e \in P : Count(Append(s, e), x) = IF e = x THEN Count(s, x) + 1 ELSE Count(s, x)
  <1>1. Len(s) \in Nat /\ DOMAIN s = 1 .. Len(s)
    OBVIOUS
  <1>2. IsFiniteSet(Occurrences(s, x)) /\ Count(s, x) \in Nat
    <2>1. IsFiniteSet(1 .. Len(s)) /\ Occurrences(s, x) \subseteq 1 .. Len(s)
      BY <1>1, FS_Interval DEF Occurrences
    <2> QED
      BY <2>1, FS_Subset, FS_CardinalityType DEF Count
  <1>3. ASSUME s = <<>> PROVE Count(s, x) = 0
    <2>1. Occurrences(s, x) = {}
      BY <1>3 DEF Occurrences
    <2> QED
      BY <2>1, FS_EmptySet DEF Count
  <1>4. ASSUME NEW e \in P PROVE Count(Append(s, e), x) = IF e = x THEN Count(s, x) + 1 ELSE Count(s, x)
    <2> DEFINE t == Append(s, e)
               n == Len(s) + 1
    <2>1. DOMAIN t = 1 .. n /\ n \notin DOMAIN s /\ DOMAIN t = DOMAIN s \cup {n} /\ t[n] = e /\ \A i \in DOMAIN s : t[i] = s[i]
      BY <1>1
    <2> HIDE DEF t, n
    <2>2. CASE e = x
      <3>1. Occurrences(t, x) = Occurrences(s, x) \cup {n} /\ n \notin Occurrences(s, x)
        BY <2>1, <2>2 DEF Occurrences
      <3> QED
        BY <1>2, <2>2, <3>1, FS_AddElement DEF Count, t
    <2>3. CASE e # x
      <3>1. Occurrences(t, x) = Occurrences(s, x)
        BY <2>1, <2>3 DEF Occurrences
      <3> QED
        BY <2>3, <3>1 DEF Count, t
    <2> QED
      BY <2>2, <2>3
  <1> QED
    BY <1>2, <1>3, <1>4

LEMMA AsksFacts ==
  ASSUME NEW pair, NEW n \in Nat
  PROVE  /\ IsFiniteSet(Asks(pair, n)) /\ Cardinality(Asks(pair, n)) \in Nat
         /\ Cardinality(Asks(pair, 0)) = 0
         /\ \A m \in 0 .. n : Cardinality(Asks(pair, m)) <= Cardinality(Asks(pair, n))
         /\ Cardinality(Asks(pair, n + 1)) =
               IF requests[n + 1] = AskFor(pair) THEN Cardinality(Asks(pair, n)) + 1 ELSE Cardinality(Asks(pair, n))
  <1>1. \A m \in Nat : IsFiniteSet(Asks(pair, m)) /\ Cardinality(Asks(pair, m)) \in Nat
    <2> TAKE m \in Nat
    <2>1. IsFiniteSet(1 .. m) /\ Asks(pair, m) \subseteq 1 .. m
      BY FS_Interval DEF Asks
    <2> QED
      BY <2>1, FS_Subset, FS_CardinalityType
  <1>2. Asks(pair, 0) = {}
    BY DEF Asks
  <1>3. \A m \in 0 .. n : Cardinality(Asks(pair, m)) <= Cardinality(Asks(pair, n))
    <2> TAKE m \in 0 .. n
    <2>1. Asks(pair, m) \subseteq Asks(pair, n)
      BY DEF Asks
    <2> QED
      BY <1>1, <2>1, FS_Subset
  <1>4. CASE requests[n + 1] = AskFor(pair)
    <2>1. Asks(pair, n + 1) = Asks(pair, n) \cup {n + 1} /\ n + 1 \notin Asks(pair, n)
      BY <1>4 DEF Asks, AskFor
    <2> QED
      BY <1>1, <1>2, <1>3, <1>4, <2>1, FS_AddElement, FS_EmptySet
  <1>5. CASE requests[n + 1] # AskFor(pair)
    <2>1. Asks(pair, n + 1) = Asks(pair, n)
      BY <1>5 DEF Asks, AskFor
    <2> QED
      BY <1>1, <1>2, <1>3, <1>5, <2>1, FS_EmptySet
  <1> QED
    BY <1>4, <1>5

(* A flow wants an intent as often as its sources and destinies repeat.    *)
LEMMA WantedByIsFinite ==
  ASSUME program \in Programs, NEW i \in Identifiers("flow"), NEW pair
  PROVE  IsFiniteSet(WantedBy(i, pair)) /\ Cardinality(WantedBy(i, pair)) \in Nat
  <1> DEFINE S == Occurrences(Macs(program[i].src), pair[1])
             D == Occurrences(Macs(program[i].dst), pair[2])
  <1>1. program[i].src \in Ends /\ program[i].dst \in Ends
    BY EndFacts
  <1>2. \A e \in Ends : Macs(e) \in Seq(Mac)
    BY DEF Ends, Macs, HostValue, LiteralValue
  <1>3. IsFiniteSet(S) /\ IsFiniteSet(D)
    BY <1>1, <1>2, CountFacts
  <1>4. IsFiniteSet({i})
    BY FS_Singleton
  <1> HIDE DEF S, D
  <1>5. IsFiniteSet(S \X D)
    BY <1>3, FS_Product
  <1>6. IsFiniteSet({i} \X (S \X D))
    BY <1>4, <1>5, FS_Product
  <1>7. WantedBy(i, pair) = {i} \X (S \X D)
    BY DEF WantedBy, S, D
  <1> QED
    BY <1>6, <1>7, FS_CardinalityType

LEMMA WantedFacts ==
  ASSUME RunTyped, NEW n \in 0 .. Len(program), NEW pair
  PROVE  /\ IsFiniteSet(WantedUpTo(pair, n)) /\ Cardinality(WantedUpTo(pair, n)) \in Nat
         /\ n = 0 => Cardinality(WantedUpTo(pair, n)) = 0
         /\ n > 0 /\ n \notin Identifiers("flow") =>
               Cardinality(WantedUpTo(pair, n)) = Cardinality(WantedUpTo(pair, n - 1))
         /\ n > 0 /\ n \in Identifiers("flow") =>
               Cardinality(WantedUpTo(pair, n)) = Cardinality(WantedUpTo(pair, n - 1)) + Cardinality(WantedBy(n, pair))
         /\ n = Len(program) => Cardinality(WantedUpTo(pair, n)) = Wanted(pair)
  <1>0. Len(program) \in Nat /\ Identifiers("flow") \subseteq 1 .. Len(program) /\ program \in Programs
    BY ProgramFacts DEF RunTyped, TypeOK, Identifiers
  <1>1. \A m \in Nat : IsFiniteSet(WantedUpTo(pair, m)) /\ Cardinality(WantedUpTo(pair, m)) \in Nat
    <2> TAKE m \in Nat
    <2> DEFINE J == {j \in Identifiers("flow") : j <= m}
               W == {WantedBy(i, pair) : i \in J}
    <2>1. IsFiniteSet(J)
      <3>1. J \subseteq 1 .. m
        BY <1>0
      <3>2. IsFiniteSet(1 .. m)
        BY FS_Interval
      <3> QED
        BY <3>1, <3>2, FS_Subset
    <2>2. \A X \in W : IsFiniteSet(X)
      BY <1>0, WantedByIsFinite
    <2>3. IsFiniteSet(W)
      <3> DEFINE f == [i \in J |-> WantedBy(i, pair)]
      <3>1. f \in Surjection(J, W)
        BY DEF Surjection
      <3> HIDE DEF f, W, J
      <3> QED
        BY <2>1, <3>1, FS_Surjection
    <2>4. IsFiniteSet(UNION W)
      <3> HIDE DEF W
      <3> QED
        BY <2>2, <2>3, FS_UNION
    <2> QED
      BY <2>4, FS_CardinalityType DEF WantedUpTo
  <1>2. n = 0 => WantedUpTo(pair, n) = {}
    BY <1>0 DEF WantedUpTo
  <1>3. n > 0 /\ n \notin Identifiers("flow") => WantedUpTo(pair, n) = WantedUpTo(pair, n - 1)
    <2>1. n > 0 /\ n \notin Identifiers("flow") =>
            {j \in Identifiers("flow") : j <= n} = {j \in Identifiers("flow") : j <= n - 1}
      BY <1>0
    <2> QED
      BY <2>1 DEF WantedUpTo
  <1>4. ASSUME n > 0, n \in Identifiers("flow")
        PROVE  Cardinality(WantedUpTo(pair, n)) = Cardinality(WantedUpTo(pair, n - 1)) + Cardinality(WantedBy(n, pair))
    <2> DEFINE A == WantedUpTo(pair, n - 1)
               B == WantedBy(n, pair)
    <2>1. {j \in Identifiers("flow") : j <= n} = {j \in Identifiers("flow") : j <= n - 1} \cup {n}
      BY <1>0, <1>4
    <2>2. WantedUpTo(pair, n) = A \cup B
      BY <2>1 DEF WantedUpTo
    <2>3. A \cap B = {}
      <3> SUFFICES ASSUME NEW w \in A, w \in B PROVE FALSE
        OBVIOUS
      <3>1. PICK j \in Identifiers("flow") : j <= n - 1 /\ w \in WantedBy(j, pair)
        BY DEF WantedUpTo
      <3>2. w[1] = j /\ w[1] = n
        BY <3>1 DEF WantedBy
      <3> QED
        BY <1>0, <3>1, <3>2
    <2>4. IsFiniteSet(A) /\ IsFiniteSet(B) /\ Cardinality(A) \in Nat /\ Cardinality(B) \in Nat
      BY SMTT(30), <1>0, <1>1, <1>4, WantedByIsFinite
    <2> HIDE DEF A, B
    <2>5. Cardinality(A \cup B) = Cardinality(A) + Cardinality(B) - Cardinality(A \cap B)
      BY <2>4, FS_Union
    <2>6. Cardinality(A \cap B) = 0
      BY <2>3, FS_EmptySet
    <2>7. Cardinality(A \cup B) = Cardinality(A) + Cardinality(B)
      BY <2>4, <2>5, <2>6
    <2> QED
      BY <2>2, <2>7 DEF A, B
  <1>5. n = Len(program) => Cardinality(WantedUpTo(pair, n)) = Wanted(pair)
    <2>1. n = Len(program) => {j \in Identifiers("flow") : j <= n} = Identifiers("flow")
      BY <1>0
    <2> QED
      BY <2>1 DEF WantedUpTo, Wanted
  <1>6. IsFiniteSet(WantedUpTo(pair, n)) /\ Cardinality(WantedUpTo(pair, n)) \in Nat
    BY <1>0, <1>1
  <1>7. n = 0 => WantedUpTo(pair, n) = {} /\ Cardinality(WantedUpTo(pair, n)) = 0
    BY <1>2, FS_EmptySet
  <1>8. n = Len(program) => Cardinality(WantedUpTo(pair, n)) = Wanted(pair)
    BY <1>5
  <1>9. n > 0 /\ n \notin Identifiers("flow") =>
          Cardinality(WantedUpTo(pair, n)) = Cardinality(WantedUpTo(pair, n - 1))
    BY <1>3
  <1>10. n > 0 /\ n \in Identifiers("flow") =>
           Cardinality(WantedUpTo(pair, n)) = Cardinality(WantedUpTo(pair, n - 1)) + Cardinality(WantedBy(n, pair))
    BY <1>4
  <1> QED
    BY <1>6, <1>7, <1>8, <1>9, <1>10

(* Quotient and remainder are unique.                                      *)
LEMMA PairOfIndex ==
  ASSUME NEW a \in Nat, NEW b \in Nat, NEW s \in 1 .. a, NEW d \in 1 .. b
  PROVE  LET k == (s - 1) * b + d
         IN  k \in 1 .. a * b /\ ((k - 1) \div b) + 1 = s /\ ((k - 1) % b) + 1 = d
  <1> DEFINE k == (s - 1) * b + d
             x == (s - 1) * b
             y == a * b
  <1>0. s - 1 \in Nat /\ b > 0
    OBVIOUS
  <1>1. x \in Nat /\ y \in Nat /\ x + b <= y
    <2>1. a = s + (a - s) /\ a - s \in Nat /\ s \in Nat
      OBVIOUS
    <2>2. s * b \in Nat /\ a * b \in Nat /\ a * b >= s * b
      BY <2>1, ProductsGrow
    <2>3. s * b = (s - 1) * b + b
      OBVIOUS
    <2>4. (s - 1) * b \in Nat
      BY <1>0, ProductsGrow
    <2> DEFINE z == s * b
    <2>5. z \in Nat /\ y \in Nat /\ y >= z /\ z = x + b /\ x \in Nat
      BY <2>2, <2>3, <2>4
    <2> HIDE DEF x, y, z
    <2> QED
      BY <2>5
  <1>2. k \in Nat /\ k \in 1 .. y /\ k - 1 = x + (d - 1)
    <2>1. k = x + d
      OBVIOUS
    <2> HIDE DEF x, y, k
    <2> QED
      BY <1>1, <2>1
  <1> DEFINE q == (k - 1) \div b
             r == (k - 1) % b
  <1>3. q + 1 \in 1 .. a /\ r + 1 \in 1 .. b /\ k = q * b + r + 1
    <2> HIDE DEF k
    <2> QED
      BY <1>2, IndexOfPair
  <1>4. q \in Nat /\ r \in Nat /\ r < b
    <2> HIDE DEF q, r
    <2>1. q \in Int /\ r \in Int
      <3> HIDE DEF k
      <3> QED
        BY <1>0, <1>2 DEF q, r
    <2> QED
      BY <1>3, <2>1
  <1> HIDE DEF q, r
  <1>5. q * b + r = (s - 1) * b + (d - 1)
    <2> DEFINE z == q * b
    <2>0. z \in Nat
      BY <1>4, ProductsGrow
    <2>1. k = z + r + 1
      BY <1>3
    <2> HIDE DEF z, x, k
    <2>2. z + r = x + (d - 1)
      BY <1>1, <1>2, <1>4, <2>0, <2>1
    <2> QED
      BY <2>2 DEF z, x
  <1>6. q = s - 1
    <2> DEFINE p == s - 1
    <2>0. p \in Nat
      BY <1>0
    <2>1. ASSUME NEW m \in Nat, NEW n \in Nat, m < n PROVE m * b + b <= n * b /\ m * b \in Nat /\ n * b \in Nat
      <3>1. n = (m + 1) + (n - (m + 1)) /\ n - (m + 1) \in Nat /\ m + 1 \in Nat
        BY <2>1
      <3>2. (m + 1) * b \in Nat /\ n * b \in Nat /\ n * b >= (m + 1) * b /\ m * b \in Nat
        BY <3>1, ProductsGrow
      <3>3. (m + 1) * b = m * b + b
        OBVIOUS
      <3> QED
        BY <3>2, <3>3
    <2> HIDE DEF p
    <2>2. q * b + r = p * b + (d - 1)
      BY <1>5 DEF p
    <2> DEFINE u == q * b
               v == p * b
    <2>3. CASE q < p
      <3>1. u + b <= v /\ u \in Nat /\ v \in Nat /\ u + r = v + (d - 1)
        BY <1>4, <2>0, <2>1, <2>2, <2>3
      <3> HIDE DEF u, v
      <3> QED
        BY <1>4, <3>1
    <2>4. CASE p < q
      <3>1. v + b <= u /\ u \in Nat /\ v \in Nat /\ u + r = v + (d - 1)
        BY <1>4, <2>0, <2>1, <2>2, <2>4
      <3> HIDE DEF u, v
      <3> QED
        BY <1>4, <3>1
    <2>5. q = p
      BY <1>4, <2>0, <2>3, <2>4 DEF p
    <2> QED
      BY <2>5 DEF p
  <1>7. r = d - 1
    <2>1. x + r = x + (d - 1)
      BY <1>5, <1>6
    <2> HIDE DEF x
    <2> QED
      BY <1>1, <1>4, <2>1
  <1>8. q + 1 = s /\ r + 1 = d
    BY <1>6, <1>7
  <1> QED
    BY <1>2, <1>8 DEF q, r

(* HostToHost makes the requests that are wanted.                          *)
LEMMA FlowIsAskedFor ==
  ASSUME program \in Programs, NEW i \in Identifiers("flow"), NEW pair \in Mac \X Mac, NEW N \in Nat,
         NEW H, H = HostToHost(program[i])
  PROVE  /\ Len(H) \in Nat
         /\ LET S == {k \in N + 1 .. N + Len(H) : H[k - N] = AskFor(pair)}
            IN  IsFiniteSet(S) /\ Cardinality(S) = Cardinality(WantedBy(i, pair))
  <1> DEFINE src == program[i].src
             dst == program[i].dst
             a == Len(src)
             b == Len(dst)
             L == Len(H)
             S == {k \in N + 1 .. N + L : H[k - N] = AskFor(pair)}
             W == WantedBy(i, pair)
             s(j) == ((j - 1) \div b) + 1
             d(j) == ((j - 1) % b) + 1
             f == [k \in S |-> <<i, <<s(k - N), d(k - N)>>>>]
  <1>0. src \in Ends /\ dst \in Ends
    BY EndFacts
  <1>1. /\ a \in Nat /\ b \in Nat /\ a * b \in Nat /\ L = a * b
        /\ \A j \in 1 .. L : H[j] = [end_point |-> "intents", message |-> IntentOf(<<src[s(j)].mac, dst[d(j)].mac>>)]
    <2>1. program[i].src \in Ends /\ program[i].dst \in Ends
      BY <1>0
    <2> HIDE DEF src, dst
    <2>2. /\ Len(program[i].src) \in Nat /\ Len(program[i].dst) \in Nat
          /\ Len(program[i].src) * Len(program[i].dst) \in Nat
          /\ Len(HostToHost(program[i])) = Len(program[i].src) * Len(program[i].dst)
          /\ \A k \in 1 .. Len(program[i].src) * Len(program[i].dst) :
                HostToHost(program[i])[k] = [end_point |-> "intents",
                     message |-> IntentOf(<<program[i].src[((k - 1) \div Len(program[i].dst)) + 1].mac,
                                            program[i].dst[((k - 1) % Len(program[i].dst)) + 1].mac>>)]
      BY <2>1, HostToHostFacts
    <2> QED
      BY <2>2 DEF src, dst
  <1>2. /\ Occurrences(Macs(src), pair[1]) = {x \in 1 .. a : src[x].mac = pair[1]}
        /\ Occurrences(Macs(dst), pair[2]) = {x \in 1 .. b : dst[x].mac = pair[2]}
    BY <1>0 DEF Ends, Occurrences, Macs
  <1>3. W = {i} \X ({x \in 1 .. a : src[x].mac = pair[1]} \X {x \in 1 .. b : dst[x].mac = pair[2]})
    BY <1>2 DEF WantedBy
  <1> HIDE DEF W, src, dst, a, b, L
  <1>4. ASSUME NEW j \in 1 .. L
        PROVE  s(j) \in 1 .. a /\ d(j) \in 1 .. b /\ j = (s(j) - 1) * b + d(j)
    <2>1. j \in 1 .. a * b
      BY <1>1
    <2>2. s(j) \in 1 .. a /\ d(j) \in 1 .. b /\ j = ((j - 1) \div b) * b + ((j - 1) % b) + 1
      BY <1>1, <2>1, IndexOfPair
    <2> DEFINE q == (j - 1) \div b
               r == (j - 1) % b
    <2>3. q + 1 \in 1 .. a /\ r + 1 \in 1 .. b /\ j = q * b + r + 1
      BY <2>2
    <2>4. q \in Int /\ r \in Int
      BY <1>1, <2>2
    <2> HIDE DEF q, r
    <2>5. (q + 1) - 1 = q
      BY <2>4
    <2>6. q \in Nat
      BY <1>1, <2>3, <2>4
    <2>7. q * b \in Nat
      BY <1>1, <2>6, ProductsGrow
    <2>8. j = ((q + 1) - 1) * b + (r + 1)
      <3> DEFINE z == q * b
      <3>1. j = z + r + 1 /\ z \in Nat
        BY <2>3, <2>7
      <3> HIDE DEF z
      <3>2. j = z + (r + 1)
        BY <2>4, <3>1
      <3> QED
        BY <2>5, <3>2 DEF z
    <2> QED
      BY <2>3, <2>8 DEF q, r
  <1>5. ASSUME NEW j \in 1 .. L
        PROVE  H[j] = AskFor(pair) <=> src[s(j)].mac = pair[1] /\ dst[d(j)].mac = pair[2]
    <2> DEFINE m == src[s(j)].mac
               n == dst[d(j)].mac
    <2>1. H[j] = [end_point |-> "intents", message |-> IntentOf(<<m, n>>)]
      BY <1>1
    <2>2. m \in Mac /\ n \in Mac
      <3> DEFINE E == HostValue \cup LiteralValue
      <3>1. \A e \in E : e.mac \in Mac
        BY DEF HostValue, LiteralValue
      <3>2. src \in Seq(E) /\ dst \in Seq(E)
        BY <1>0 DEF Ends
      <3> DEFINE x == s(j)
                 y == d(j)
      <3>3. x \in 1 .. a /\ y \in 1 .. b
        BY <1>4
      <3> HIDE DEF E, x, y
      <3>4. x \in 1 .. Len(src) /\ y \in 1 .. Len(dst)
        BY <3>3 DEF a, b
      <3>5. src[x] \in E /\ dst[y] \in E
        BY <3>2, <3>4
      <3>6. src[s(j)] \in E /\ dst[d(j)] \in E
        BY <3>5 DEF x, y
      <3> QED
        BY <3>1, <3>6
    <2> HIDE DEF m, n
    <2>3. <<m, n>> \in Mac \X Mac /\ (<<m, n>> = pair <=> m = pair[1] /\ n = pair[2])
      BY <2>2
    <2>4. H[j] = AskFor(pair) <=> IntentOf(<<m, n>>) = IntentOf(pair)
      BY <2>1 DEF AskFor
    <2>5. H[j] = AskFor(pair) <=> m = pair[1] /\ n = pair[2]
      BY <2>3, <2>4, NamedFacts
    <2> QED
      BY <2>5 DEF m, n
  <1>6. \A k \in N + 1 .. N + L : k - N \in 1 .. L /\ N + (k - N) = k
    BY <1>1 DEF L
  <1> HIDE DEF s, d
  <1>7. f \in [S -> W]
    <2> SUFFICES ASSUME NEW k \in S PROVE <<i, <<s(k - N), d(k - N)>>>> \in W
      OBVIOUS
    <2>1. k - N \in 1 .. L /\ H[k - N] = AskFor(pair)
      BY <1>6
    <2> QED
      BY <1>3, <1>4, <1>5, <2>1
  <1>8. f \in Injection(S, W)
    <2>1. ASSUME NEW k \in S, NEW l \in S, f[k] = f[l] PROVE k = l
      <3>1. s(k - N) = s(l - N) /\ d(k - N) = d(l - N)
        BY <2>1
      <3>2. k - N \in 1 .. L /\ l - N \in 1 .. L
        BY <1>6
      <3>3. k - N = (s(k - N) - 1) * b + d(k - N) /\ l - N = (s(l - N) - 1) * b + d(l - N)
        BY <1>4, <3>2
      <3>4. k - N = l - N
        BY <3>1, <3>3
      <3>5. N + (k - N) = k /\ N + (l - N) = l
        BY <1>6
      <3> QED
        BY <3>4, <3>5
    <2> QED
      BY <1>7, <2>1 DEF Injection, IsInjective
  <1>9. f \in Surjection(S, W)
    <2>1. ASSUME NEW w \in W PROVE \E k \in S : f[k] = w
      <3>1. PICK x \in 1 .. a, y \in 1 .. b : src[x].mac = pair[1] /\ dst[y].mac = pair[2] /\ w = <<i, <<x, y>>>>
        BY <1>3
      <3> DEFINE j == (x - 1) * b + y
      <3>2. j \in 1 .. a * b /\ ((j - 1) \div b) + 1 = x /\ ((j - 1) % b) + 1 = y
        BY <1>1, PairOfIndex
      <3>3. j \in 1 .. L /\ s(j) = x /\ d(j) = y
        BY <1>1, <3>2 DEF s, d
      <3> HIDE DEF j
      <3>4. N + j \in N + 1 .. N + L /\ (N + j) - N = j
        BY <1>1, <3>3
      <3>5. H[j] = AskFor(pair)
        BY <1>5, <3>1, <3>3
      <3>6. N + j \in S
        BY <3>4, <3>5
      <3>7. f[N + j] = <<i, <<s((N + j) - N), d((N + j) - N)>>>>
        BY <3>6
      <3> QED
        BY <3>1, <3>3, <3>4, <3>6, <3>7
    <2> QED
      BY <1>7, <2>1 DEF Surjection
  <1>10. IsFiniteSet(S)
    <2>1. S \subseteq N + 1 .. N + L
      OBVIOUS
    <2>2. IsFiniteSet(N + 1 .. N + L)
      BY <1>1, FS_Interval
    <2> HIDE DEF S
    <2> QED
      BY <2>1, <2>2, FS_Subset
  <1> HIDE DEF S, f
  <1>11. Cardinality(S) = Cardinality(W)
    <2>1. ExistsBijection(S, W)
      BY <1>8, <1>9 DEF ExistsBijection, Bijection
    <2> QED
      BY <1>10, <2>1, FS_Bijection
  <1> QED
    BY <1>1, <1>10, <1>11 DEF S, W, L

(* The first n requests, after a step, for an intent between two hosts.    *)
AsksNext(pair, n) == {k \in 1 .. n : requests'[k] = AskFor(pair)}

LEMMA GenerateAsks ==
  ASSUME RunTyped, HostsBuilt, NEW answered, NEW id \in IntentId, Generates(answered, id),
         destiny = "ONOS", NEW pair \in Mac \X Mac,
         Cardinality(Asks(pair, Len(requests))) = Cardinality(WantedUpTo(pair, Generated))
  PROVE  Cardinality(AsksNext(pair, Len(requests'))) = Cardinality(WantedUpTo(pair, Generated'))
  <1> DEFINE R == Pushed(program[pos], answered, id)
             N == Len(requests)
             L == Len(R)
  <1>0. /\ program \in Programs /\ Len(program) \in Nat /\ requests \in Seq(Request)
    BY ProgramFacts DEF RunTyped, TypeOK
  <1>1. /\ pos \in 1 .. Len(program) /\ Generated = pos - 1 /\ Generated' = pos
        /\ R \in Seq(Request) /\ requests' = requests \o R /\ pos \in DOMAIN program
    BY GenerateFacts
  <1>2. R = Pushed(program[pos], answered, id)
    OBVIOUS
  <1> HIDE DEF R
  <1>3. /\ N \in Nat /\ L \in Nat /\ Len(requests') = N + L
        /\ \A k \in 1 .. N : requests'[k] = requests[k]
        /\ \A k \in N + 1 .. N + L : requests'[k] = R[k - N]
    <2> DEFINE Q == Request
    <2>1. requests \in Seq(Q) /\ R \in Seq(Q) /\ requests' = requests \o R
      BY <1>0, <1>1
    <2> HIDE DEF Q
    <2> QED
      BY <2>1
  <1> DEFINE S == {k \in N + 1 .. N + L : R[k - N] = AskFor(pair)}
             A == Asks(pair, N)
  <1>4. AsksNext(pair, Len(requests')) = A \cup S
    <2>1. 1 .. N + L = 1 .. N \cup N + 1 .. N + L
      BY <1>3
    <2>2. A = {k \in 1 .. N : requests'[k] = AskFor(pair)}
      BY <1>3 DEF Asks, AskFor
    <2>3. S = {k \in N + 1 .. N + L : requests'[k] = AskFor(pair)}
      BY <1>3
    <2> HIDE DEF A, S
    <2> QED
      BY <1>3, <2>1, <2>2, <2>3 DEF AsksNext
  <1>5. A \cap S = {}
    <2>1. \A k \in A : k \in 1 .. N
      BY DEF Asks
    <2>2. \A k \in S : k \in N + 1 .. N + L
      OBVIOUS
    <2>3. \A k \in 1 .. N : k \notin N + 1 .. N + L
      BY <1>3
    <2> HIDE DEF A, S
    <2> QED
      BY <2>1, <2>2, <2>3
  <1>6. IsFiniteSet(A) /\ Cardinality(A) \in Nat
    BY <1>3, AsksFacts
  <1>7. pos \in 0 .. Len(program) /\ pos > 0
    BY <1>0, <1>1
  <1>8. CASE pos \in Identifiers("flow")
    <2>1. program[pos].kind = "flow"
      BY <1>8 DEF Identifiers
    <2>2. R = HostToHost(program[pos])
      BY <1>2, <2>1 DEF Pushed
    <2>3. IsFiniteSet(S) /\ Cardinality(S) = Cardinality(WantedBy(pos, pair))
      BY SMTT(30), <1>0, <1>3, <1>8, <2>2, FlowIsAskedFor
    <2> DEFINE w == Cardinality(WantedBy(pos, pair))
               v == Cardinality(WantedUpTo(pair, pos - 1))
    <2>4. Cardinality(WantedUpTo(pair, pos)) = v + w
      BY <1>7, <1>8, WantedFacts
    <2>5. w \in Nat
      BY <1>0, <1>8, WantedByIsFinite
    <2> HIDE DEF S, A, w
    <2>6. Cardinality(A \cup S) = Cardinality(A) + Cardinality(S) - Cardinality(A \cap S) /\ Cardinality(A \cap S) = 0
      BY <1>5, <1>6, <2>3, FS_Union, FS_EmptySet
    <2>7. Cardinality(A \cup S) = Cardinality(A) + w
      BY <1>6, <2>3, <2>5, <2>6 DEF w
    <2> QED
      BY <1>1, <1>4, <2>4, <2>7 DEF A, N
  <1>9. CASE pos \notin Identifiers("flow")
    <2>1. pos \in Identifiers("host")
      BY <1>0, <1>1, <1>9, KindFacts
    <2>2. \/ R = <<>>
          \/ Len(R) = 1 /\ R[1].end_point = "hosts"
      BY <1>2, <2>1, PushedFacts
    <2>3. S = {}
      <3> SUFFICES ASSUME NEW k \in N + 1 .. N + L, R[k - N] = AskFor(pair) PROVE FALSE
        OBVIOUS
      <3>1. k - N \in 1 .. L
        BY <1>3
      <3>2. R[k - N].end_point = "intents"
        BY DEF AskFor
      <3>3. CASE R = <<>>
        BY <3>1, <3>3
      <3>4. CASE Len(R) = 1 /\ R[1].end_point = "hosts"
        <4>1. k - N = 1
          BY <3>1, <3>4
        <4> QED
          BY <3>2, <3>4, <4>1
      <3> QED
        BY <2>2, <3>3, <3>4
    <2>4. Cardinality(WantedUpTo(pair, pos)) = Cardinality(WantedUpTo(pair, pos - 1))
      BY <1>7, <1>9, WantedFacts
    <2> HIDE DEF S
    <2> QED
      BY <1>1, <1>4, <2>3, <2>4
  <1> QED
    BY <1>8, <1>9

(* What ONOS installs is what it has been asked for.                       *)
LEMMA InstallFacts ==
  ASSUME RunTyped, destiny = "ONOS", NEW pair \in Mac \X Mac,
         sent + 1 \in DOMAIN requests, requests[sent + 1] \in Request, Accepts(requests[sent + 1])
  PROVE  LET a == Cardinality(Asks(pair, sent))
             b == Cardinality(Asks(pair, sent + 1))
             c == Count(onosIntents, IntentOf(pair))
             d == Count(onosIntents', IntentOf(pair))
         IN  /\ a \in Nat /\ b \in Nat /\ c \in Nat /\ d \in Nat
             /\ \/ b = a + 1 /\ d = c + 1
                \/ b = a /\ d = c
  <1> DEFINE r == requests[sent + 1]
             i == IntentOf(pair)
             P == NetworkHost \X NetworkHost
  <1>0. sent \in Nat /\ onosIntents \in Seq(P)
    BY DEF RunTyped, TypeOK
  <1>1. /\ Cardinality(Asks(pair, sent)) \in Nat
        /\ Cardinality(Asks(pair, sent + 1)) =
               IF r = AskFor(pair) THEN Cardinality(Asks(pair, sent)) + 1 ELSE Cardinality(Asks(pair, sent))
    BY <1>0, AsksFacts
  <1> HIDE DEF P, i
  <1>2. /\ Count(onosIntents, i) \in Nat
        /\ \A e \in P : Count(Append(onosIntents, e), i) =
              IF e = i THEN Count(onosIntents, i) + 1 ELSE Count(onosIntents, i)
    BY <1>0, CountFacts
  <1>3. CASE r.end_point = "hosts" /\ onosIntents' = onosIntents
    <2>1. r # AskFor(pair)
      BY <1>3 DEF AskFor
    <2> HIDE DEF r
    <2> QED
      BY <1>1, <1>2, <1>3, <2>1 DEF i
  <1>4. CASE /\ r.message \in NetworkHost \X NetworkHost /\ r = [end_point |-> "intents", message |-> r.message]
             /\ onosIntents' = Append(onosIntents, r.message)
    <2> DEFINE m == r.message
    <2>1. r = AskFor(pair) <=> m = i
      BY <1>4 DEF AskFor, i
    <2>2. m \in P /\ onosIntents' = Append(onosIntents, m)
      BY <1>4 DEF P
    <2> HIDE DEF m, r
    <2>3. Count(onosIntents', i) =
             IF m = i THEN Count(onosIntents, i) + 1 ELSE Count(onosIntents, i)
      BY <1>2, <2>2
    <2> QED
      BY <1>1, <1>2, <2>1, <2>3 DEF i
  <1> QED
    BY <1>3, <1>4, OnosAccepts DEF i, P

LEMMA RunSteps ==
  ASSUME RunTyped, [Next]_cgVars
  PROVE  \/ Start
         \/ runs' = runs /\ (pc' = pc \/ pc \in Running)
  <1>1. CASE \E accepted, answered \in BOOLEAN : Send(accepted, answered)
    BY <1>1 DEF Send, MaySend, Running
  <1>2. CASE ~\E accepted, answered \in BOOLEAN : Send(accepted, answered)
    BY <1>2 DEF Next, Run, cgVars, Start, CheckIdentifier, CheckFails, BuildIdentifier, BuildFails, Simulate, GenerateIdentifier,
           WriteFile, HostDiscovered, Raise, Running
  <1> QED
    BY <1>1, <1>2

(* What OnosCounts says of an intent.                                      *)
Asked(pair) ==
    pc \in {"generating", "posting", "written"} =>
        Cardinality(Asks(pair, Len(requests))) = Cardinality(WantedUpTo(pair, Generated))
Installed(pair) ==
    pc \in {"posting", "written"} => Count(onosIntents, IntentOf(pair)) >= Cardinality(Asks(pair, sent))
Bound(pair) ==
    IF pc \in Running
    THEN (runs - 1) * Wanted(pair) + (IF pc = "posting" THEN Cardinality(Asks(pair, sent)) ELSE 0)
    ELSE runs * Wanted(pair)
Bounded(pair) == Count(onosIntents, IntentOf(pair)) <= Bound(pair)

LEMMA CountTypes ==
  ASSUME RunTyped, NEW pair \in Mac \X Mac
  PROVE  /\ Count(onosIntents, IntentOf(pair)) \in Nat /\ Wanted(pair) \in Nat
         /\ \A n \in Nat : Cardinality(Asks(pair, n)) \in Nat
         /\ runs \in Nat /\ (pc \in Running => runs - 1 \in Nat)
         /\ runs * Wanted(pair) \in Nat
         /\ pc \in Running => /\ (runs - 1) * Wanted(pair) \in Nat
                              /\ runs * Wanted(pair) = (runs - 1) * Wanted(pair) + Wanted(pair)
  <1> DEFINE W == Wanted(pair)
  <1>1. Count(onosIntents, IntentOf(pair)) \in Nat
    <2> DEFINE P == NetworkHost \X NetworkHost
    <2>1. onosIntents \in Seq(P)
      BY DEF RunTyped, TypeOK
    <2> HIDE DEF P
    <2> QED
      BY <2>1, CountFacts
  <1>2. W \in Nat
    <2>1. Len(program) \in 0 .. Len(program)
      BY ProgramFacts DEF RunTyped, TypeOK
    <2> QED
      BY <2>1, WantedFacts
  <1>3. \A n \in Nat : Cardinality(Asks(pair, n)) \in Nat
    BY AsksFacts
  <1>4. runs \in Nat /\ (pc \in Running => runs - 1 \in Nat)
    BY ProgramAssumption DEF RunTyped, TypeOK
  <1> HIDE DEF W
  <1>5. runs * W \in Nat
    BY <1>2, <1>4
  <1>6. ASSUME pc \in Running PROVE (runs - 1) * W \in Nat /\ runs * W = (runs - 1) * W + W
    <2>1. runs - 1 \in Nat
      BY <1>4, <1>6
    <2> DEFINE m == runs - 1
    <2>2. runs = m + 1
      BY <1>4
    <2>3. m \in Nat
      BY <2>1
    <2> HIDE DEF m
    <2>4. m * W \in Nat /\ (m + 1) * W = m * W + W
      BY <1>2, <2>3
    <2> QED
      BY <2>2, <2>4 DEF m
  <1> QED
    BY <1>1, <1>2, <1>3, <1>4, <1>5, <1>6 DEF W

LEMMA AllAsked ==
  ASSUME RunTyped, NEW pair \in Mac \X Mac, Asked(pair), pc \in {"posting", "written"}
  PROVE  Cardinality(Asks(pair, Len(requests))) = Wanted(pair)
  <1>1. Generated = Len(program) /\ Len(program) \in 0 .. Len(program)
    BY ProgramFacts DEF Generated, RunTyped, TypeOK
  <1>2. Cardinality(WantedUpTo(pair, Len(program))) = Wanted(pair)
    BY <1>1, WantedFacts
  <1> QED
    BY <1>1, <1>2 DEF Asked

LEMMA OnosStep ==
  ASSUME RunTyped, HostsBuilt, [Next]_cgVars, destiny = "ONOS", NEW pair \in Mac \X Mac,
         Asked(pair), Installed(pair), Bounded(pair)
  PROVE  /\ pc' \in {"generating", "posting", "written"} =>
               Cardinality(AsksNext(pair, Len(requests'))) = Cardinality(WantedUpTo(pair, Generated'))
         /\ pc' \in {"posting", "written"} => Count(onosIntents', IntentOf(pair)) >= Cardinality(AsksNext(pair, sent'))
         /\ Count(onosIntents', IntentOf(pair)) <=
               IF pc' \in Running
               THEN (runs' - 1) * Wanted(pair) + (IF pc' = "posting" THEN Cardinality(AsksNext(pair, sent')) ELSE 0)
               ELSE runs' * Wanted(pair)
  <1> DEFINE A(n) == Cardinality(Asks(pair, n))
             B(n) == Cardinality(AsksNext(pair, n))
             C == Count(onosIntents, IntentOf(pair))
             D == Count(onosIntents', IntentOf(pair))
             W == Wanted(pair)
             P == (runs - 1) * W
             Q == runs * W
             a == A(sent)
             l == A(Len(requests))
  <1>0. /\ C \in Nat /\ W \in Nat /\ Q \in Nat /\ runs \in Nat
        /\ a \in Nat /\ l \in Nat
        /\ pc \in Running => P \in Nat /\ Q = P + W
        /\ sent \in Nat /\ Len(requests) \in Nat /\ sent <= Len(requests)
    <2>1. sent \in Nat /\ Len(requests) \in Nat /\ sent <= Len(requests)
      BY DEF RunTyped, TypeOK
    <2>2. a \in Nat /\ l \in Nat
      BY <2>1, CountTypes
    <2>3. C \in Nat /\ W \in Nat /\ Q \in Nat /\ runs \in Nat
      BY CountTypes
    <2>4. pc \in Running => P \in Nat /\ Q = P + W
      BY CountTypes
    <2> HIDE DEF C, W, P, Q, a, l
    <2> QED
      BY <2>1, <2>2, <2>3, <2>4
  <1>1. B(0) = 0
    <2>1. AsksNext(pair, 0) = {}
      BY DEF AsksNext
    <2> QED
      BY <2>1, FS_EmptySet
  <1>2. requests' = requests => \A n : B(n) = A(n)
    BY DEF AsksNext, Asks, AskFor
  <1>3. /\ pc = "posting" => C <= P + a
        /\ pc \in Running /\ pc # "posting" => C <= P
        /\ pc \notin Running => C <= Q
    <2>1. C <= Bound(pair)
      BY DEF Bounded
    <2>2. CASE pc = "posting"
      <3>1. Bound(pair) = P + a
        BY <2>2 DEF Bound, Running
      <3> QED
        BY <2>1, <2>2, <3>1 DEF Running
    <2>3. CASE pc \in Running /\ pc # "posting"
      <3>1. Bound(pair) = P + 0
        BY <2>3 DEF Bound
      <3> HIDE DEF C, P, Q
      <3> QED
        BY <1>0, <2>1, <2>3, <3>1
    <2>4. CASE pc \notin Running
      <3>1. Bound(pair) = Q
        BY <2>4 DEF Bound
      <3> QED
        BY <2>1, <2>4, <3>1 DEF Running
    <2> QED
      BY <2>2, <2>3, <2>4
  <1>4. pc \in {"posting", "written"} => l = W /\ a <= W /\ C >= a
    <2>1. pc \in {"posting", "written"} => l = W
      BY AllAsked
    <2>2. a <= l
      <3>1. sent \in 0 .. Len(requests)
        BY <1>0
      <3> QED
        BY <1>0, <3>1, AsksFacts
    <2> QED
      BY <2>1, <2>2 DEF Installed
  <1>5. "posting" \in Running /\ "generating" \in Running /\ "written" \notin Running
    BY DEF Running
  <1>6. CASE Sends
    <2>1. /\ pc = "posting" /\ pc' = "posting" /\ sent' = sent + 1 /\ requests' = requests /\ runs' = runs
          /\ Generated' = Generated /\ requests[sent + 1] \in Request /\ Accepts(requests[sent + 1])
          /\ sent < Len(requests)
      BY <1>6, SendFacts
    <2>2. sent + 1 \in DOMAIN requests
      BY <2>1 DEF RunTyped, TypeOK
    <2> DEFINE b == A(sent + 1)
               e == B(sent')
    <2>3. /\ b \in Nat /\ D \in Nat
          /\ \/ b = a + 1 /\ D = C + 1
             \/ b = a /\ D = C
      BY <2>1, <2>2, InstallFacts
    <2>4. B(Len(requests')) = Cardinality(WantedUpTo(pair, Generated'))
      BY <1>2, <2>1 DEF Asked
    <2>5. e = b
      BY <1>2, <2>1
    <2>6. (runs' - 1) * W = P
      BY <2>1
    <2>7. P \in Nat
      BY <1>0, <1>5, <2>1
    <2> HIDE DEF A, B, C, D, W, P, Q, a, b, e, l
    <2>8. D >= e /\ D <= P + e
      BY <1>0, <1>3, <1>4, <2>1, <2>3, <2>5, <2>7
    <2> QED
      BY <1>5, <2>1, <2>4, <2>6, <2>8 DEF B, D, W, e
  <1>7. CASE \E answered \in BOOLEAN, id \in IntentId : Generates(answered, id)
    <2> PICK answered \in BOOLEAN, id \in IntentId : Generates(answered, id)
      BY <1>7
    <2>1. /\ pc = "generating" /\ pc' \in {"generating", "posting"} /\ sent' = 0
          /\ onosIntents' = onosIntents /\ runs' = runs
      BY GenerateFacts
    <2>2. A(Len(requests)) = Cardinality(WantedUpTo(pair, Generated))
      BY <2>1 DEF Asked
    <2>3. B(Len(requests')) = Cardinality(WantedUpTo(pair, Generated'))
      BY <2>2, GenerateAsks
    <2> DEFINE e == B(sent')
    <2>4. D = C /\ (runs' - 1) * W = P /\ e = 0
      BY <1>1, <2>1
    <2>7. P \in Nat /\ C <= P
      BY <1>0, <1>3, <1>5, <2>1
    <2> HIDE DEF A, B, C, D, W, P, Q, a, e, l
    <2>5. D >= e /\ D <= P + e /\ D <= P + 0
      BY <1>0, <2>4, <2>7
    <2>6. pc' \in Running
      BY <1>5, <2>1
    <2> QED
      BY <2>1, <2>3, <2>4, <2>5, <2>6 DEF B, D, W, e
  <1>8. CASE Waits /\ ~Sends
    <2>1. /\ requests' = requests /\ sent' = sent /\ Generated' = Generated
          /\ \/ pc' = pc
             \/ pc \in {"checking", "building"} /\ pc' \in {"building", "simulating"}
             \/ pc = "simulating" /\ pc' = "generating"
             \/ pc = "posting" /\ pc' = "written" /\ sent = Len(requests)
      BY <1>8 DEF Waits
    <2>2. onosIntents' = onosIntents
      <3>1. ~(pc = "posting" /\ pc' = "failed")
        BY <2>1
      <3> QED
        BY <1>8, <3>1, IntentSteps
    <2>3. runs' = runs
      <3>1. ~Start
        BY <2>1 DEF Start, Ended
      <3> QED
        BY <3>1, RunSteps
    <2> DEFINE e == B(sent')
    <2>4. D = C /\ (runs' - 1) * W = P /\ runs' * W = Q /\ e = a /\ \A n : B(n) = A(n)
      BY <1>2, <2>1, <2>2, <2>3
    <2>5. ASSUME pc' \in {"generating", "posting", "written"}
          PROVE  B(Len(requests')) = Cardinality(WantedUpTo(pair, Generated'))
      <3>1. CASE pc \in {"generating", "posting", "written"}
        <4>1. A(Len(requests)) = Cardinality(WantedUpTo(pair, Generated))
          BY <3>1 DEF Asked
        <4> QED
          BY <2>1, <2>4, <4>1
      <3>2. CASE pc = "simulating"
        <4>1. Generated = 0 /\ Len(requests) = 0
          BY <3>2 DEF RunTyped, Generated
        <4>2. 0 \in 0 .. Len(program)
          BY ProgramFacts DEF RunTyped, TypeOK
        <4>3. Cardinality(WantedUpTo(pair, 0)) = 0
          BY <4>2, WantedFacts
        <4>4. Generated' = 0 /\ Len(requests') = 0
          BY <2>1, <4>1
        <4> QED
          BY <1>1, <4>3, <4>4
      <3> QED
        BY <2>1, <2>5, <3>1, <3>2
    <2> HIDE DEF A, B, C, D, W, P, Q, a, e, l
    <2>6. pc' \in {"posting", "written"} => D >= e
      BY <1>4, <2>1, <2>4
    <2>7. D <= IF pc' \in Running THEN P + (IF pc' = "posting" THEN e ELSE 0) ELSE Q
      <3>1. CASE pc' = pc
        <4>1. CASE pc = "posting"
          BY <1>3, <1>5, <2>4, <3>1, <4>1
        <4>2. CASE pc # "posting" /\ pc \in Running
          <5>1. D <= P + 0
            BY <1>0, <1>3, <2>4, <4>2
          <5> QED
            BY <3>1, <4>2, <5>1
        <4>3. CASE pc # "posting" /\ pc \notin Running
          BY <1>3, <2>4, <3>1, <4>3
        <4> QED
          BY <4>1, <4>2, <4>3
      <3>2. CASE \/ pc \in {"checking", "building"} /\ pc' \in {"building", "simulating"}
                 \/ pc = "simulating" /\ pc' = "generating"
        <4>1. pc \in Running /\ pc # "posting" /\ pc' \in Running /\ pc' # "posting"
          BY <3>2 DEF Running
        <4>2. D <= P + 0
          BY <1>0, <1>3, <2>4, <4>1
        <4> QED
          BY <4>1, <4>2
      <3>3. CASE pc = "posting" /\ pc' = "written" /\ sent = Len(requests)
        <4>1. D <= Q
          BY <1>0, <1>3, <1>4, <1>5, <2>4, <3>3
        <4> QED
          BY <1>5, <3>3, <4>1
      <3> QED
        BY <2>1, <3>1, <3>2, <3>3
    <2> QED
      BY <2>4, <2>5, <2>6, <2>7 DEF B, D, W, e
  <1>9. CASE Forgets /\ ~Sends
    <2>1. pc' \in {"checking", "rejected", "failed"} /\ pc' # "posting"
      BY <1>9 DEF Forgets
    <2>2. CASE Start
      <3>1. pc \notin Running /\ runs' = runs + 1 /\ pc' = "checking" /\ onosIntents' = onosIntents /\ pc' \in Running
        BY <2>2 DEF Start, Ended, Running, intents
      <3>2. runs' - 1 = runs
        BY <1>0, <3>1
      <3>3. D = C /\ (runs' - 1) * W = Q
        BY <3>1, <3>2
      <3> DEFINE p == (runs' - 1) * W
      <3> HIDE DEF A, B, C, D, W, P, Q, a, l, p
      <3>5. p = Q
        BY <3>3 DEF p
      <3>4. D <= p + 0
        BY <1>0, <1>3, <3>1, <3>3, <3>5
      <3> QED
        BY <2>1, <3>1, <3>4 DEF D, W, p
    <2>3. CASE ~Start /\ pc' = pc
      <3>1. runs' = runs /\ onosIntents' = onosIntents
        BY <2>1, <2>3, RunSteps, IntentSteps
      <3>2. D = C /\ (runs' - 1) * W = P /\ runs' * W = Q
        BY <3>1
      <3> HIDE DEF A, B, C, D, W, P, Q, a, l
      <3>3. D <= IF pc' \in Running THEN P + 0 ELSE Q
        <4>1. CASE pc \in Running
          <5>1. D <= P + 0
            BY <1>0, <1>3, <2>1, <2>3, <3>2, <4>1
          <5> QED
            BY <2>3, <4>1, <5>1
        <4>2. CASE pc \notin Running
          BY <1>3, <2>3, <3>2, <4>2
        <4> QED
          BY <4>1, <4>2
      <3> QED
        BY <2>1, <3>2, <3>3 DEF D, W
    <2>4. CASE ~Start /\ pc' # pc
      <3>1. runs' = runs /\ pc \in Running
        BY <2>4, RunSteps
      <3>2. pc' \notin Running
        <4>1. pc' # "checking"
          BY <2>4 DEF Next, Run, cgVars, CheckIdentifier, CheckFails, BuildIdentifier, BuildFails, Simulate, GenerateIdentifier,
                 Send, AfterFailure, WriteFile, HostDiscovered, Raise, Advance
        <4> QED
          BY <2>1, <4>1 DEF Running
      <3>3. D <= Q
        <4>1. CASE onosIntents' = onosIntents
          <5>1. D = C
            BY <4>1
          <5> HIDE DEF A, B, C, D, W, P, Q, a, l
          <5>2. CASE pc = "posting"
            BY <1>0, <1>3, <1>4, <3>1, <5>1, <5>2
          <5>3. CASE pc # "posting"
            BY <1>0, <1>3, <3>1, <5>1, <5>3
          <5> QED
            BY <5>2, <5>3
        <4>2. CASE onosIntents' # onosIntents
          <5>1. /\ pc = "posting" /\ sent + 1 \in DOMAIN requests /\ sent < Len(requests)
                /\ requests[sent + 1] \in Request /\ Accepts(requests[sent + 1])
            BY <1>9, <4>2, IntentSteps
          <5> DEFINE b == A(sent + 1)
          <5>2. /\ b \in Nat /\ D \in Nat
                /\ \/ b = a + 1 /\ D = C + 1
                   \/ b = a /\ D = C
            BY <5>1, InstallFacts
          <5>3. b <= l
            <6>1. sent + 1 \in 0 .. Len(requests)
              BY <1>0, <5>1
            <6> QED
              BY <1>0, <6>1, AsksFacts
          <5>4. P \in Nat /\ Q = P + W /\ C <= P + a /\ l = W
            BY <1>0, <1>3, <1>4, <3>1, <5>1
          <5> HIDE DEF A, B, C, D, W, P, Q, a, b, l
          <5> QED
            BY <1>0, <5>2, <5>3, <5>4
        <4> QED
          BY <4>1, <4>2
      <3> QED
        BY <2>1, <3>1, <3>2, <3>3
    <2> QED
      BY <2>2, <2>3, <2>4
  <1> QED
    BY <1>6, <1>7, <1>8, <1>9, RequestSteps

LEMMA OnosCountsStep ==
  ASSUME RunTyped, HostsBuilt, OnosCounts, [Next]_cgVars
  PROVE  OnosCounts'
  <1>0. UNCHANGED <<program, destiny>> /\ Identifiers("flow")' = Identifiers("flow")
        /\ destiny \in {"ONOS", "OPENDAYLIGHT"}
    BY Frame DEF RunTyped
  <1>1. \A i, pair : WantedBy(i, pair)' = WantedBy(i, pair)
    BY <1>0 DEF WantedBy, Macs, Occurrences
  <1>4. \A pair : Wanted(pair)' = Wanted(pair)
    BY <1>0, <1>1 DEF Wanted
  <1> SUFFICES ASSUME NEW pair \in Mac \X Mac
               PROVE  /\ destiny = "ONOS" =>
                            /\ pc' \in {"generating", "posting", "written"} =>
                                  Cardinality(AsksNext(pair, Len(requests'))) = Cardinality(WantedUpTo(pair, Generated'))
                            /\ pc' \in {"posting", "written"} => Count(onosIntents', IntentOf(pair)) >= Cardinality(AsksNext(pair, sent'))
                            /\ Count(onosIntents', IntentOf(pair)) <=
                                  IF pc' \in Running
                                  THEN (runs' - 1) * Wanted(pair)
                                       + (IF pc' = "posting" THEN Cardinality(AsksNext(pair, sent')) ELSE 0)
                                  ELSE runs' * Wanted(pair)
                      /\ destiny # "ONOS" => onosIntents' = <<>>
    <2>1. \A pair : Cardinality(WantedUpTo(pair, Generated))' = Cardinality(WantedUpTo(pair, Generated'))
      BY <1>0, <1>1 DEF WantedUpTo
    <2>2. \A pair : /\ Cardinality(Asks(pair, Len(requests)))' = Cardinality(AsksNext(pair, Len(requests')))
                    /\ Cardinality(Asks(pair, sent))' = Cardinality(AsksNext(pair, sent'))
                    /\ Count(onosIntents, IntentOf(pair))' = Count(onosIntents', IntentOf(pair))
      BY DEF Asks, AsksNext, AskFor, Count, Occurrences
    <2> QED
      BY <1>0, <1>4, <2>1, <2>2 DEF OnosCounts
  <1>2. CASE destiny = "ONOS"
    <2>1. Asked(pair) /\ Installed(pair) /\ Bounded(pair)
      BY <1>2 DEF OnosCounts, Asked, Installed, Bounded, Bound
    <2> QED
      BY <1>2, <2>1, OnosStep
  <1>3. CASE destiny = "OPENDAYLIGHT"
    <2>1. onosIntents = <<>>
      BY <1>3 DEF OnosCounts
    <2>2. onosIntents' = onosIntents
      BY <1>3, IntentSteps, OdlAccepts
    <2> QED
      BY <1>3, <2>1, <2>2
  <1> QED
    BY <1>0, <1>2, <1>3

-----------------------------------------------------------------------------
(* The theorems.                                                           *)
LEMMA InitGeneration == Init => GenerationIInv
  <1> SUFFICES ASSUME Init PROVE GenerationIInv
    OBVIOUS
  <1>1. RunTyped
    BY InitTyped
  <1>2. /\ pc = "idle" /\ requests = <<>> /\ sent = 0 /\ runs = 0 /\ snapshot = {} /\ onosIntents = <<>>
        /\ odlIntents = [i \in IntentId |-> NoIntent]
    BY DEF Init
  <1>3. Built = 0 /\ Generated = 0 /\ DOMAIN requests = {} /\ Len(requests) = 0 /\ pc \notin Running
    BY <1>2 DEF Built, Generated, Running
  <1>4. SimulatedOnce /\ HostsBuilt /\ SnapshotIsKnown /\ NothingSent
    BY <1>2, <1>3 DEF SimulatedOnce, HostsBuilt, SnapshotIsKnown, HasMac, NothingSent
  <1>5. HostsProvided /\ OdlHostsKnown /\ OdlRequests
    BY <1>2, <1>3 DEF HostsProvided, OdlHostsKnown, OdlRequests
  <1>6. IntentsHaveHosts
    <2>1. \A id \in IntentId : DOMAIN odlIntents[id] = {}
      BY <1>2 DEF NoIntent
    <2> QED
      BY <1>2, <2>1 DEF IntentsHaveHosts
  <1>7. OnosCounts
    <2> SUFFICES ASSUME NEW pair \in Mac \X Mac
                 PROVE  Count(onosIntents, IntentOf(pair)) <= runs * Wanted(pair)
      BY <1>2, <1>3 DEF OnosCounts
    <2>1. Count(onosIntents, IntentOf(pair)) = 0
      <3>1. Occurrences(onosIntents, IntentOf(pair)) = {}
        BY <1>2 DEF Occurrences
      <3> QED
        BY <3>1, FS_EmptySet DEF Count
    <2>2. runs * Wanted(pair) \in Nat
      BY <1>1, CountTypes
    <2> QED
      BY <2>1, <2>2
  <1> QED
    BY <1>1, <1>4, <1>5, <1>6, <1>7 DEF GenerationIInv

LEMMA NextGeneration ==
  ASSUME GenerationIInv, [Next]_cgVars
  PROVE  GenerationIInv'
  <1>1. RunTyped'
    BY TypedStep DEF GenerationIInv
  <1>2. SimulatedOnce'
    BY SimulatedStep DEF GenerationIInv
  <1>3. HostsBuilt'
    BY HostsBuiltStep DEF GenerationIInv
  <1>4. IntentsHaveHosts'
    BY IntentsStep DEF GenerationIInv
  <1>5. HostsProvided'
    BY HostsProvidedStep DEF GenerationIInv
  <1>6. SnapshotIsKnown'
    BY SnapshotStep DEF GenerationIInv
  <1>7. OdlHostsKnown'
    BY OdlHostsStep DEF GenerationIInv
  <1>8. OdlRequests'
    BY OdlRequestsStep DEF GenerationIInv
  <1>9. OnosCounts'
    BY OnosCountsStep DEF GenerationIInv
  <1>10. NothingSent'
    BY NothingSentStep DEF GenerationIInv
  <1> QED
    BY <1>1, <1>2, <1>3, <1>4, <1>5, <1>6, <1>7, <1>8, <1>9, <1>10 DEF GenerationIInv

(* The phases of a run, in every run of every program.                     *)
THEOREM GenerationInvariant == Spec => []GenerationIInv
  <1>1. Init => GenerationIInv
    BY InitGeneration
  <1>2. GenerationIInv /\ [Next]_cgVars => GenerationIInv'
    BY NextGeneration
  <1> QED
    BY <1>1, <1>2, PTL DEF Spec

(* SemanticRulesChecker and DebugCodeGenerator extend one topology by      *)
(* different criteria, and still each host of the program is simulated,    *)
(* and none twice.                                                         *)
THEOREM TopologyIsShared == Spec => []TopologyInv
  <1>1. GenerationIInv => TopologyInv
    BY DEF GenerationIInv, RunTyped, TopologyInv
  <1> QED
    BY <1>1, GenerationInvariant, PTL

(* Whatever the controller refuses and whichever answers are lost, it has  *)
(* no intent for a host that it does not know.                             *)
THEOREM IntentHostsAreKnown == Spec => []IntentsHaveHosts
  <1>1. GenerationIInv => IntentsHaveHosts
    BY DEF GenerationIInv
  <1> QED
    BY <1>1, GenerationInvariant, PTL

LEMMA WrittenIsInstalled ==
  ASSUME GenerationIInv
  PROVE  RecordedIsInstalled
  <1> SUFFICES ASSUME pc = "written" PROVE RecordedIsInstalled
    BY DEF RecordedIsInstalled
  <1> DEFINE n == Len(program)
  <1>0. /\ RunTyped /\ HostsProvided /\ OdlRequests /\ OnosCounts
        /\ n \in Nat /\ n \in 0 .. n /\ DOMAIN program = 1 .. n /\ Generated = n
        /\ sent = Len(requests) /\ Len(requests) \in Nat
    BY ProgramFacts DEF GenerationIInv, RunTyped, TypeOK, Generated
  <1>1. \A kind : \A i \in Identifiers(kind) : i \in 1 .. Generated
    BY <1>0 DEF Identifiers
  <1>2. ASSUME destiny = "ONOS"
        PROVE  /\ \A i \in Identifiers("host") : Address(program[i]) \in hosts
               /\ \A pair \in Mac \X Mac : Count(onosIntents, IntentOf(pair)) >= Wanted(pair)
    <2>1. \A host : ~AskedBefore(Len(requests), host)
      BY <1>0 DEF AskedBefore
    <2>2. \A i \in Identifiers("host") : Address(program[i]) \in hosts
      BY <1>0, <1>1, <1>2, <2>1 DEF HostsProvided, Provided
    <2>3. ASSUME NEW pair \in Mac \X Mac PROVE Count(onosIntents, IntentOf(pair)) >= Wanted(pair)
      <3>1. Asked(pair) /\ Installed(pair)
        BY <1>0, <1>2 DEF OnosCounts, Asked, Installed
      <3>2. Cardinality(Asks(pair, Len(requests))) = Wanted(pair)
        BY <1>0, <3>1, AllAsked
      <3>3. Count(onosIntents, IntentOf(pair)) >= Cardinality(Asks(pair, Len(requests)))
        BY <1>0, <3>1 DEF Installed
      <3> QED
        BY <3>2, <3>3
    <2> QED
      BY <2>2, <2>3
  <1>3. ASSUME destiny = "OPENDAYLIGHT"
        PROVE  /\ Len(requests) = Cardinality(Identifiers("flow"))
               /\ \A i \in Identifiers("flow") :
                     \/ odlIntents[requests[RequestOf(i)].end_point] = <<Macs(program[i].src), Macs(program[i].dst)>>
                     \/ \E later \in RequestOf(i) + 1 .. Len(requests) :
                           requests[later].end_point = requests[RequestOf(i)].end_point
    <2>1. FlowsUpTo(n) = Identifiers("flow")
      BY <1>0, FlowCount
    <2>2. /\ Len(requests) = Cardinality(FlowsUpTo(n))
          /\ \A i \in 1 .. Generated : i \in Identifiers("flow") =>
                requests[RequestOf(i)].message = <<Macs(program[i].src), Macs(program[i].dst)>>
          /\ \A k \in 1 .. sent :
                \/ odlIntents[requests[k].end_point] = requests[k].message
                \/ \E later \in k + 1 .. sent : requests[later].end_point = requests[k].end_point
      BY <1>0, <1>3 DEF OdlRequests, FlowsUpTo
    <2>3. ASSUME NEW i \in Identifiers("flow")
          PROVE  \/ odlIntents[requests[RequestOf(i)].end_point] = <<Macs(program[i].src), Macs(program[i].dst)>>
                 \/ \E later \in RequestOf(i) + 1 .. Len(requests) :
                       requests[later].end_point = requests[RequestOf(i)].end_point
      <3>1. i \in 1 .. Generated /\ i \in 1 .. n
        BY <1>0, <1>1
      <3>2. RequestOf(i) \in 1 .. Cardinality(FlowsUpTo(n))
        BY <1>0, <3>1, RequestOfFlow
      <3>3. RequestOf(i) \in 1 .. sent
        BY <1>0, <2>2, <3>2
      <3> QED
        BY <1>0, <2>2, <3>1, <3>3
    <2> QED
      BY SMTT(30), <2>1, <2>2, <2>3
  <1> QED
    BY <1>2, <1>3 DEF RecordedIsInstalled

(* A run that writes its requests to a file has installed the program.     *)
THEOREM RecordIsTrue == Spec => []RecordedIsInstalled
  <1>1. GenerationIInv => RecordedIsInstalled
    BY WrittenIsInstalled
  <1> QED
    BY <1>1, GenerationInvariant, PTL

LEMMA RunsAddOnce ==
  ASSUME GenerationIInv
  PROVE  RunsAddAtMost
  <1>0. RunTyped /\ OnosCounts /\ NothingSent
    BY DEF GenerationIInv
  <1>1. ASSUME NEW pair \in Mac \X Mac PROVE Count(onosIntents, IntentOf(pair)) <= runs * Wanted(pair)
    <2> DEFINE C == Count(onosIntents, IntentOf(pair))
               W == Wanted(pair)
               P == (runs - 1) * W
               Q == runs * W
               a == Cardinality(Asks(pair, sent))
               l == Cardinality(Asks(pair, Len(requests)))
    <2>1. C \in Nat /\ W \in Nat /\ Q \in Nat /\ (pc \in Running => P \in Nat /\ Q = P + W)
      BY <1>0, CountTypes
    <2>2. CASE destiny = "ONOS"
      <3>1. Asked(pair) /\ C <= Bound(pair)
        BY <1>0, <2>2 DEF OnosCounts, Asked, Bound
      <3>2. CASE pc = "posting"
        <4>1. Bound(pair) = P + a
          BY <3>2 DEF Bound, Running
        <4>2. l = W
          BY <1>0, <3>1, <3>2, AllAsked
        <4>3. sent \in 0 .. Len(requests) /\ Len(requests) \in Nat
          BY <1>0 DEF RunTyped, TypeOK
        <4>4. a <= l /\ a \in Nat /\ l \in Nat
          BY <4>3, AsksFacts
        <4>5. P \in Nat /\ Q = P + W
          BY <2>1, <3>2 DEF Running
        <4> HIDE DEF C, W, P, Q, a, l
        <4> QED
          BY <2>1, <3>1, <4>1, <4>2, <4>4, <4>5 DEF C, Q, W
      <3>3. CASE pc \in Running /\ pc # "posting"
        <4>1. Bound(pair) = P + 0
          BY <3>3 DEF Bound
        <4> HIDE DEF C, W, P, Q, a, l
        <4>2. C <= Q
          BY <2>1, <3>1, <3>3, <4>1
        <4> QED
          BY <4>2 DEF C, Q, W
      <3>4. CASE pc \notin Running
        BY <3>1, <3>4 DEF Bound
      <3> QED
        BY <3>2, <3>3, <3>4
    <2>3. CASE destiny # "ONOS"
      <3>1. onosIntents = <<>>
        BY <1>0, <2>3 DEF OnosCounts
      <3>2. C = 0
        <4>1. Occurrences(onosIntents, IntentOf(pair)) = {}
          BY <3>1 DEF Occurrences
        <4> QED
          BY <4>1, FS_EmptySet DEF Count
      <3> HIDE DEF C, Q
      <3>3. C <= Q
        BY <2>1, <3>2
      <3> QED
        BY <3>3 DEF C, Q
    <2> QED
      BY <2>2, <2>3
  <1> QED
    BY <1>0, <1>1 DEF RunsAddAtMost, RepeatedOnlyByRuns, RejectedBeforeSending, NothingSent

(* A rejected run changes no intent, and any other creates each ONOS       *)
(* intent of the program at most once.                                     *)
THEOREM RunsAddAtMostOnce == Spec => []RunsAddAtMost
  <1>1. GenerationIInv => RunsAddAtMost
    BY RunsAddOnce
  <1> QED
    BY <1>1, GenerationInvariant, PTL

-----------------------------------------------------------------------------
(* Concatenations of tuples.                                               *)
LEMMA ConcatIs ==
  ASSUME NEW S, NEW s \in Seq(S), NEW t \in Seq(S), NEW u \in Seq(S), Len(u) = Len(s) + Len(t),
         \A i \in 1 .. Len(s) : u[i] = s[i], \A i \in 1 .. Len(t) : u[Len(s) + i] = t[i]
  PROVE  s \o t = u
  <1>1. /\ s \o t \in Seq(S) /\ Len(s \o t) = Len(s) + Len(t)
        /\ \A i \in 1 .. Len(s) + Len(t) : (s \o t)[i] = IF i <= Len(s) THEN s[i] ELSE t[i - Len(s)]
    BY ConcatProperties
  <1> DEFINE w == s \o t
  <1>2. Len(s) \in Nat /\ Len(t) \in Nat
    OBVIOUS
  <1>3. ASSUME NEW i \in 1 .. Len(w) PROVE w[i] = u[i]
    <2>0. i \in 1 .. Len(s) + Len(t) /\ w[i] = IF i <= Len(s) THEN s[i] ELSE t[i - Len(s)]
      BY <1>1
    <2> HIDE DEF w
    <2>1. CASE i <= Len(s)
      <3>1. i \in 1 .. Len(s)
        BY <1>2, <2>0, <2>1
      <3> QED
        BY <2>0, <2>1, <3>1
    <2>2. CASE ~(i <= Len(s))
      <3>1. PICK j \in 1 .. Len(t) : j = i - Len(s) /\ Len(s) + j = i
        BY <1>2, <2>0, <2>2
      <3>2. u[Len(s) + j] = t[j]
        OBVIOUS
      <3>3. w[i] = t[j]
        BY <2>0, <2>2, <3>1
      <3> QED
        BY <3>1, <3>2, <3>3
    <2> QED
      BY <2>1, <2>2
  <1>4. w \in Seq(S) /\ Len(w) = Len(u)
    BY <1>1
  <1> HIDE DEF w
  <1>5. w = u
    BY <1>3, <1>4, SeqEqual
  <1> QED
    BY <1>5 DEF w

LEMMA Concat11 ==
  ASSUME NEW a, NEW b
  PROVE  <<a>> \o <<b>> = <<a, b>>
  <1> DEFINE S == {a, b}
             s == <<a>>
             t == <<b>>
             u == <<a, b>>
  <1>1. s \in Seq(S) /\ t \in Seq(S) /\ u \in Seq(S) /\ Len(u) = Len(s) + Len(t)
    OBVIOUS
  <1>2. (\A i \in 1 .. Len(s) : u[i] = s[i]) /\ \A i \in 1 .. Len(t) : u[Len(s) + i] = t[i]
    <2>1. Len(s) = 1 /\ Len(t) = 1 /\ (\A i \in 1 .. 1 : u[i] = s[i]) /\ \A i \in 1 .. 1 : u[1 + i] = t[i]
      OBVIOUS
    <2> HIDE DEF s, t, u
    <2> QED
      BY <2>1
  <1> HIDE DEF S, s, t, u
  <1>3. s \o t = u
    BY <1>1, <1>2, ConcatIs
  <1> QED
    BY <1>3 DEF s, t, u

LEMMA Concat12 ==
  ASSUME NEW a, NEW b, NEW c
  PROVE  <<a>> \o <<b, c>> = <<a, b, c>>
  <1> DEFINE S == {a, b, c}
             s == <<a>>
             t == <<b, c>>
             u == <<a, b, c>>
  <1>1. s \in Seq(S) /\ t \in Seq(S) /\ u \in Seq(S) /\ Len(u) = Len(s) + Len(t)
    OBVIOUS
  <1>2. (\A i \in 1 .. Len(s) : u[i] = s[i]) /\ \A i \in 1 .. Len(t) : u[Len(s) + i] = t[i]
    <2>1. Len(s) = 1 /\ Len(t) = 2 /\ (\A i \in 1 .. 1 : u[i] = s[i]) /\ \A i \in 1 .. 2 : u[1 + i] = t[i]
      OBVIOUS
    <2> HIDE DEF s, t, u
    <2> QED
      BY <2>1
  <1> HIDE DEF S, s, t, u
  <1>3. s \o t = u
    BY <1>1, <1>2, ConcatIs
  <1> QED
    BY <1>3 DEF s, t, u

LEMMA Concat21 ==
  ASSUME NEW a, NEW b, NEW c
  PROVE  <<a, b>> \o <<c>> = <<a, b, c>>
  <1> DEFINE S == {a, b, c}
             s == <<a, b>>
             t == <<c>>
             u == <<a, b, c>>
  <1>1. s \in Seq(S) /\ t \in Seq(S) /\ u \in Seq(S) /\ Len(u) = Len(s) + Len(t)
    OBVIOUS
  <1>2. (\A i \in 1 .. Len(s) : u[i] = s[i]) /\ \A i \in 1 .. Len(t) : u[Len(s) + i] = t[i]
    <2>1. Len(s) = 2 /\ Len(t) = 1 /\ (\A i \in 1 .. 2 : u[i] = s[i]) /\ \A i \in 1 .. 1 : u[2 + i] = t[i]
      OBVIOUS
    <2> HIDE DEF s, t, u
    <2> QED
      BY <2>1
  <1> HIDE DEF S, s, t, u
  <1>3. s \o t = u
    BY <1>1, <1>2, ConcatIs
  <1> QED
    BY <1>3 DEF s, t, u

LEMMA Concat22 ==
  ASSUME NEW a, NEW b, NEW c, NEW d
  PROVE  <<a, b>> \o <<c, d>> = <<a, b, c, d>>
  <1> DEFINE S == {a, b, c, d}
             s == <<a, b>>
             t == <<c, d>>
             u == <<a, b, c, d>>
  <1>1. s \in Seq(S) /\ t \in Seq(S) /\ u \in Seq(S) /\ Len(u) = Len(s) + Len(t)
    OBVIOUS
  <1>2. (\A i \in 1 .. Len(s) : u[i] = s[i]) /\ \A i \in 1 .. Len(t) : u[Len(s) + i] = t[i]
    <2>1. Len(s) = 2 /\ Len(t) = 2 /\ (\A i \in 1 .. 2 : u[i] = s[i]) /\ \A i \in 1 .. 2 : u[2 + i] = t[i]
      OBVIOUS
    <2> HIDE DEF s, t, u
    <2> QED
      BY <2>1
  <1> HIDE DEF S, s, t, u
  <1>3. s \o t = u
    BY <1>1, <1>2, ConcatIs
  <1> QED
    BY <1>3 DEF s, t, u

LEMMA Concat23 ==
  ASSUME NEW a, NEW b, NEW c, NEW d, NEW e
  PROVE  <<a, b>> \o <<c, d, e>> = <<a, b, c, d, e>>
  <1> DEFINE S == {a, b, c, d, e}
             s == <<a, b>>
             t == <<c, d, e>>
             u == <<a, b, c, d, e>>
  <1>1. s \in Seq(S) /\ t \in Seq(S) /\ u \in Seq(S) /\ Len(u) = Len(s) + Len(t)
    OBVIOUS
  <1>2. (\A i \in 1 .. Len(s) : u[i] = s[i]) /\ \A i \in 1 .. Len(t) : u[Len(s) + i] = t[i]
    <2>1. Len(s) = 2 /\ Len(t) = 3 /\ (\A i \in 1 .. 2 : u[i] = s[i]) /\ \A i \in 1 .. 3 : u[2 + i] = t[i]
      OBVIOUS
    <2> HIDE DEF s, t, u
    <2> QED
      BY <2>1
  <1> HIDE DEF S, s, t, u
  <1>3. s \o t = u
    BY <1>1, <1>2, ConcatIs
  <1> QED
    BY <1>3 DEF s, t, u

LEMMA Concat31 ==
  ASSUME NEW a, NEW b, NEW c, NEW d
  PROVE  <<a, b, c>> \o <<d>> = <<a, b, c, d>>
  <1> DEFINE S == {a, b, c, d}
             s == <<a, b, c>>
             t == <<d>>
             u == <<a, b, c, d>>
  <1>1. s \in Seq(S) /\ t \in Seq(S) /\ u \in Seq(S) /\ Len(u) = Len(s) + Len(t)
    OBVIOUS
  <1>2. (\A i \in 1 .. Len(s) : u[i] = s[i]) /\ \A i \in 1 .. Len(t) : u[Len(s) + i] = t[i]
    <2>1. Len(s) = 3 /\ Len(t) = 1 /\ (\A i \in 1 .. 3 : u[i] = s[i]) /\ \A i \in 1 .. 1 : u[3 + i] = t[i]
      OBVIOUS
    <2> HIDE DEF s, t, u
    <2> QED
      BY <2>1
  <1> HIDE DEF S, s, t, u
  <1>3. s \o t = u
    BY <1>1, <1>2, ConcatIs
  <1> QED
    BY <1>3 DEF s, t, u

LEMMA Concat33 ==
  ASSUME NEW a, NEW b, NEW c, NEW d, NEW e, NEW f
  PROVE  <<a, b, c>> \o <<d, e, f>> = <<a, b, c, d, e, f>>
  <1> DEFINE S == {a, b, c, d, e, f}
             s == <<a, b, c>>
             t == <<d, e, f>>
             u == <<a, b, c, d, e, f>>
  <1>1. s \in Seq(S) /\ t \in Seq(S) /\ u \in Seq(S) /\ Len(u) = Len(s) + Len(t)
    OBVIOUS
  <1>2. (\A i \in 1 .. Len(s) : u[i] = s[i]) /\ \A i \in 1 .. Len(t) : u[Len(s) + i] = t[i]
    <2>1. Len(s) = 3 /\ Len(t) = 3 /\ (\A i \in 1 .. 3 : u[i] = s[i]) /\ \A i \in 1 .. 3 : u[3 + i] = t[i]
      OBVIOUS
    <2> HIDE DEF s, t, u
    <2> QED
      BY <2>1
  <1> HIDE DEF S, s, t, u
  <1>3. s \o t = u
    BY <1>1, <1>2, ConcatIs
  <1> QED
    BY <1>3 DEF s, t, u

LEMMA Concat41 ==
  ASSUME NEW a, NEW b, NEW c, NEW d, NEW e
  PROVE  <<a, b, c, d>> \o <<e>> = <<a, b, c, d, e>>
  <1> DEFINE S == {a, b, c, d, e}
             s == <<a, b, c, d>>
             t == <<e>>
             u == <<a, b, c, d, e>>
  <1>1. s \in Seq(S) /\ t \in Seq(S) /\ u \in Seq(S) /\ Len(u) = Len(s) + Len(t)
    OBVIOUS
  <1>2. (\A i \in 1 .. Len(s) : u[i] = s[i]) /\ \A i \in 1 .. Len(t) : u[Len(s) + i] = t[i]
    <2>1. Len(s) = 4 /\ Len(t) = 1 /\ (\A i \in 1 .. 4 : u[i] = s[i]) /\ \A i \in 1 .. 1 : u[4 + i] = t[i]
      OBVIOUS
    <2> HIDE DEF s, t, u
    <2> QED
      BY <2>1
  <1> HIDE DEF S, s, t, u
  <1>3. s \o t = u
    BY <1>1, <1>2, ConcatIs
  <1> QED
    BY <1>3 DEF s, t, u

LEMMA Concat43 ==
  ASSUME NEW a, NEW b, NEW c, NEW d, NEW e, NEW f, NEW g
  PROVE  <<a, b, c, d>> \o <<e, f, g>> = <<a, b, c, d, e, f, g>>
  <1> DEFINE S == {a, b, c, d, e, f, g}
             s == <<a, b, c, d>>
             t == <<e, f, g>>
             u == <<a, b, c, d, e, f, g>>
  <1>1. s \in Seq(S) /\ t \in Seq(S) /\ u \in Seq(S) /\ Len(u) = Len(s) + Len(t)
    OBVIOUS
  <1>2. (\A i \in 1 .. Len(s) : u[i] = s[i]) /\ \A i \in 1 .. Len(t) : u[Len(s) + i] = t[i]
    <2>1. Len(s) = 4 /\ Len(t) = 3 /\ (\A i \in 1 .. 4 : u[i] = s[i]) /\ \A i \in 1 .. 3 : u[4 + i] = t[i]
      OBVIOUS
    <2> HIDE DEF s, t, u
    <2> QED
      BY <2>1
  <1> HIDE DEF S, s, t, u
  <1>3. s \o t = u
    BY <1>1, <1>2, ConcatIs
  <1> QED
    BY <1>3 DEF s, t, u

(***************************************************************************)
(* The parser: words and languages.                                        *)
(***************************************************************************)
LEMMA SymbolFacts ==
  /\ "ASSIGN" \in Symbol /\ "EQUAL_PARAMETERS" \in Symbol /\ "LEFT_PARENTHESIS" \in Symbol
  /\ "RIGHT_PARENTHESIS" \in Symbol /\ "DOUBLE_QUOTE" \in Symbol /\ "LEFT_BRACE" \in Symbol
  /\ "RIGHT_BRACE" \in Symbol /\ "COMMA" \in Symbol /\ "ELEMENT" \in Symbol /\ "ACTION" \in Symbol
  /\ "CONDITION" \in Symbol /\ "STRING" \in Symbol /\ "INTENT" \in Symbol /\ "SELECT" \in Symbol
  /\ "IDENTIFIER" \in Symbol
  BY DEF Symbol, Marks, Elements

(* The two parts of a concatenation.                                       *)
LEMMA PartsOfConcat ==
  ASSUME NEW S, NEW u \in Seq(S), NEW v \in Seq(S)
  PROVE  Before(u \o v, Len(u)) = u /\ After(u \o v, Len(u)) = v
  <1> DEFINE s == u \o v
             b == SubSeq(s, 1, Len(u))
             a == SubSeq(s, Len(u) + 1, Len(s))
  <1>1. /\ Len(u) \in Nat /\ Len(v) \in Nat /\ s \in Seq(S) /\ Len(s) = Len(u) + Len(v)
        /\ \A i \in 1 .. Len(u) + Len(v) : s[i] = IF i <= Len(u) THEN u[i] ELSE v[i - Len(u)]
        /\ \A i \in 1 .. Len(s) : s[i] \in S
    <2>1. s \in Seq(S) /\ Len(s) = Len(u) + Len(v)
          /\ \A i \in 1 .. Len(u) + Len(v) : s[i] = IF i <= Len(u) THEN u[i] ELSE v[i - Len(u)]
      BY ConcatProperties
    <2> HIDE DEF s
    <2> QED
      BY <2>1
  <1> HIDE DEF s
  <1>2. b = u
    <2>1. /\ b \in Seq(S) /\ Len(b) = Len(u)
          /\ \A i \in 1 .. Len(u) - 1 + 1 : b[i] = s[1 + i - 1]
      <3>1. \A i \in 1 .. Len(u) : s[i] \in S
        BY <1>1
      <3>2. b \in Seq(S) /\ Len(b) = (IF 1 <= Len(u) THEN Len(u) - 1 + 1 ELSE 0)
            /\ \A i \in 1 .. Len(u) - 1 + 1 : b[i] = s[1 + i - 1]
        BY <1>1, <3>1, SubSeqProperties
      <3> HIDE DEF b
      <3> QED
        BY <1>1, <3>2
    <2> HIDE DEF b
    <2>2. \A i \in 1 .. Len(b) : b[i] = u[i]
      BY <1>1, <2>1
    <2> QED
      BY <2>1, <2>2, SeqEqual
  <1>3. a = v
    <2>1. /\ a \in Seq(S) /\ Len(a) = Len(v)
          /\ \A i \in 1 .. Len(v) : a[i] = s[Len(u) + 1 + i - 1]
      <3>1. \A i \in Len(u) + 1 .. Len(s) : s[i] \in S
        BY <1>1
      <3>2. a \in Seq(S) /\ Len(a) = (IF Len(u) + 1 <= Len(s) THEN Len(s) - (Len(u) + 1) + 1 ELSE 0)
            /\ \A i \in 1 .. Len(s) - (Len(u) + 1) + 1 : a[i] = s[(Len(u) + 1) + i - 1]
        <4>1. Len(u) + 1 \in Int /\ Len(s) \in Int
          BY <1>1
        <4> QED
          BY <3>1, <4>1, SubSeqProperties
      <3> HIDE DEF a
      <3> QED
        BY <1>1, <3>2
    <2> HIDE DEF a
    <2>2. ASSUME NEW i \in 1 .. Len(a) PROVE a[i] = v[i]
      <3>1. /\ i \in 1 .. Len(v) /\ Len(u) + 1 + i - 1 = Len(u) + i /\ Len(u) + i \in 1 .. Len(u) + Len(v)
            /\ ~(Len(u) + i <= Len(u)) /\ (Len(u) + i) - Len(u) = i
        BY <1>1, <2>1
      <3> QED
        BY <1>1, <2>1, <3>1
    <2> QED
      BY <2>1, <2>2, SeqEqual
  <1> QED
    BY <1>2, <1>3 DEF Before, After, s

(* A sequence is the concatenation of its parts.                           *)
LEMMA ConcatOfParts ==
  ASSUME NEW S, NEW s \in Seq(S), NEW i \in 0 .. Len(s)
  PROVE  /\ Before(s, i) \in Seq(S) /\ Len(Before(s, i)) = i
         /\ After(s, i) \in Seq(S)
         /\ Before(s, i) \o After(s, i) = s
  <1>1. Len(s) \in Nat /\ \A j \in 1 .. Len(s) : s[j] \in S
    OBVIOUS
  <1>2. SubSeq(s, 1, i) \in Seq(S) /\ Len(SubSeq(s, 1, i)) = i
    <2>1. \A j \in 1 .. i : s[j] \in S
      BY <1>1
    <2>2. /\ SubSeq(s, 1, i) \in Seq(S)
          /\ Len(SubSeq(s, 1, i)) = IF 1 <= i THEN i - 1 + 1 ELSE 0
      BY <1>1, <2>1, SubSeqProperties
    <2>3. (IF 1 <= i THEN i - 1 + 1 ELSE 0) = i
      BY <1>1
    <2> QED
      BY <2>2, <2>3
  <1>3. SubSeq(s, i + 1, Len(s)) \in Seq(S)
    <2>1. \A j \in i + 1 .. Len(s) : s[j] \in S
      BY <1>1
    <2>2. i + 1 \in Int /\ Len(s) \in Int
      BY <1>1
    <2> QED
      BY <2>1, <2>2, SubSeqProperties
  <1>4. SubSeq(s, 1, i) \o SubSeq(s, i + 1, Len(s)) = SubSeq(s, 1, Len(s))
    <2>1. 1 \in 1 .. Len(s) + 1 /\ i \in 1 - 1 .. Len(s) /\ Len(s) \in i .. Len(s)
      BY <1>1
    <2> QED
      BY <2>1, ConcatAdjacentSubSeq
  <1>5. SubSeq(s, 1, Len(s)) = s
    BY SubSeqFull
  <1> QED
    BY <1>2, <1>3, <1>4, <1>5, Zenon DEF Before, After

LEMMA LedIff ==
  ASSUME NEW w \in Seq(Symbol), NEW A \in SUBSET Seq(Symbol)
  PROVE  /\ Led(w, A) \in SUBSET Seq(Symbol)
         /\ \A s : s \in Led(w, A) <=> \E a \in A : s = w \o a
  <1>1. Led(w, A) \in SUBSET Seq(Symbol)
    BY DEF Led
  <1>2. ASSUME NEW s, s \in Led(w, A) PROVE \E a \in A : s = w \o a
    <2>1. s \in Seq(Symbol) /\ Len(w) <= Len(s) /\ Before(s, Len(w)) = w /\ After(s, Len(w)) \in A
      BY <1>2 DEF Led
    <2>2. Len(w) \in 0 .. Len(s)
      BY <2>1
    <2>3. Before(s, Len(w)) \o After(s, Len(w)) = s
      BY <2>1, <2>2, ConcatOfParts
    <2> QED
      BY <2>1, <2>3
  <1>3. ASSUME NEW a \in A PROVE w \o a \in Led(w, A)
    <2>1. w \o a \in Seq(Symbol) /\ Len(w \o a) = Len(w) + Len(a) /\ Len(a) \in Nat /\ Len(w) \in Nat
      BY ConcatProperties, LenProperties
    <2>2. Before(w \o a, Len(w)) = w /\ After(w \o a, Len(w)) = a
      BY PartsOfConcat
    <2> QED
      BY <2>1, <2>2 DEF Led
  <1> QED
    BY <1>1, <1>2, <1>3

LEMMA FollowedIff ==
  ASSUME NEW w \in Seq(Symbol), NEW A \in SUBSET Seq(Symbol)
  PROVE  /\ Followed(A, w) \in SUBSET Seq(Symbol)
         /\ \A s : s \in Followed(A, w) <=> \E a \in A : s = a \o w
  <1>1. Followed(A, w) \in SUBSET Seq(Symbol)
    BY DEF Followed
  <1>2. ASSUME NEW s, s \in Followed(A, w) PROVE \E a \in A : s = a \o w
    <2> DEFINE rest == Len(s) - Len(w)
    <2>1. s \in Seq(Symbol) /\ rest >= 0 /\ After(s, rest) = w /\ Before(s, rest) \in A
      BY <1>2 DEF Followed
    <2>2. rest \in 0 .. Len(s)
      BY <2>1
    <2> HIDE DEF rest
    <2>3. Before(s, rest) \o After(s, rest) = s
      BY <2>1, <2>2, ConcatOfParts
    <2> QED
      BY <2>1, <2>3
  <1>3. ASSUME NEW a \in A PROVE a \o w \in Followed(A, w)
    <2>1. a \o w \in Seq(Symbol) /\ Len(a \o w) = Len(a) + Len(w) /\ Len(a) \in Nat /\ Len(w) \in Nat
      BY ConcatProperties, LenProperties
    <2>2. Before(a \o w, Len(a)) = a /\ After(a \o w, Len(a)) = w
      BY PartsOfConcat
    <2>3. Len(a \o w) - Len(w) = Len(a)
      BY <2>1
    <2> QED
      BY <2>1, <2>2, <2>3 DEF Followed
  <1> QED
    BY <1>1, <1>2, <1>3

(* Members of A, each with a member of B behind it.                        *)
Cat(A, B) == {s \in Seq(Symbol) : \E a \in A, b \in B : s = a \o b}

Languages == SUBSET Seq(Symbol)

LEMMA CatIff ==
  ASSUME NEW A \in Languages, NEW B \in Languages
  PROVE  Cat(A, B) \in Languages /\ \A s : s \in Cat(A, B) <=> \E a \in A, b \in B : s = a \o b
  <1>1. \A a \in A, b \in B : a \o b \in Seq(Symbol)
    BY ConcatProperties DEF Languages
  <1> QED
    BY <1>1 DEF Cat, Languages

(* Laws of the three operators.                                            *)
LEMMA CatOfUnion ==
  ASSUME NEW A \in Languages, NEW B \in Languages, NEW C \in Languages
  PROVE  Cat(A \cup B, C) = Cat(A, C) \cup Cat(B, C)
  BY DEF Cat

LEMMA CatWithUnion ==
  ASSUME NEW A \in Languages, NEW B \in Languages, NEW C \in Languages
  PROVE  Cat(A, B \cup C) = Cat(A, B) \cup Cat(A, C)
  BY DEF Cat

LEMMA CatLed ==
  ASSUME NEW w \in Seq(Symbol), NEW A \in Languages, NEW C \in Languages
  PROVE  Cat(Led(w, A), C) = Led(w, Cat(A, C))
  <1>1. Led(w, A) \in Languages /\ \A s : s \in Led(w, A) <=> \E a \in A : s = w \o a
    BY LedIff DEF Languages
  <1>2. \A s : s \in Cat(Led(w, A), C) <=> \E b \in Led(w, A), c \in C : s = b \o c
    BY <1>1, CatIff
  <1>3. Cat(A, C) \in Languages /\ \A s : s \in Cat(A, C) <=> \E a \in A, c \in C : s = a \o c
    BY CatIff
  <1>4. \A s : s \in Led(w, Cat(A, C)) <=> \E d \in Cat(A, C) : s = w \o d
    BY <1>3, LedIff DEF Languages
  <1>5. ASSUME NEW a \in A, NEW c \in C PROVE (w \o a) \o c = w \o (a \o c)
    BY ConcatAssociative DEF Languages
  <1>6. ASSUME NEW s \in Cat(Led(w, A), C) PROVE s \in Led(w, Cat(A, C))
    <2>1. PICK b \in Led(w, A), c \in C : s = b \o c
      BY <1>2
    <2>2. PICK a \in A : b = w \o a
      BY <1>1
    <2>3. a \o c \in Cat(A, C) /\ s = w \o (a \o c)
      BY <1>3, <1>5, <2>1, <2>2
    <2> QED
      BY <1>4, <2>3
  <1>7. ASSUME NEW s \in Led(w, Cat(A, C)) PROVE s \in Cat(Led(w, A), C)
    <2>1. PICK d \in Cat(A, C) : s = w \o d
      BY <1>4
    <2>2. PICK a \in A, c \in C : d = a \o c
      BY <1>3
    <2>3. w \o a \in Led(w, A) /\ s = (w \o a) \o c
      BY <1>1, <1>5, <2>1, <2>2
    <2> QED
      BY <1>2, <2>3
  <1> QED
    BY <1>6, <1>7

LEMMA CatLedIs ==
  ASSUME NEW w \in Seq(Symbol), NEW A \in Languages, NEW C \in Languages,
         NEW X, X = Led(w, A), NEW B, B = Cat(A, C)
  PROVE  Cat(X, C) = Led(w, B)
  <1>1. Cat(Led(w, A), C) = Led(w, Cat(A, C))
    BY CatLed
  <1> QED
    BY <1>1, Zenon

LEMMA CatFollowed ==
  ASSUME NEW w \in Seq(Symbol), NEW A \in Languages, NEW C \in Languages
  PROVE  Cat(Followed(A, w), C) = Cat(A, Led(w, C))
  <1>1. Followed(A, w) \in Languages /\ \A s : s \in Followed(A, w) <=> \E a \in A : s = a \o w
    BY FollowedIff DEF Languages
  <1>2. \A s : s \in Cat(Followed(A, w), C) <=> \E b \in Followed(A, w), c \in C : s = b \o c
    BY <1>1, CatIff
  <1>3. Led(w, C) \in Languages /\ \A s : s \in Led(w, C) <=> \E c \in C : s = w \o c
    BY LedIff DEF Languages
  <1>4. \A s : s \in Cat(A, Led(w, C)) <=> \E a \in A, d \in Led(w, C) : s = a \o d
    BY <1>3, CatIff
  <1>5. ASSUME NEW a \in A, NEW c \in C PROVE (a \o w) \o c = a \o (w \o c)
    BY ConcatAssociative DEF Languages
  <1>6. ASSUME NEW s \in Cat(Followed(A, w), C) PROVE s \in Cat(A, Led(w, C))
    <2>1. PICK b \in Followed(A, w), c \in C : s = b \o c
      BY <1>2
    <2>2. PICK a \in A : b = a \o w
      BY <1>1
    <2>3. w \o c \in Led(w, C) /\ s = a \o (w \o c)
      BY <1>3, <1>5, <2>1, <2>2
    <2> QED
      BY <1>4, <2>3
  <1>7. ASSUME NEW s \in Cat(A, Led(w, C)) PROVE s \in Cat(Followed(A, w), C)
    <2>1. PICK a \in A, d \in Led(w, C) : s = a \o d
      BY <1>4
    <2>2. PICK c \in C : d = w \o c
      BY <1>3
    <2>3. a \o w \in Followed(A, w) /\ s = (a \o w) \o c
      BY <1>1, <1>5, <2>1, <2>2
    <2> QED
      BY <1>2, <2>3
  <1> QED
    BY <1>6, <1>7

LEMMA CatWord ==
  ASSUME NEW w \in Seq(Symbol), NEW C \in Languages
  PROVE  Cat({w}, C) = Led(w, C)
  <1>1. {w} \in Languages
    BY DEF Languages
  <1>2. \A s : s \in Cat({w}, C) <=> \E a \in {w}, c \in C : s = a \o c
    BY <1>1, CatIff
  <1>3. \A s : s \in Led(w, C) <=> \E c \in C : s = w \o c
    BY LedIff DEF Languages
  <1>4. ASSUME NEW s \in Cat({w}, C) PROVE s \in Led(w, C)
    BY <1>2, <1>3
  <1>5. ASSUME NEW s \in Led(w, C) PROVE s \in Cat({w}, C)
    <2>1. PICK c \in C : s = w \o c
      BY <1>3
    <2>2. w \in {w}
      OBVIOUS
    <2> QED
      BY <1>2, <2>1, <2>2
  <1> QED
    BY <1>4, <1>5

LEMMA LedEmpty ==
  ASSUME NEW C \in Languages
  PROVE  Led(<<>>, C) = C
  <1>1. <<>> \in Seq(Symbol)
    OBVIOUS
  <1>2. \A s : s \in Led(<<>>, C) <=> \E c \in C : s = <<>> \o c
    BY <1>1, LedIff DEF Languages
  <1>3. ASSUME NEW c \in C PROVE <<>> \o c = c
    BY ConcatEmptySeq DEF Languages
  <1>4. ASSUME NEW s \in Led(<<>>, C) PROVE s \in C
    BY <1>2, <1>3
  <1>5. ASSUME NEW s \in C PROVE s \in Led(<<>>, C)
    BY <1>2, <1>3
  <1> QED
    BY <1>4, <1>5

LEMMA LedTwice ==
  ASSUME NEW u \in Seq(Symbol), NEW w \in Seq(Symbol), NEW C \in Languages
  PROVE  Led(u \o w, C) = Led(u, Led(w, C))
  <1>0. u \o w \in Seq(Symbol)
    BY ConcatProperties
  <1>1. \A s : s \in Led(u \o w, C) <=> \E c \in C : s = (u \o w) \o c
    BY <1>0, LedIff DEF Languages
  <1>2. Led(w, C) \in Languages /\ \A s : s \in Led(w, C) <=> \E c \in C : s = w \o c
    BY LedIff DEF Languages
  <1>3. \A s : s \in Led(u, Led(w, C)) <=> \E d \in Led(w, C) : s = u \o d
    BY <1>2, LedIff DEF Languages
  <1>4. ASSUME NEW c \in C PROVE (u \o w) \o c = u \o (w \o c)
    BY SMTT(30), ConcatAssociative DEF Languages
  <1>5. ASSUME NEW s \in Led(u \o w, C) PROVE s \in Led(u, Led(w, C))
    <2>1. PICK c \in C : s = (u \o w) \o c
      BY <1>1
    <2>2. w \o c \in Led(w, C) /\ s = u \o (w \o c)
      BY <1>2, <1>4, <2>1
    <2> QED
      BY <1>3, <2>2
  <1>6. ASSUME NEW s \in Led(u, Led(w, C)) PROVE s \in Led(u \o w, C)
    <2>1. PICK d \in Led(w, C) : s = u \o d
      BY <1>3
    <2>2. PICK c \in C : d = w \o c
      BY <1>2
    <2>3. s = (u \o w) \o c
      BY <1>4, <2>1, <2>2
    <2> QED
      BY <1>1, <2>3
  <1> QED
    BY <1>5, <1>6

LEMMA LedUnions ==
  ASSUME NEW w \in Seq(Symbol), NEW A \in Languages, NEW B \in Languages
  PROVE  Led(w, A \cup B) = Led(w, A) \cup Led(w, B)
  BY DEF Led

(* What a word of one symbol leads.                                        *)
LEMMA LedOne ==
  ASSUME NEW k \in Symbol, NEW A \in Languages
  PROVE  /\ Led(<<k>>, A) \in Languages
         /\ <<>> \notin Led(<<k>>, A)
         /\ \A j \in Symbol, c \in Seq(Symbol) : <<j>> \o c \in Led(<<k>>, A) <=> j = k /\ c \in A
  <1>1. <<k>> \in Seq(Symbol) /\ Len(<<k>>) = 1
    OBVIOUS
  <1>2. Led(<<k>>, A) \in Languages /\ \A s : s \in Led(<<k>>, A) <=> \E a \in A : s = <<k>> \o a
    BY <1>1, LedIff DEF Languages
  <1>3. \A a \in A : <<k>> \o a # <<>>
    BY <1>1, ConcatEqualIffEmpty DEF Languages
  <1>4. ASSUME NEW j \in Symbol, NEW c \in Seq(Symbol), NEW a \in A, <<j>> \o c = <<k>> \o a
        PROVE  j = k /\ c = a
    <2>1. <<j>> \in Seq(Symbol) /\ Len(<<j>>) = 1 /\ a \in Seq(Symbol)
      BY DEF Languages
    <2>2. /\ Before(<<j>> \o c, Len(<<j>>)) = <<j>> /\ After(<<j>> \o c, Len(<<j>>)) = c
          /\ Before(<<k>> \o a, Len(<<k>>)) = <<k>> /\ After(<<k>> \o a, Len(<<k>>)) = a
      BY <1>1, <2>1, PartsOfConcat
    <2>3. <<j>> = <<k>> /\ c = a
      BY <1>1, <1>4, <2>1, <2>2
    <2> QED
      BY <2>3
  <1>5. <<>> \notin Led(<<k>>, A)
    BY <1>2, <1>3, Zenon
  <1>6. ASSUME NEW j \in Symbol, NEW c \in Seq(Symbol), <<j>> \o c \in Led(<<k>>, A)
        PROVE  j = k /\ c \in A
    <2>1. PICK a \in A : <<j>> \o c = <<k>> \o a
      BY <1>2, <1>6
    <2> QED
      BY <1>4, <2>1
  <1>7. ASSUME NEW c \in A PROVE <<k>> \o c \in Led(<<k>>, A)
    BY <1>2
  <1> QED
    BY <1>2, <1>5, <1>6, <1>7

-----------------------------------------------------------------------------
(* Repetition: a least fixed point exists, so the recursive function does. *)
IsRepeated(item, last, f) ==
  f = [s \in Seq(Symbol) |-> s \in last \/ \E i \in DOMAIN s : Before(s, i) \in item /\ f[After(s, i)]]

Longer(item, last, X) ==
  {s \in Seq(Symbol) : s \in last \/ \E i \in DOMAIN s : Before(s, i) \in item /\ After(s, i) \in X}

LEMMA LeastRepeated ==
  ASSUME NEW item, NEW last
  PROVE  \E L : L \in SUBSET Seq(Symbol) /\ L = Longer(item, last, L)
  <1> DEFINE M == {s \in Seq(Symbol) : \A X \in SUBSET Seq(Symbol) : Longer(item, last, X) \subseteq X => s \in X}
  <1>1. \A X, Y : X \subseteq Y => Longer(item, last, X) \subseteq Longer(item, last, Y)
    BY DEF Longer
  <1>2. ASSUME NEW s \in Longer(item, last, M) PROVE s \in M
    <2>1. s \in Seq(Symbol)
      BY DEF Longer
    <2>2. ASSUME NEW X \in SUBSET Seq(Symbol), Longer(item, last, X) \subseteq X PROVE s \in X
      <3>1. M \subseteq X
        BY <2>2
      <3> HIDE DEF M
      <3> QED
        BY <1>1, <2>2, <3>1
    <2> QED
      BY <2>1, <2>2
  <1>3. M \subseteq Longer(item, last, M)
    <2>1. Longer(item, last, Longer(item, last, M)) \subseteq Longer(item, last, M)
      <3> HIDE DEF M
      <3>1. Longer(item, last, M) \subseteq M
        BY <1>2
      <3> QED
        BY <1>1, <3>1
    <2>2. Longer(item, last, M) \in SUBSET Seq(Symbol)
      <3> HIDE DEF M
      <3> QED
        BY DEF Longer
    <2> QED
      BY <2>1, <2>2
  <1>4. M \in SUBSET Seq(Symbol)
    OBVIOUS
  <1> HIDE DEF M
  <1>5. M = Longer(item, last, M)
    BY <1>2, <1>3
  <1> QED
    BY <1>4, <1>5

LEMMA RepeatedUnfolds ==
  ASSUME NEW item \in Languages, <<>> \notin item, NEW last \in Languages
  PROVE  /\ Repeated(item, last) \in Languages
         /\ Repeated(item, last) = last \cup Cat(item, Repeated(item, last))
  <1> DEFINE g == CHOOSE f : IsRepeated(item, last, f)
             R == Repeated(item, last)
  <1>1. \E f : IsRepeated(item, last, f)
    <2>1. PICK L : L \in SUBSET Seq(Symbol) /\ L = Longer(item, last, L)
      BY LeastRepeated
    <2> DEFINE f == [s \in Seq(Symbol) |-> s \in L]
    <2>2. ASSUME NEW s \in Seq(Symbol)
          PROVE  (s \in L) = (s \in last \/ \E i \in DOMAIN s : Before(s, i) \in item /\ f[After(s, i)])
      <3>1. ASSUME NEW i \in DOMAIN s PROVE f[After(s, i)] = (After(s, i) \in L)
        <4>1. i \in 0 .. Len(s)
          BY LenProperties
        <4>2. After(s, i) \in Seq(Symbol)
          BY <4>1, ConcatOfParts
        <4> QED
          BY <4>2
      <3>2. (s \in L) <=> (s \in last \/ \E i \in DOMAIN s : Before(s, i) \in item /\ After(s, i) \in L)
        BY <2>1 DEF Longer
      <3> HIDE DEF f
      <3>3. (s \in L) <=> (s \in last \/ \E i \in DOMAIN s : Before(s, i) \in item /\ f[After(s, i)])
        BY <3>1, <3>2, Zenon
      <3> QED
        BY <3>3
    <2>3. f = [s \in Seq(Symbol) |-> s \in last \/ \E i \in DOMAIN s : Before(s, i) \in item /\ f[After(s, i)]]
      <3> DEFINE h == [s \in Seq(Symbol) |-> s \in last \/ \E i \in DOMAIN s : Before(s, i) \in item /\ f[After(s, i)]]
      <3>1. ASSUME NEW s \in Seq(Symbol) PROVE f[s] = h[s]
        BY <2>2, Zenon
      <3> QED
        BY <3>1, Zenon
    <2> QED
      BY <2>3, Zenon DEF IsRepeated
  <1>2. IsRepeated(item, last, g)
    BY <1>1
  <1>3. R = {s \in Seq(Symbol) : g[s]}
    BY Zenon DEF Repeated, IsRepeated
  <1>4. ASSUME NEW s \in Seq(Symbol)
        PROVE  s \in R <=> (s \in last \/ \E i \in DOMAIN s : Before(s, i) \in item /\ After(s, i) \in R)
    <2>1. g[s] = (s \in last \/ \E i \in DOMAIN s : Before(s, i) \in item /\ g[After(s, i)])
      BY <1>2, Zenon DEF IsRepeated
    <2>2. ASSUME NEW i \in DOMAIN s PROVE g[After(s, i)] <=> After(s, i) \in R
      <3>1. i \in 0 .. Len(s)
        BY LenProperties
      <3>2. After(s, i) \in Seq(Symbol)
        BY <3>1, ConcatOfParts
      <3> HIDE DEF g, R
      <3> QED
        BY <1>3, <3>2, Zenon
    <2>3. s \in R <=> g[s]
      <3> HIDE DEF g, R
      <3> QED
        BY <1>3, Zenon
    <2> HIDE DEF g, R
    <2> QED
      BY <2>1, <2>2, <2>3, Zenon
  <1>5. R \in Languages
    <2> HIDE DEF g, R
    <2> QED
      BY <1>3 DEF Languages
  <1> HIDE DEF g, R
  <1>6. Cat(item, R) \in Languages /\ \A s : s \in Cat(item, R) <=> \E a \in item, b \in R : s = a \o b
    BY <1>5, CatIff
  <1>7. ASSUME NEW s \in R PROVE s \in last \cup Cat(item, R)
    <2>1. s \in Seq(Symbol)
      BY <1>5 DEF Languages
    <2>2. ASSUME NEW i \in DOMAIN s, Before(s, i) \in item, After(s, i) \in R PROVE s \in Cat(item, R)
      <3>1. i \in 0 .. Len(s)
        BY <2>1, LenProperties
      <3>2. Before(s, i) \o After(s, i) = s
        BY <2>1, <3>1, ConcatOfParts
      <3> QED
        BY <1>6, <2>2, <3>2
    <2> QED
      BY <1>4, <2>1, <2>2
  <1>8. ASSUME NEW s \in last \cup Cat(item, R) PROVE s \in R
    <2>1. s \in Seq(Symbol)
      BY <1>6 DEF Languages
    <2>2. ASSUME NEW a \in item, NEW b \in R, s = a \o b PROVE s \in R
      <3>1. a \in Seq(Symbol) /\ b \in Seq(Symbol) /\ a # <<>>
        BY <1>5 DEF Languages
      <3>2. Before(s, Len(a)) = a /\ After(s, Len(a)) = b
        BY <2>2, <3>1, PartsOfConcat
      <3>3. Len(a) \in DOMAIN s
        <4>1. Len(s) = Len(a) + Len(b) /\ DOMAIN s = 1 .. Len(s) /\ Len(a) \in Nat \ {0} /\ Len(b) \in Nat
          BY <2>1, <2>2, <3>1, ConcatProperties, LenProperties, EmptySeq
        <4> QED
          BY <4>1
      <3> QED
        BY <1>4, <2>1, <3>2, <3>3
    <2> QED
      BY <1>4, <1>6, <2>1, <2>2
  <1> QED
    BY <1>5, <1>7, <1>8 DEF R

LEMMA CatTwice ==
  ASSUME NEW A \in Languages, NEW B \in Languages, NEW C \in Languages
  PROVE  Cat(Cat(A, B), C) = Cat(A, Cat(B, C))
  <1>1. Cat(A, B) \in Languages /\ \A s : s \in Cat(A, B) <=> \E a \in A, b \in B : s = a \o b
    BY CatIff
  <1>2. Cat(B, C) \in Languages /\ \A s : s \in Cat(B, C) <=> \E b \in B, c \in C : s = b \o c
    BY CatIff
  <1>3. \A s : s \in Cat(Cat(A, B), C) <=> \E d \in Cat(A, B), c \in C : s = d \o c
    BY <1>1, CatIff
  <1>4. \A s : s \in Cat(A, Cat(B, C)) <=> \E a \in A, d \in Cat(B, C) : s = a \o d
    BY <1>2, CatIff
  <1>5. ASSUME NEW a \in A, NEW b \in B, NEW c \in C PROVE (a \o b) \o c = a \o (b \o c)
    BY ConcatAssociative DEF Languages
  <1>6. ASSUME NEW s \in Cat(Cat(A, B), C) PROVE s \in Cat(A, Cat(B, C))
    <2>1. PICK d \in Cat(A, B), c \in C : s = d \o c
      BY <1>3
    <2>2. PICK a \in A, b \in B : d = a \o b
      BY <1>1
    <2>3. b \o c \in Cat(B, C) /\ s = a \o (b \o c)
      BY <1>2, <1>5, <2>1, <2>2
    <2> QED
      BY <1>4, <2>3
  <1>7. ASSUME NEW s \in Cat(A, Cat(B, C)) PROVE s \in Cat(Cat(A, B), C)
    <2>1. PICK a \in A, d \in Cat(B, C) : s = a \o d
      BY <1>4
    <2>2. PICK b \in B, c \in C : d = b \o c
      BY <1>2
    <2>3. a \o b \in Cat(A, B) /\ s = (a \o b) \o c
      BY <1>1, <1>5, <2>1, <2>2
    <2> QED
      BY <1>3, <2>3
  <1> QED
    BY <1>6, <1>7

(* What follows in the middle of a list.                                   *)
LEMMA RepeatedThen ==
  ASSUME NEW A \in Languages, NEW k \in Symbol, NEW L \in Languages, NEW C \in Languages,
         NEW R, R = Repeated(Followed(A, <<k>>), L)
  PROVE  R \in Languages /\ Cat(R, C) = Cat(L, C) \cup Cat(A, Led(<<k>>, Cat(R, C)))
  <1> DEFINE item == Followed(A, <<k>>)
  <1>1. <<k>> \in Seq(Symbol) /\ <<k>> # <<>>
    <2>1. <<k>> \in Seq(Symbol) /\ Len(<<k>>) = 1 /\ Len(<<>>) = 0
      OBVIOUS
    <2> QED
      BY <2>1
  <1>2. item \in Languages /\ \A s : s \in item <=> \E a \in A : s = a \o <<k>>
    BY <1>1, FollowedIff DEF Languages
  <1>3. <<>> \notin item
    <2>1. ASSUME NEW a \in A PROVE a \o <<k>> # <<>>
      BY <1>1, ConcatEqualIffEmpty DEF Languages
    <2> QED
      BY <1>2, <2>1
  <1> HIDE DEF item
  <1>4. R \in Languages /\ R = L \cup Cat(item, R)
    BY <1>2, <1>3, RepeatedUnfolds DEF item
  <1>5. Cat(item, R) \in Languages /\ Cat(R, C) \in Languages
    BY <1>2, <1>4, CatIff
  <1>6. Cat(R, C) = Cat(L, C) \cup Cat(Cat(item, R), C)
    BY <1>4, <1>5, CatOfUnion
  <1>7. Cat(Cat(item, R), C) = Cat(item, Cat(R, C))
    BY <1>2, <1>4, CatTwice
  <1>8. Cat(item, Cat(R, C)) = Cat(A, Led(<<k>>, Cat(R, C)))
    BY <1>1, <1>5, CatFollowed DEF item
  <1> QED
    BY <1>4, <1>6, <1>7, <1>8

(* Words of several symbols.                                               *)
LEMMA LedPair ==
  ASSUME NEW A \in Languages, NEW i \in Symbol, NEW j \in Symbol
  PROVE  Led(<<i, j>>, A) = Led(<<i>>, Led(<<j>>, A)) /\ Led(<<j>>, A) \in Languages
  <1>1. <<i>> \in Seq(Symbol) /\ <<j>> \in Seq(Symbol)
    OBVIOUS
  <1>2. <<i, j>> = <<i>> \o <<j>>
    BY Concat11
  <1>3. Led(<<j>>, A) \in Languages
    BY LedOne
  <1>4. Led(<<i>> \o <<j>>, A) = Led(<<i>>, Led(<<j>>, A))
    BY <1>1, LedTwice
  <1> QED
    BY <1>2, <1>3, <1>4

LEMMA LedTriple ==
  ASSUME NEW A \in Languages, NEW i \in Symbol, NEW j \in Symbol, NEW k \in Symbol
  PROVE  Led(<<i, j, k>>, A) = Led(<<i>>, Led(<<j>>, Led(<<k>>, A)))
  <1>1. <<i>> \in Seq(Symbol) /\ <<j, k>> \in Seq(Symbol)
    OBVIOUS
  <1>2. <<i, j, k>> = <<i>> \o <<j, k>>
    BY Concat12
  <1>3. Led(<<i>> \o <<j, k>>, A) = Led(<<i>>, Led(<<j, k>>, A))
    BY <1>1, LedTwice
  <1>4. Led(<<j, k>>, A) = Led(<<j>>, Led(<<k>>, A))
    BY LedPair
  <1> QED
    BY <1>2, <1>3, <1>4

LEMMA LedQuadruple ==
  ASSUME NEW A \in Languages, NEW i \in Symbol, NEW j \in Symbol, NEW k \in Symbol, NEW l \in Symbol
  PROVE  Led(<<i, j, k, l>>, A) = Led(<<i>>, Led(<<j>>, Led(<<k>>, Led(<<l>>, A))))
  <1> DEFINE B == Led(<<k>>, Led(<<l>>, A))
  <1>1. <<i, j>> \in Seq(Symbol) /\ <<k, l>> \in Seq(Symbol)
    OBVIOUS
  <1>2. <<i, j, k, l>> = <<i, j>> \o <<k, l>>
    BY Concat22
  <1>3. Led(<<i, j>> \o <<k, l>>, A) = Led(<<i, j>>, Led(<<k, l>>, A))
    BY <1>1, LedTwice
  <1>4. Led(<<k, l>>, A) = B /\ Led(<<l>>, A) \in Languages
    BY LedPair
  <1> DEFINE C == Led(<<l>>, A)
  <1>5. B \in Languages
    <2>1. C \in Languages /\ B = Led(<<k>>, C)
      BY <1>4
    <2> HIDE DEF C, B
    <2> QED
      BY <2>1, LedOne
  <1> HIDE DEF B
  <1>6. Led(<<i, j>>, B) = Led(<<i>>, Led(<<j>>, B))
    BY <1>5, LedPair
  <1>7. Led(<<i, j, k, l>>, A) = Led(<<i>>, Led(<<j>>, B))
    BY <1>2, <1>3, <1>4, <1>6
  <1> QED
    BY <1>7 DEF B

(* The sets of the grammar are languages.                                  *)
LEMMA LanguageTypes ==
  /\ Elem \in Languages /\ Elems \in Languages /\ Array \in Languages
  /\ Param \in Languages /\ Params \in Languages /\ Value \in Languages
  /\ Program \in Languages /\ Definition \in Languages /\ Intent \in Languages
  /\ <<>> \notin Definition /\ <<>> \notin Intent /\ <<>> \in Program
  <1> USE SymbolFacts
  <1>1. ASSUME NEW A \in Languages, NEW k \in Symbol, NEW L \in Languages
        PROVE  Repeated(Followed(A, <<k>>), L) \in Languages /\ Followed(A, <<k>>) \in Languages
    <2>1. <<k>> \in Seq(Symbol)
      OBVIOUS
    <2>2. Followed(A, <<k>>) \in Languages
      BY <2>1, FollowedIff DEF Languages
    <2>3. Repeated(Followed(A, <<k>>), L) \in Languages
      BY RepeatedThen
    <2> QED
      BY <2>2, <2>3
  <1>2. ASSUME NEW A \in Languages, NEW w \in Seq(Symbol) PROVE Led(w, A) \in Languages
    BY LedIff DEF Languages
  <1>3. Elem \in Languages
    BY DEF Elem, Quoted, Languages
  <1>4. Elems \in Languages
    BY <1>1, <1>3 DEF Elems
  <1>5. Array \in Languages
    <2>1. Followed(Elems, <<"RIGHT_BRACE">>) \in Languages
      BY <1>1, <1>4
    <2>2. <<"LEFT_BRACE">> \in Seq(Symbol)
      OBVIOUS
    <2> QED
      BY <1>2, <2>1, <2>2 DEF Array
  <1>6. Param \in Languages
    <2>1. Elem \cup Array \in Languages
      BY <1>3, <1>5 DEF Languages
    <2>2. <<"IDENTIFIER", "EQUAL_PARAMETERS">> \in Seq(Symbol)
      OBVIOUS
    <2> QED
      BY <1>2, <2>1, <2>2 DEF Param
  <1>7. Params \in Languages
    <2> DEFINE L == Param \cup {<<>>}
    <2>1. L \in Languages
      <3>1. <<>> \in Seq(Symbol)
        OBVIOUS
      <3> QED
        BY <1>6, <3>1 DEF Languages
    <2>2. Params = Repeated(Followed(Param, <<"COMMA">>), L)
      BY DEF Params
    <2> HIDE DEF L
    <2> QED
      BY <1>1, <1>6, <2>1, <2>2
  <1>8. Value \in Languages
    <2>1. Followed(Params, <<"RIGHT_PARENTHESIS">>) \in Languages
      BY <1>1, <1>7
    <2>2. <<"LEFT_PARENTHESIS">> \in Seq(Symbol)
      OBVIOUS
    <2> QED
      BY <1>2, <2>1, <2>2 DEF Value
  <1>9. Definition \in Languages /\ <<>> \notin Definition
    <2>1. Led(<<"ELEMENT">>, Value) \cup Led(<<"ACTION">>, Value) \cup Led(<<"CONDITION">>, Value) \in Languages
      <3>1. /\ Led(<<"ELEMENT">>, Value) \in Languages /\ Led(<<"ACTION">>, Value) \in Languages
            /\ Led(<<"CONDITION">>, Value) \in Languages
        BY <1>8, LedOne
      <3> QED
        BY <3>1 DEF Languages
    <2> DEFINE X == Led(<<"ELEMENT">>, Value) \cup Led(<<"ACTION">>, Value) \cup Led(<<"CONDITION">>, Value)
    <2>2. Definition = Led(<<"IDENTIFIER", "ASSIGN">>, X)
      BY DEF Definition
    <2> HIDE DEF X
    <2>3. X \in Languages
      BY <2>1 DEF X
    <2> DEFINE Y == Led(<<"ASSIGN">>, X)
    <2>4. Definition = Led(<<"IDENTIFIER">>, Y)
      BY <2>2, <2>3, LedPair
    <2>5. Y \in Languages
      BY <2>3, LedOne
    <2> HIDE DEF Y
    <2>6. Led(<<"IDENTIFIER">>, Y) \in Languages /\ <<>> \notin Led(<<"IDENTIFIER">>, Y)
      BY <2>5, LedOne
    <2> QED
      BY <2>4, <2>6
  <1>10. Intent \in Languages /\ <<>> \notin Intent
    <2> DEFINE p == <<"INTENT", "IDENTIFIER", "SELECT", "IDENTIFIER">>
               a == <<"ACTION", "IDENTIFIER">>
               c == <<"CONDITION", "IDENTIFIER">>
    <2>1. Intent = {p, p \o a, (p \o a) \o c}
      BY DEF Intent
    <2>2. p \in Seq(Symbol) /\ a \in Seq(Symbol) /\ c \in Seq(Symbol) /\ p # <<>>
      <3>1. Len(p) = 4 /\ Len(<<>>) = 0
        OBVIOUS
      <3>2. p # <<>>
        BY <3>1
      <3> QED
        BY <3>2
    <2> HIDE DEF p, a, c
    <2>3. p \o a \in Seq(Symbol) /\ p \o a # <<>>
      BY <2>2, ConcatProperties, ConcatEqualIffEmpty
    <2>4. (p \o a) \o c \in Seq(Symbol) /\ (p \o a) \o c # <<>>
      BY <2>2, <2>3, ConcatProperties, ConcatEqualIffEmpty
    <2> QED
      BY <2>1, <2>2, <2>3, <2>4 DEF Languages
  <1>11. Program \in Languages /\ <<>> \in Program
    <2> DEFINE D == Definition \cup Intent
    <2>1. D \in Languages /\ <<>> \notin D /\ {<<>>} \in Languages
      BY <1>9, <1>10 DEF Languages
    <2> HIDE DEF D
    <2>2. Program = Repeated(D, {<<>>})
      BY DEF Program, D
    <2>3. Program \in Languages /\ Program = {<<>>} \cup Cat(D, Program)
      BY <2>1, <2>2, RepeatedUnfolds
    <2> QED
      BY <2>3
  <1> QED
    BY <1>3, <1>4, <1>5, <1>6, <1>7, <1>8, <1>9, <1>10, <1>11

-----------------------------------------------------------------------------
(* What may follow at the points of a program between two symbols.         *)
InParams    == Cat(Params, Led(<<"RIGHT_PARENTHESIS">>, Program))
InMore      == Led(<<"RIGHT_PARENTHESIS">>, Program) \cup Led(<<"COMMA">>, InParams)
InValue     == Cat(Elem \cup Array, InMore)
InElems     == Cat(Elems, Led(<<"RIGHT_BRACE">>, InMore))
InMoreElems == Led(<<"RIGHT_BRACE">>, InMore) \cup Led(<<"COMMA">>, InElems)
InElement   == Led(<<"LEFT_PARENTHESIS">>, InParams)
InHead      == Led(<<"ELEMENT">>, InElement) \cup Led(<<"ACTION">>, InElement) \cup Led(<<"CONDITION">>, InElement)
InCondition == Program \cup Led(<<"CONDITION">>, Led(<<"IDENTIFIER">>, Program))
InAction    == Program \cup Led(<<"ACTION">>, Led(<<"IDENTIFIER">>, InCondition))
InIntent    == Led(<<"IDENTIFIER">>, Led(<<"SELECT">>, Led(<<"IDENTIFIER">>, InAction)))

LEMMA LedTypes ==
  ASSUME NEW k \in Symbol, NEW A \in Languages, NEW B \in Languages
  PROVE  Led(<<k>>, A) \in Languages /\ A \cup B \in Languages
  <1>1. A \cup B \in Languages
    BY DEF Languages
  <1> QED
    BY <1>1, LedOne

LEMMA RestTypes ==
  /\ InParams \in Languages /\ InMore \in Languages /\ InValue \in Languages
  /\ InElems \in Languages /\ InMoreElems \in Languages /\ InElement \in Languages
  /\ InHead \in Languages /\ InCondition \in Languages /\ InAction \in Languages
  /\ InIntent \in Languages
  <1>1. InParams \in Languages /\ Led(<<"RIGHT_PARENTHESIS">>, Program) \in Languages
    <2>1. Led(<<"RIGHT_PARENTHESIS">>, Program) \in Languages
      BY LedTypes, LanguageTypes, SymbolFacts
    <2> QED
      BY <2>1, LanguageTypes, CatIff DEF InParams
  <1>2. InMore \in Languages
    <2>1. Led(<<"COMMA">>, InParams) \in Languages
      BY <1>1, LedTypes, SymbolFacts
    <2> QED
      BY <1>1, <2>1, LedTypes, SymbolFacts DEF InMore
  <1>3. InValue \in Languages
    <2>1. Elem \cup Array \in Languages
      BY LanguageTypes, LedTypes, SymbolFacts
    <2> QED
      BY <1>2, <2>1, CatIff DEF InValue
  <1>4. InElems \in Languages /\ Led(<<"RIGHT_BRACE">>, InMore) \in Languages
    <2>1. Led(<<"RIGHT_BRACE">>, InMore) \in Languages
      BY <1>2, LedTypes, SymbolFacts
    <2> QED
      BY <2>1, LanguageTypes, CatIff DEF InElems
  <1>5. InMoreElems \in Languages
    <2>1. Led(<<"COMMA">>, InElems) \in Languages
      BY <1>4, LedTypes, SymbolFacts
    <2> QED
      BY <1>4, <2>1, LedTypes, SymbolFacts DEF InMoreElems
  <1>6. InElement \in Languages
    BY <1>1, LedTypes, SymbolFacts DEF InElement
  <1>7. InHead \in Languages
    <2>1. /\ Led(<<"ELEMENT">>, InElement) \in Languages /\ Led(<<"ACTION">>, InElement) \in Languages
          /\ Led(<<"CONDITION">>, InElement) \in Languages
      BY <1>6, LedTypes, SymbolFacts
    <2> QED
      BY <2>1 DEF InHead, Languages
  <1>8. InCondition \in Languages
    <2>1. Led(<<"IDENTIFIER">>, Program) \in Languages
      BY LedTypes, LanguageTypes, SymbolFacts
    <2>2. Led(<<"CONDITION">>, Led(<<"IDENTIFIER">>, Program)) \in Languages
      BY <2>1, LedTypes, SymbolFacts
    <2> QED
      BY <2>2, LanguageTypes, LedTypes, SymbolFacts DEF InCondition
  <1>9. InAction \in Languages
    <2>1. Led(<<"IDENTIFIER">>, InCondition) \in Languages
      BY <1>8, LedTypes, SymbolFacts
    <2>2. Led(<<"ACTION">>, Led(<<"IDENTIFIER">>, InCondition)) \in Languages
      BY <2>1, LedTypes, SymbolFacts
    <2> QED
      BY <2>2, LanguageTypes, LedTypes, SymbolFacts DEF InAction
  <1>10. InIntent \in Languages
    <2>1. Led(<<"IDENTIFIER">>, InAction) \in Languages
      BY <1>9, LedTypes, SymbolFacts
    <2>2. Led(<<"SELECT">>, Led(<<"IDENTIFIER">>, InAction)) \in Languages
      BY <2>1, LedTypes, SymbolFacts
    <2> QED
      BY <2>2, LedTypes, SymbolFacts DEF InIntent
  <1> QED
    BY <1>1, <1>2, <1>3, <1>4, <1>5, <1>6, <1>7, <1>8, <1>9, <1>10

LEMMA ElemThen ==
  ASSUME NEW C \in Languages
  PROVE  Cat(Elem, C) = Led(<<"IDENTIFIER">>, C)
                          \cup Led(<<"DOUBLE_QUOTE">>, Led(<<"STRING">>, Led(<<"DOUBLE_QUOTE">>, C)))
  <1> DEFINE i == <<"IDENTIFIER">>
             q == <<"DOUBLE_QUOTE", "STRING", "DOUBLE_QUOTE">>
  <1>1. i \in Seq(Symbol) /\ q \in Seq(Symbol)
    BY SymbolFacts
  <1>2. Elem = {i} \cup {q}
    BY DEF Elem, Quoted
  <1>3. Led(q, C) = Led(<<"DOUBLE_QUOTE">>, Led(<<"STRING">>, Led(<<"DOUBLE_QUOTE">>, C)))
    BY LedTriple, SymbolFacts
  <1> HIDE DEF i, q
  <1>4. {i} \in Languages /\ {q} \in Languages
    BY <1>1 DEF Languages
  <1>5. Cat({i} \cup {q}, C) = Cat({i}, C) \cup Cat({q}, C)
    BY <1>4, CatOfUnion
  <1>6. Cat({i}, C) = Led(i, C) /\ Cat({q}, C) = Led(q, C)
    BY <1>1, CatWord
  <1>7. Cat(Elem, C) = Led(i, C) \cup Led(q, C)
    BY <1>2, <1>5, <1>6
  <1> QED
    BY <1>3, <1>7 DEF i

LEMMA ParamsUnfold ==
  InParams = Led(<<"RIGHT_PARENTHESIS">>, Program) \cup Led(<<"IDENTIFIER">>, Led(<<"EQUAL_PARAMETERS">>, InValue))
  <1> DEFINE C == Led(<<"RIGHT_PARENTHESIS">>, Program)
             D == Led(<<"COMMA">>, InParams)
             V == Elem \cup Array
             E == {<<>>}
  <1>1. /\ C \in Languages /\ D \in Languages /\ V \in Languages /\ E \in Languages /\ Param \in Languages
        /\ Param \cup E \in Languages
    <2>1. C \in Languages /\ D \in Languages /\ V \in Languages
      BY LedTypes, LanguageTypes, RestTypes, SymbolFacts
    <2>2. E \in Languages /\ Param \in Languages
      BY LanguageTypes DEF Languages
    <2> QED
      BY <2>1, <2>2 DEF Languages
  <1>2. InMore = C \cup D /\ InParams = Cat(Params, C) /\ InValue = Cat(V, InMore)
    BY DEF InMore, InParams, InValue
  <1>3. Params = Repeated(Followed(Param, <<"COMMA">>), Param \cup E)
    BY DEF Params
  <1>4. D = Led(<<"COMMA">>, Cat(Params, C))
    BY DEF InParams
  <1>5. Param = Led(<<"IDENTIFIER", "EQUAL_PARAMETERS">>, V)
    BY DEF Param
  <1>6. Cat(E, C) = C
    <2>1. <<>> \in Seq(Symbol)
      OBVIOUS
    <2> QED
      BY <1>1, <2>1, CatWord, LedEmpty
  <1> HIDE DEF C, D, V, E
  <1>7. Cat(Params, C) = Cat(Param \cup E, C) \cup Cat(Param, D)
    BY <1>1, <1>3, <1>4, RepeatedThen, SymbolFacts
  <1>8. Cat(Param \cup E, C) = Cat(Param, C) \cup C
    BY <1>1, <1>6, CatOfUnion
  <1>9. Cat(Param, C \cup D) = Cat(Param, C) \cup Cat(Param, D)
    BY <1>1, CatWithUnion
  <1>10. InParams = C \cup Cat(Param, InMore)
    BY <1>2, <1>7, <1>8, <1>9
  <1>11. Cat(Param, InMore) = Led(<<"IDENTIFIER", "EQUAL_PARAMETERS">>, InValue)
    <2>1. <<"IDENTIFIER", "EQUAL_PARAMETERS">> \in Seq(Symbol)
      BY SymbolFacts
    <2> DEFINE w == <<"IDENTIFIER", "EQUAL_PARAMETERS">>
    <2>2. w \in Seq(Symbol) /\ Param = Led(w, V)
      BY <1>5, <2>1
    <2> HIDE DEF w
    <2>3. Cat(Param, InMore) = Led(w, InValue)
      BY <1>1, <1>2, <2>2, CatLedIs, RestTypes
    <2> QED
      BY <2>3 DEF w
  <1>12. Led(<<"IDENTIFIER", "EQUAL_PARAMETERS">>, InValue)
            = Led(<<"IDENTIFIER">>, Led(<<"EQUAL_PARAMETERS">>, InValue))
    BY LedPair, RestTypes, SymbolFacts
  <1>13. InParams = C \cup Led(<<"IDENTIFIER">>, Led(<<"EQUAL_PARAMETERS">>, InValue))
    BY <1>10, <1>11, <1>12
  <1> QED
    BY <1>13 DEF C

LEMMA ElemsUnfold ==
  InElems = Led(<<"IDENTIFIER">>, InMoreElems)
              \cup Led(<<"DOUBLE_QUOTE">>, Led(<<"STRING">>, Led(<<"DOUBLE_QUOTE">>, InMoreElems)))
  <1> DEFINE C == Led(<<"RIGHT_BRACE">>, InMore)
             D == Led(<<"COMMA">>, InElems)
  <1>1. C \in Languages /\ D \in Languages /\ Elem \in Languages
    BY LedTypes, LanguageTypes, RestTypes, SymbolFacts
  <1>2. InMoreElems = C \cup D /\ InElems = Cat(Elems, C) /\ D = Led(<<"COMMA">>, Cat(Elems, C))
    BY DEF InMoreElems, InElems
  <1> HIDE DEF C, D
  <1>3. Elems = Repeated(Followed(Elem, <<"COMMA">>), Elem)
    BY DEF Elems
  <1>4. Cat(Elems, C) = Cat(Elem, C) \cup Cat(Elem, D)
    BY <1>1, <1>2, <1>3, RepeatedThen, SymbolFacts
  <1>5. Cat(Elem, C \cup D) = Cat(Elem, C) \cup Cat(Elem, D)
    BY <1>1, CatWithUnion
  <1>6. InElems = Cat(Elem, InMoreElems)
    BY <1>2, <1>4, <1>5
  <1> QED
    BY <1>6, ElemThen, RestTypes

LEMMA ValueUnfolds ==
  InValue = Led(<<"IDENTIFIER">>, InMore)
              \cup Led(<<"DOUBLE_QUOTE">>, Led(<<"STRING">>, Led(<<"DOUBLE_QUOTE">>, InMore)))
              \cup Led(<<"LEFT_BRACE">>, InElems)
  <1> DEFINE F == Followed(Elems, <<"RIGHT_BRACE">>)
  <1>0. <<"RIGHT_BRACE">> \in Seq(Symbol) /\ <<"LEFT_BRACE">> \in Seq(Symbol)
    BY SymbolFacts
  <1>1. F \in Languages
    BY <1>0, LanguageTypes, FollowedIff DEF Languages
  <1>2. Cat(F, InMore) = InElems
    <2>1. Elems \in Languages /\ InMore \in Languages
      BY LanguageTypes, RestTypes
    <2> DEFINE w == <<"RIGHT_BRACE">>
    <2>2. F = Followed(Elems, w) /\ InElems = Cat(Elems, Led(w, InMore)) /\ w \in Seq(Symbol)
      BY <1>0 DEF InElems
    <2> HIDE DEF F, w
    <2>3. Cat(Followed(Elems, w), InMore) = Cat(Elems, Led(w, InMore))
      BY <2>1, <2>2, CatFollowed
    <2> QED
      BY <2>2, <2>3
  <1>3. Array = Led(<<"LEFT_BRACE">>, F)
    BY DEF Array
  <1> HIDE DEF F
  <1>4. Cat(Array, InMore) = Led(<<"LEFT_BRACE">>, InElems)
    <2> DEFINE w == <<"LEFT_BRACE">>
    <2>1. w \in Seq(Symbol) /\ Array = Led(w, F) /\ InElems = Cat(F, InMore) /\ InMore \in Languages
      BY <1>0, <1>2, <1>3, RestTypes
    <2> HIDE DEF w
    <2>2. Cat(Array, InMore) = Led(w, InElems)
      BY <1>1, <2>1, CatLedIs
    <2> QED
      BY <2>2 DEF w
  <1>5. InValue = Cat(Elem, InMore) \cup Cat(Array, InMore)
    BY LanguageTypes, RestTypes, CatOfUnion DEF InValue
  <1> QED
    BY <1>4, <1>5, ElemThen, RestTypes

LEMMA DefinitionThen ==
  Cat(Definition, Program) = Led(<<"IDENTIFIER">>, Led(<<"ASSIGN">>, InHead))
  <1> DEFINE F == Followed(Params, <<"RIGHT_PARENTHESIS">>)
             E == Led(<<"ELEMENT">>, Value)
             A == Led(<<"ACTION">>, Value)
             C == Led(<<"CONDITION">>, Value)
             w == <<"IDENTIFIER", "ASSIGN">>
  <1>0. /\ <<"RIGHT_PARENTHESIS">> \in Seq(Symbol) /\ <<"LEFT_PARENTHESIS">> \in Seq(Symbol) /\ w \in Seq(Symbol)
        /\ <<"ELEMENT">> \in Seq(Symbol) /\ <<"ACTION">> \in Seq(Symbol) /\ <<"CONDITION">> \in Seq(Symbol)
    BY SymbolFacts
  <1>1. F \in Languages /\ Cat(F, Program) = InParams
    <2>1. F \in Languages
      BY <1>0, LanguageTypes, FollowedIff DEF Languages
    <2> DEFINE l == <<"RIGHT_PARENTHESIS">>
    <2>2. F = Followed(Params, l) /\ InParams = Cat(Params, Led(l, Program)) /\ l \in Seq(Symbol)
      BY <1>0 DEF InParams
    <2>3. Params \in Languages /\ Program \in Languages
      BY LanguageTypes
    <2> HIDE DEF F, l
    <2>4. Cat(Followed(Params, l), Program) = Cat(Params, Led(l, Program))
      BY <2>2, <2>3, CatFollowed
    <2> QED
      BY <2>1, <2>2, <2>4
  <1>2. Value = Led(<<"LEFT_PARENTHESIS">>, F) /\ Definition = Led(w, E \cup A \cup C)
    BY DEF Value, Definition
  <1>3. Cat(Value, Program) = InElement
    <2> DEFINE l == <<"LEFT_PARENTHESIS">>
    <2>1. l \in Seq(Symbol) /\ Value = Led(l, F) /\ InElement = Led(l, InParams)
      BY <1>0, <1>2 DEF InElement
    <2> HIDE DEF F, l
    <2>2. Cat(Value, Program) = Led(l, InParams)
      BY <1>1, <2>1, LanguageTypes, CatLedIs
    <2> QED
      BY <2>1, <2>2
  <1>4. /\ Cat(E, Program) = Led(<<"ELEMENT">>, InElement) /\ Cat(A, Program) = Led(<<"ACTION">>, InElement)
        /\ Cat(C, Program) = Led(<<"CONDITION">>, InElement)
    <2>1. ASSUME NEW v \in Seq(Symbol) PROVE Cat(Led(v, Value), Program) = Led(v, InElement)
      BY <1>3, LanguageTypes, CatLedIs
    <2> QED
      BY <1>0, <2>1
  <1>5. E \in Languages /\ A \in Languages /\ C \in Languages
    BY LanguageTypes, LedTypes, SymbolFacts
  <1>6. Led(w, InHead) = Led(<<"IDENTIFIER">>, Led(<<"ASSIGN">>, InHead))
    BY LedPair, RestTypes, SymbolFacts
  <1> HIDE DEF E, A, C, w
  <1>7. E \cup A \in Languages /\ E \cup A \cup C \in Languages
    BY <1>5 DEF Languages
  <1>8. Cat(E \cup A \cup C, Program) = InHead
    <2>1. Cat(E \cup A, Program) = Cat(E, Program) \cup Cat(A, Program)
      BY <1>5, LanguageTypes, CatOfUnion
    <2>2. Cat((E \cup A) \cup C, Program) = Cat(E \cup A, Program) \cup Cat(C, Program)
      BY <1>5, <1>7, LanguageTypes, CatOfUnion
    <2> QED
      BY <1>4, <2>1, <2>2 DEF InHead
  <1>9. Cat(Definition, Program) = Led(w, InHead)
    BY <1>0, <1>2, <1>7, <1>8, LanguageTypes, CatLed
  <1> QED
    BY <1>6, <1>9

LEMMA IntentThen ==
  Cat(Intent, Program) = Led(<<"INTENT">>, InIntent)
  <1> DEFINE p == <<"INTENT", "IDENTIFIER", "SELECT", "IDENTIFIER">>
             a == <<"ACTION", "IDENTIFIER">>
             c == <<"CONDITION", "IDENTIFIER">>
             PP == Program
  <1>1. Intent = {p} \cup {p \o a} \cup {(p \o a) \o c}
    BY DEF Intent
  <1>2. p \in Seq(Symbol) /\ a \in Seq(Symbol) /\ c \in Seq(Symbol)
    BY SymbolFacts
  <1>3. PP \in Languages
    BY LanguageTypes
  <1>4. /\ InCondition = PP \cup Led(c, PP)
        /\ InAction = PP \cup Led(a, InCondition)
        /\ Led(<<"INTENT">>, InIntent) = Led(p, InAction)
    <2>1. Led(c, PP) = Led(<<"CONDITION">>, Led(<<"IDENTIFIER">>, PP))
      BY <1>3, LedPair, SymbolFacts
    <2>2. Led(a, InCondition) = Led(<<"ACTION">>, Led(<<"IDENTIFIER">>, InCondition))
      BY RestTypes, LedPair, SymbolFacts
    <2>3. Led(p, InAction)
            = Led(<<"INTENT">>, Led(<<"IDENTIFIER">>, Led(<<"SELECT">>, Led(<<"IDENTIFIER">>, InAction))))
      BY RestTypes, LedQuadruple, SymbolFacts
    <2> QED
      BY <2>1, <2>2, <2>3 DEF InCondition, InAction, InIntent
  <1> HIDE DEF p, a, c, PP
  <1>5. p \o a \in Seq(Symbol) /\ (p \o a) \o c \in Seq(Symbol)
    BY <1>2, ConcatProperties
  <1>6. {p} \in Languages /\ {p \o a} \in Languages /\ {(p \o a) \o c} \in Languages
    BY <1>2, <1>5 DEF Languages
  <1>7. Cat(Intent, PP) = Led(p, PP) \cup Led(p \o a, PP) \cup Led((p \o a) \o c, PP)
    <2> DEFINE X == {p}
               Y == {p \o a}
               Z == {(p \o a) \o c}
    <2>1. X \in Languages /\ Y \in Languages /\ Z \in Languages /\ X \cup Y \in Languages
      BY <1>6 DEF Languages
    <2>2. Intent = (X \cup Y) \cup Z
      BY <1>1
    <2>3. Cat(Intent, PP) = (Cat(X, PP) \cup Cat(Y, PP)) \cup Cat(Z, PP)
      <3> HIDE DEF X, Y, Z
      <3>1. Cat((X \cup Y) \cup Z, PP) = Cat(X \cup Y, PP) \cup Cat(Z, PP)
        BY <1>3, <2>1, CatOfUnion
      <3>2. Cat(X \cup Y, PP) = Cat(X, PP) \cup Cat(Y, PP)
        BY <1>3, <2>1, CatOfUnion
      <3> QED
        BY <2>2, <3>1, <3>2
    <2>4. /\ Cat({p}, PP) = Led(p, PP) /\ Cat({p \o a}, PP) = Led(p \o a, PP)
          /\ Cat({(p \o a) \o c}, PP) = Led((p \o a) \o c, PP)
      BY <1>2, <1>3, <1>5, CatWord
    <2> QED
      BY <2>3, <2>4
  <1>8. Led(p \o a, PP) = Led(p, Led(a, PP)) /\ Led((p \o a) \o c, PP) = Led(p, Led(a, Led(c, PP)))
    <2>1. Led(c, PP) \in Languages
      BY <1>2, <1>3, LedIff DEF Languages
    <2>2. Led((p \o a) \o c, PP) = Led(p \o a, Led(c, PP))
      BY <1>2, <1>3, <1>5, LedTwice
    <2> QED
      BY <1>2, <1>3, <2>1, <2>2, LedTwice
  <1>9. Led(p, InAction) = Led(p, PP) \cup Led(p, Led(a, PP)) \cup Led(p, Led(a, Led(c, PP)))
    <2> DEFINE L == Led(c, PP)
               M == Led(a, PP)
               N == Led(a, L)
    <2>1. L \in Languages /\ M \in Languages
      BY <1>2, <1>3, LedIff DEF Languages
    <2>2. N \in Languages
      BY <1>2, <2>1, LedIff DEF Languages
    <2>3. Led(a, PP \cup L) = M \cup N
      <3> HIDE DEF L
      <3> QED
        BY <1>2, <1>3, <2>1, LedUnions
    <2>4. InAction = PP \cup (M \cup N)
      <3> HIDE DEF M, N
      <3> QED
        BY <1>4, <2>3
    <2> HIDE DEF L, M, N
    <2>5. M \cup N \in Languages
      BY <2>1, <2>2 DEF Languages
    <2>6. Led(p, PP \cup (M \cup N)) = Led(p, PP) \cup Led(p, M \cup N)
      BY <1>2, <1>3, <2>5, LedUnions
    <2>7. Led(p, M \cup N) = Led(p, M) \cup Led(p, N)
      BY <1>2, <2>1, <2>2, LedUnions
    <2>8. Led(p, InAction) = Led(p, PP) \cup Led(p, M) \cup Led(p, N)
      BY <2>4, <2>6, <2>7
    <2> QED
      BY <2>8 DEF L, M, N
  <1>10. Cat(Intent, PP) = Led(p, InAction)
    BY <1>7, <1>8, <1>9
  <1> QED
    BY <1>4, <1>10 DEF PP

LEMMA ProgramUnfolds ==
  Program = {<<>>} \cup Led(<<"IDENTIFIER">>, Led(<<"ASSIGN">>, InHead)) \cup Led(<<"INTENT">>, InIntent)
  <1> DEFINE D == Definition \cup Intent
  <1>1. D \in Languages /\ <<>> \notin D /\ {<<>>} \in Languages
    BY LanguageTypes DEF Languages
  <1>2. Program = Repeated(D, {<<>>})
    BY DEF Program
  <1>3. Cat(D, Program) = Cat(Definition, Program) \cup Cat(Intent, Program)
    BY LanguageTypes, CatOfUnion
  <1> HIDE DEF D
  <1>4. Program = {<<>>} \cup Cat(D, Program)
    BY <1>1, <1>2, RepeatedUnfolds
  <1> QED
    BY <1>3, <1>4, DefinitionThen, IntentThen

-----------------------------------------------------------------------------
(* The points of a program, what may follow at each, and where a symbol    *)
(* leads: a deterministic automaton for the language.                      *)
Point ==
  {"start", "assign", "value", "open", "params", "equal", "second",
   "string", "quote", "more", "elems", "elem_string", "elem_quote", "more_elems",
   "intent", "select", "hosts", "action", "action_name", "condition", "condition_name",
   "nowhere"}

Rest(q) ==
  CASE q = "start" -> Program
    [] q = "assign" -> Led(<<"ASSIGN">>, InHead)
    [] q = "value" -> InHead
    [] q = "open" -> InElement
    [] q = "params" -> InParams
    [] q = "equal" -> Led(<<"EQUAL_PARAMETERS">>, InValue)
    [] q = "second" -> InValue
    [] q = "string" -> Led(<<"STRING">>, Led(<<"DOUBLE_QUOTE">>, InMore))
    [] q = "quote" -> Led(<<"DOUBLE_QUOTE">>, InMore)
    [] q = "more" -> InMore
    [] q = "elems" -> InElems
    [] q = "elem_string" -> Led(<<"STRING">>, Led(<<"DOUBLE_QUOTE">>, InMoreElems))
    [] q = "elem_quote" -> Led(<<"DOUBLE_QUOTE">>, InMoreElems)
    [] q = "more_elems" -> InMoreElems
    [] q = "intent" -> InIntent
    [] q = "select" -> Led(<<"SELECT">>, Led(<<"IDENTIFIER">>, InAction))
    [] q = "hosts" -> Led(<<"IDENTIFIER">>, InAction)
    [] q = "action" -> InAction
    [] q = "action_name" -> Led(<<"IDENTIFIER">>, InCondition)
    [] q = "condition" -> InCondition
    [] q = "condition_name" -> Led(<<"IDENTIFIER">>, Program)
    [] q = "nowhere" -> {}

Goes(q, k) ==
  CASE q = "start" /\ k = "IDENTIFIER" -> "assign"
    [] q = "start" /\ k = "INTENT" -> "intent"
    [] q = "assign" /\ k = "ASSIGN" -> "value"
    [] q = "value" /\ k = "ELEMENT" -> "open"
    [] q = "value" /\ k = "ACTION" -> "open"
    [] q = "value" /\ k = "CONDITION" -> "open"
    [] q = "open" /\ k = "LEFT_PARENTHESIS" -> "params"
    [] q = "params" /\ k = "RIGHT_PARENTHESIS" -> "start"
    [] q = "params" /\ k = "IDENTIFIER" -> "equal"
    [] q = "equal" /\ k = "EQUAL_PARAMETERS" -> "second"
    [] q = "second" /\ k = "IDENTIFIER" -> "more"
    [] q = "second" /\ k = "DOUBLE_QUOTE" -> "string"
    [] q = "second" /\ k = "LEFT_BRACE" -> "elems"
    [] q = "string" /\ k = "STRING" -> "quote"
    [] q = "quote" /\ k = "DOUBLE_QUOTE" -> "more"
    [] q = "more" /\ k = "RIGHT_PARENTHESIS" -> "start"
    [] q = "more" /\ k = "COMMA" -> "params"
    [] q = "elems" /\ k = "IDENTIFIER" -> "more_elems"
    [] q = "elems" /\ k = "DOUBLE_QUOTE" -> "elem_string"
    [] q = "elem_string" /\ k = "STRING" -> "elem_quote"
    [] q = "elem_quote" /\ k = "DOUBLE_QUOTE" -> "more_elems"
    [] q = "more_elems" /\ k = "RIGHT_BRACE" -> "more"
    [] q = "more_elems" /\ k = "COMMA" -> "elems"
    [] q = "intent" /\ k = "IDENTIFIER" -> "select"
    [] q = "select" /\ k = "SELECT" -> "hosts"
    [] q = "hosts" /\ k = "IDENTIFIER" -> "action"
    [] q = "action" /\ k = "IDENTIFIER" -> "assign"
    [] q = "action" /\ k = "INTENT" -> "intent"
    [] q = "action" /\ k = "ACTION" -> "action_name"
    [] q = "action_name" /\ k = "IDENTIFIER" -> "condition"
    [] q = "condition" /\ k = "IDENTIFIER" -> "assign"
    [] q = "condition" /\ k = "INTENT" -> "intent"
    [] q = "condition" /\ k = "CONDITION" -> "condition_name"
    [] q = "condition_name" /\ k = "IDENTIFIER" -> "start"
    [] OTHER -> "nowhere"

(* The points at which a program may end.                                  *)
Endings == {"start", "action", "condition"}

LEMMA RestLanguages ==
  ASSUME NEW q \in Point
  PROVE  Rest(q) \in Languages
  <1>1. Rest("start") \in Languages
    <2>1. Rest("start") = Program
      BY DEF Rest
    <2> QED
      BY <2>1, LanguageTypes, RestTypes
  <1>2. Rest("assign") \in Languages
    <2>1. Rest("assign") = Led(<<"ASSIGN">>, InHead)
      BY DEF Rest
    <2>2. InHead \in Languages
      BY LanguageTypes, RestTypes, LedTypes, SymbolFacts
    <2> QED
      BY <2>1, <2>2, LedTypes, SymbolFacts
  <1>3. Rest("value") \in Languages
    <2>1. Rest("value") = InHead
      BY DEF Rest
    <2> QED
      BY <2>1, LanguageTypes, RestTypes
  <1>4. Rest("open") \in Languages
    <2>1. Rest("open") = InElement
      BY DEF Rest
    <2> QED
      BY <2>1, LanguageTypes, RestTypes
  <1>5. Rest("params") \in Languages
    <2>1. Rest("params") = InParams
      BY DEF Rest
    <2> QED
      BY <2>1, LanguageTypes, RestTypes
  <1>6. Rest("equal") \in Languages
    <2>1. Rest("equal") = Led(<<"EQUAL_PARAMETERS">>, InValue)
      BY DEF Rest
    <2>2. InValue \in Languages
      BY LanguageTypes, RestTypes, LedTypes, SymbolFacts
    <2> QED
      BY <2>1, <2>2, LedTypes, SymbolFacts
  <1>7. Rest("second") \in Languages
    <2>1. Rest("second") = InValue
      BY DEF Rest
    <2> QED
      BY <2>1, LanguageTypes, RestTypes
  <1>8. Rest("string") \in Languages
    <2>1. Rest("string") = Led(<<"STRING">>, Led(<<"DOUBLE_QUOTE">>, InMore))
      BY DEF Rest
    <2>2. Led(<<"DOUBLE_QUOTE">>, InMore) \in Languages
      BY LanguageTypes, RestTypes, LedTypes, SymbolFacts
    <2> QED
      BY <2>1, <2>2, LedTypes, SymbolFacts
  <1>9. Rest("quote") \in Languages
    <2>1. Rest("quote") = Led(<<"DOUBLE_QUOTE">>, InMore)
      BY DEF Rest
    <2>2. InMore \in Languages
      BY LanguageTypes, RestTypes, LedTypes, SymbolFacts
    <2> QED
      BY <2>1, <2>2, LedTypes, SymbolFacts
  <1>10. Rest("more") \in Languages
    <2>1. Rest("more") = InMore
      BY DEF Rest
    <2> QED
      BY <2>1, LanguageTypes, RestTypes
  <1>11. Rest("elems") \in Languages
    <2>1. Rest("elems") = InElems
      BY DEF Rest
    <2> QED
      BY <2>1, LanguageTypes, RestTypes
  <1>12. Rest("elem_string") \in Languages
    <2>1. Rest("elem_string") = Led(<<"STRING">>, Led(<<"DOUBLE_QUOTE">>, InMoreElems))
      BY DEF Rest
    <2>2. Led(<<"DOUBLE_QUOTE">>, InMoreElems) \in Languages
      BY LanguageTypes, RestTypes, LedTypes, SymbolFacts
    <2> QED
      BY <2>1, <2>2, LedTypes, SymbolFacts
  <1>13. Rest("elem_quote") \in Languages
    <2>1. Rest("elem_quote") = Led(<<"DOUBLE_QUOTE">>, InMoreElems)
      BY DEF Rest
    <2>2. InMoreElems \in Languages
      BY LanguageTypes, RestTypes, LedTypes, SymbolFacts
    <2> QED
      BY <2>1, <2>2, LedTypes, SymbolFacts
  <1>14. Rest("more_elems") \in Languages
    <2>1. Rest("more_elems") = InMoreElems
      BY DEF Rest
    <2> QED
      BY <2>1, LanguageTypes, RestTypes
  <1>15. Rest("intent") \in Languages
    <2>1. Rest("intent") = InIntent
      BY DEF Rest
    <2> QED
      BY <2>1, LanguageTypes, RestTypes
  <1>16. Rest("select") \in Languages
    <2>1. Rest("select") = Led(<<"SELECT">>, Led(<<"IDENTIFIER">>, InAction))
      BY DEF Rest
    <2>2. Led(<<"IDENTIFIER">>, InAction) \in Languages
      BY LanguageTypes, RestTypes, LedTypes, SymbolFacts
    <2> QED
      BY <2>1, <2>2, LedTypes, SymbolFacts
  <1>17. Rest("hosts") \in Languages
    <2>1. Rest("hosts") = Led(<<"IDENTIFIER">>, InAction)
      BY DEF Rest
    <2>2. InAction \in Languages
      BY LanguageTypes, RestTypes, LedTypes, SymbolFacts
    <2> QED
      BY <2>1, <2>2, LedTypes, SymbolFacts
  <1>18. Rest("action") \in Languages
    <2>1. Rest("action") = InAction
      BY DEF Rest
    <2> QED
      BY <2>1, LanguageTypes, RestTypes
  <1>19. Rest("action_name") \in Languages
    <2>1. Rest("action_name") = Led(<<"IDENTIFIER">>, InCondition)
      BY DEF Rest
    <2>2. InCondition \in Languages
      BY LanguageTypes, RestTypes, LedTypes, SymbolFacts
    <2> QED
      BY <2>1, <2>2, LedTypes, SymbolFacts
  <1>20. Rest("condition") \in Languages
    <2>1. Rest("condition") = InCondition
      BY DEF Rest
    <2> QED
      BY <2>1, LanguageTypes, RestTypes
  <1>21. Rest("condition_name") \in Languages
    <2>1. Rest("condition_name") = Led(<<"IDENTIFIER">>, Program)
      BY DEF Rest
    <2>2. Program \in Languages
      BY LanguageTypes, RestTypes, LedTypes, SymbolFacts
    <2> QED
      BY <2>1, <2>2, LedTypes, SymbolFacts
  <1>22. Rest("nowhere") \in Languages
    BY DEF Rest, Languages
  <1> QED
    BY <1>1, <1>2, <1>3, <1>4, <1>5, <1>6, <1>7, <1>8, <1>9, <1>10, <1>11, <1>12, <1>13, <1>14, <1>15,
       <1>16, <1>17, <1>18, <1>19, <1>20, <1>21, <1>22 DEF Point

LEMMA NoSymbolNoWord ==
  ASSUME NEW k \in Symbol, NEW c \in Seq(Symbol)
  PROVE  <<k>> \o c # <<>>
  <1>1. <<k>> \in Seq(Symbol) /\ <<k>> # <<>>
    OBVIOUS
  <1> QED
    BY <1>1, ConcatEqualIffEmpty

(* What may follow at a point behind a symbol may follow where the symbol  *)
(* leads.                                                                  *)
LEMMA Derivative ==
  ASSUME NEW q \in Point, NEW k \in Symbol, NEW c \in Seq(Symbol)
  PROVE  /\ Goes(q, k) \in Point
         /\ <<k>> \o c \in Rest(q) <=> c \in Rest(Goes(q, k))
         /\ <<>> \in Rest(q) <=> q \in Endings
  <1> DEFINE w == <<k>> \o c
  <1>0. Rest("nowhere") = {} /\ w # <<>>
    BY NoSymbolNoWord DEF Rest
  <1>a. ASSUME NEW j \in Symbol, NEW p \in Point
        PROVE  <<>> \notin Led(<<j>>, Rest(p)) /\ (w \in Led(<<j>>, Rest(p)) <=> k = j /\ c \in Rest(p))
    BY LedOne, RestLanguages
  <1> HIDE DEF w
  <1>1. CASE q = "start"
    <2>1. Rest(q) = {<<>>} \cup Led(<<"IDENTIFIER">>, Rest("assign")) \cup Led(<<"INTENT">>, Rest("intent"))
      <3>1. Rest("start") = Program /\ Rest("assign") = Led(<<"ASSIGN">>, InHead) /\ Rest("intent") = InIntent
        BY DEF Rest
      <3> QED
        BY <1>1, <3>1, ProgramUnfolds
    <2>2. Goes(q, k) = IF k = "IDENTIFIER" THEN "assign" ELSE IF k = "INTENT" THEN "intent" ELSE "nowhere"
      BY <1>1 DEF Goes
    <2>3. /\ <<>> \notin Led(<<"IDENTIFIER">>, Rest("assign"))
          /\ w \in Led(<<"IDENTIFIER">>, Rest("assign")) <=> k = "IDENTIFIER" /\ c \in Rest("assign")
          /\ <<>> \notin Led(<<"INTENT">>, Rest("intent"))
          /\ w \in Led(<<"INTENT">>, Rest("intent")) <=> k = "INTENT" /\ c \in Rest("intent")
      BY <1>a, SymbolFacts DEF Point
    <2>4. Goes(q, k) \in Point
      BY <2>2 DEF Point
    <2>5. w \in Rest(q) <=> c \in Rest(Goes(q, k))
      BY <1>0, <2>1, <2>2, <2>3
    <2>6. <<>> \in Rest(q) <=> q \in Endings
      BY <1>1, <2>1, <2>3 DEF Endings
    <2> QED
      BY <2>4, <2>5, <2>6 DEF w
  <1>2. CASE q = "assign"
    <2>1. Rest(q) = Led(<<"ASSIGN">>, Rest("value"))
      <3>1. Rest("assign") = Led(<<"ASSIGN">>, InHead) /\ Rest("value") = InHead
        BY DEF Rest
      <3> QED
        BY <1>2, <3>1
    <2>2. Goes(q, k) = IF k = "ASSIGN" THEN "value" ELSE "nowhere"
      BY <1>2 DEF Goes
    <2>3. /\ <<>> \notin Led(<<"ASSIGN">>, Rest("value"))
          /\ w \in Led(<<"ASSIGN">>, Rest("value")) <=> k = "ASSIGN" /\ c \in Rest("value")
      BY <1>a, SymbolFacts DEF Point
    <2>4. Goes(q, k) \in Point
      BY <2>2 DEF Point
    <2>5. w \in Rest(q) <=> c \in Rest(Goes(q, k))
      BY <1>0, <2>1, <2>2, <2>3
    <2>6. <<>> \in Rest(q) <=> q \in Endings
      BY <1>2, <2>1, <2>3 DEF Endings
    <2> QED
      BY <2>4, <2>5, <2>6 DEF w
  <1>3. CASE q = "value"
    <2>1. Rest(q) =
              Led(<<"ELEMENT">>, Rest("open"))
              \cup Led(<<"ACTION">>, Rest("open"))
              \cup Led(<<"CONDITION">>, Rest("open"))
      <3>1. /\ Rest("value") = InHead
            /\ Rest("open") = InElement
        BY DEF Rest
      <3> QED
        BY <1>3, <3>1 DEF InHead
    <2>2. Goes(q, k) =
              IF k = "ELEMENT" THEN "open"
              ELSE IF k = "ACTION" THEN "open"
              ELSE IF k = "CONDITION" THEN "open"
              ELSE "nowhere"
      BY <1>3 DEF Goes
    <2>3. /\ <<>> \notin Led(<<"ELEMENT">>, Rest("open"))
          /\ w \in Led(<<"ELEMENT">>, Rest("open")) <=> k = "ELEMENT" /\ c \in Rest("open")
          /\ <<>> \notin Led(<<"ACTION">>, Rest("open"))
          /\ w \in Led(<<"ACTION">>, Rest("open")) <=> k = "ACTION" /\ c \in Rest("open")
          /\ <<>> \notin Led(<<"CONDITION">>, Rest("open"))
          /\ w \in Led(<<"CONDITION">>, Rest("open")) <=> k = "CONDITION" /\ c \in Rest("open")
      BY <1>a, SymbolFacts DEF Point
    <2>4. Goes(q, k) \in Point
      BY <2>2 DEF Point
    <2>5. w \in Rest(q) <=> c \in Rest(Goes(q, k))
      BY <1>0, <2>1, <2>2, <2>3
    <2>6. <<>> \in Rest(q) <=> q \in Endings
      BY <1>3, <2>1, <2>3 DEF Endings
    <2> QED
      BY <2>4, <2>5, <2>6 DEF w
  <1>4. CASE q = "open"
    <2>1. Rest(q) = Led(<<"LEFT_PARENTHESIS">>, Rest("params"))
      <3>1. Rest("open") = InElement /\ Rest("params") = InParams
        BY DEF Rest
      <3> QED
        BY <1>4, <3>1 DEF InElement
    <2>2. Goes(q, k) = IF k = "LEFT_PARENTHESIS" THEN "params" ELSE "nowhere"
      BY <1>4 DEF Goes
    <2>3. /\ <<>> \notin Led(<<"LEFT_PARENTHESIS">>, Rest("params"))
          /\ w \in Led(<<"LEFT_PARENTHESIS">>, Rest("params")) <=>
                 k = "LEFT_PARENTHESIS" /\ c \in Rest("params")
      BY <1>a, SymbolFacts DEF Point
    <2>4. Goes(q, k) \in Point
      BY <2>2 DEF Point
    <2>5. w \in Rest(q) <=> c \in Rest(Goes(q, k))
      BY <1>0, <2>1, <2>2, <2>3
    <2>6. <<>> \in Rest(q) <=> q \in Endings
      BY <1>4, <2>1, <2>3 DEF Endings
    <2> QED
      BY <2>4, <2>5, <2>6 DEF w
  <1>5. CASE q = "params"
    <2>1. Rest(q) = Led(<<"RIGHT_PARENTHESIS">>, Rest("start")) \cup Led(<<"IDENTIFIER">>, Rest("equal"))
      <3>1. /\ Rest("params") = InParams
            /\ Rest("start") = Program
            /\ Rest("equal") = Led(<<"EQUAL_PARAMETERS">>, InValue)
        BY DEF Rest
      <3> QED
        BY <1>5, <3>1, ParamsUnfold
    <2>2. Goes(q, k) = IF k = "RIGHT_PARENTHESIS" THEN "start" ELSE IF k = "IDENTIFIER" THEN "equal" ELSE "nowhere"
      BY <1>5 DEF Goes
    <2>3. /\ <<>> \notin Led(<<"RIGHT_PARENTHESIS">>, Rest("start"))
          /\ w \in Led(<<"RIGHT_PARENTHESIS">>, Rest("start")) <=>
                 k = "RIGHT_PARENTHESIS" /\ c \in Rest("start")
          /\ <<>> \notin Led(<<"IDENTIFIER">>, Rest("equal"))
          /\ w \in Led(<<"IDENTIFIER">>, Rest("equal")) <=> k = "IDENTIFIER" /\ c \in Rest("equal")
      BY <1>a, SymbolFacts DEF Point
    <2>4. Goes(q, k) \in Point
      BY <2>2 DEF Point
    <2>5. w \in Rest(q) <=> c \in Rest(Goes(q, k))
      BY <1>0, <2>1, <2>2, <2>3
    <2>6. <<>> \in Rest(q) <=> q \in Endings
      BY <1>5, <2>1, <2>3 DEF Endings
    <2> QED
      BY <2>4, <2>5, <2>6 DEF w
  <1>6. CASE q = "equal"
    <2>1. Rest(q) = Led(<<"EQUAL_PARAMETERS">>, Rest("second"))
      <3>1. Rest("equal") = Led(<<"EQUAL_PARAMETERS">>, InValue) /\ Rest("second") = InValue
        BY DEF Rest
      <3> QED
        BY <1>6, <3>1
    <2>2. Goes(q, k) = IF k = "EQUAL_PARAMETERS" THEN "second" ELSE "nowhere"
      BY <1>6 DEF Goes
    <2>3. /\ <<>> \notin Led(<<"EQUAL_PARAMETERS">>, Rest("second"))
          /\ w \in Led(<<"EQUAL_PARAMETERS">>, Rest("second")) <=>
                 k = "EQUAL_PARAMETERS" /\ c \in Rest("second")
      BY <1>a, SymbolFacts DEF Point
    <2>4. Goes(q, k) \in Point
      BY <2>2 DEF Point
    <2>5. w \in Rest(q) <=> c \in Rest(Goes(q, k))
      BY <1>0, <2>1, <2>2, <2>3
    <2>6. <<>> \in Rest(q) <=> q \in Endings
      BY <1>6, <2>1, <2>3 DEF Endings
    <2> QED
      BY <2>4, <2>5, <2>6 DEF w
  <1>7. CASE q = "second"
    <2>1. Rest(q) =
              Led(<<"IDENTIFIER">>, Rest("more"))
              \cup Led(<<"DOUBLE_QUOTE">>, Rest("string"))
              \cup Led(<<"LEFT_BRACE">>, Rest("elems"))
      <3>1. /\ Rest("second") = InValue
            /\ Rest("more") = InMore
            /\ Rest("string") = Led(<<"STRING">>, Led(<<"DOUBLE_QUOTE">>, InMore))
            /\ Rest("elems") = InElems
        BY DEF Rest
      <3> QED
        BY <1>7, <3>1, ValueUnfolds
    <2>2. Goes(q, k) =
              IF k = "IDENTIFIER" THEN "more"
              ELSE IF k = "DOUBLE_QUOTE" THEN "string"
              ELSE IF k = "LEFT_BRACE" THEN "elems"
              ELSE "nowhere"
      BY <1>7 DEF Goes
    <2>3. /\ <<>> \notin Led(<<"IDENTIFIER">>, Rest("more"))
          /\ w \in Led(<<"IDENTIFIER">>, Rest("more")) <=> k = "IDENTIFIER" /\ c \in Rest("more")
          /\ <<>> \notin Led(<<"DOUBLE_QUOTE">>, Rest("string"))
          /\ w \in Led(<<"DOUBLE_QUOTE">>, Rest("string")) <=> k = "DOUBLE_QUOTE" /\ c \in Rest("string")
          /\ <<>> \notin Led(<<"LEFT_BRACE">>, Rest("elems"))
          /\ w \in Led(<<"LEFT_BRACE">>, Rest("elems")) <=> k = "LEFT_BRACE" /\ c \in Rest("elems")
      BY <1>a, SymbolFacts DEF Point
    <2>4. Goes(q, k) \in Point
      BY <2>2 DEF Point
    <2>5. w \in Rest(q) <=> c \in Rest(Goes(q, k))
      BY <1>0, <2>1, <2>2, <2>3
    <2>6. <<>> \in Rest(q) <=> q \in Endings
      BY <1>7, <2>1, <2>3 DEF Endings
    <2> QED
      BY <2>4, <2>5, <2>6 DEF w
  <1>8. CASE q = "string"
    <2>1. Rest(q) = Led(<<"STRING">>, Rest("quote"))
      <3>1. /\ Rest("string") = Led(<<"STRING">>, Led(<<"DOUBLE_QUOTE">>, InMore))
            /\ Rest("quote") = Led(<<"DOUBLE_QUOTE">>, InMore)
        BY DEF Rest
      <3> QED
        BY <1>8, <3>1
    <2>2. Goes(q, k) = IF k = "STRING" THEN "quote" ELSE "nowhere"
      BY <1>8 DEF Goes
    <2>3. /\ <<>> \notin Led(<<"STRING">>, Rest("quote"))
          /\ w \in Led(<<"STRING">>, Rest("quote")) <=> k = "STRING" /\ c \in Rest("quote")
      BY <1>a, SymbolFacts DEF Point
    <2>4. Goes(q, k) \in Point
      BY <2>2 DEF Point
    <2>5. w \in Rest(q) <=> c \in Rest(Goes(q, k))
      BY <1>0, <2>1, <2>2, <2>3
    <2>6. <<>> \in Rest(q) <=> q \in Endings
      BY <1>8, <2>1, <2>3 DEF Endings
    <2> QED
      BY <2>4, <2>5, <2>6 DEF w
  <1>9. CASE q = "quote"
    <2>1. Rest(q) = Led(<<"DOUBLE_QUOTE">>, Rest("more"))
      <3>1. Rest("quote") = Led(<<"DOUBLE_QUOTE">>, InMore) /\ Rest("more") = InMore
        BY DEF Rest
      <3> QED
        BY <1>9, <3>1
    <2>2. Goes(q, k) = IF k = "DOUBLE_QUOTE" THEN "more" ELSE "nowhere"
      BY <1>9 DEF Goes
    <2>3. /\ <<>> \notin Led(<<"DOUBLE_QUOTE">>, Rest("more"))
          /\ w \in Led(<<"DOUBLE_QUOTE">>, Rest("more")) <=> k = "DOUBLE_QUOTE" /\ c \in Rest("more")
      BY <1>a, SymbolFacts DEF Point
    <2>4. Goes(q, k) \in Point
      BY <2>2 DEF Point
    <2>5. w \in Rest(q) <=> c \in Rest(Goes(q, k))
      BY <1>0, <2>1, <2>2, <2>3
    <2>6. <<>> \in Rest(q) <=> q \in Endings
      BY <1>9, <2>1, <2>3 DEF Endings
    <2> QED
      BY <2>4, <2>5, <2>6 DEF w
  <1>10. CASE q = "more"
    <2>1. Rest(q) = Led(<<"RIGHT_PARENTHESIS">>, Rest("start")) \cup Led(<<"COMMA">>, Rest("params"))
      <3>1. Rest("more") = InMore /\ Rest("start") = Program /\ Rest("params") = InParams
        BY DEF Rest
      <3> QED
        BY <1>10, <3>1 DEF InMore
    <2>2. Goes(q, k) = IF k = "RIGHT_PARENTHESIS" THEN "start" ELSE IF k = "COMMA" THEN "params" ELSE "nowhere"
      BY <1>10 DEF Goes
    <2>3. /\ <<>> \notin Led(<<"RIGHT_PARENTHESIS">>, Rest("start"))
          /\ w \in Led(<<"RIGHT_PARENTHESIS">>, Rest("start")) <=>
                 k = "RIGHT_PARENTHESIS" /\ c \in Rest("start")
          /\ <<>> \notin Led(<<"COMMA">>, Rest("params"))
          /\ w \in Led(<<"COMMA">>, Rest("params")) <=> k = "COMMA" /\ c \in Rest("params")
      BY <1>a, SymbolFacts DEF Point
    <2>4. Goes(q, k) \in Point
      BY <2>2 DEF Point
    <2>5. w \in Rest(q) <=> c \in Rest(Goes(q, k))
      BY <1>0, <2>1, <2>2, <2>3
    <2>6. <<>> \in Rest(q) <=> q \in Endings
      BY <1>10, <2>1, <2>3 DEF Endings
    <2> QED
      BY <2>4, <2>5, <2>6 DEF w
  <1>11. CASE q = "elems"
    <2>1. Rest(q) = Led(<<"IDENTIFIER">>, Rest("more_elems")) \cup Led(<<"DOUBLE_QUOTE">>, Rest("elem_string"))
      <3>1. /\ Rest("elems") = InElems
            /\ Rest("more_elems") = InMoreElems
            /\ Rest("elem_string") = Led(<<"STRING">>, Led(<<"DOUBLE_QUOTE">>, InMoreElems))
        BY DEF Rest
      <3> QED
        BY <1>11, <3>1, ElemsUnfold
    <2>2. Goes(q, k) =
              IF k = "IDENTIFIER" THEN "more_elems"
              ELSE IF k = "DOUBLE_QUOTE" THEN "elem_string"
              ELSE "nowhere"
      BY <1>11 DEF Goes
    <2>3. /\ <<>> \notin Led(<<"IDENTIFIER">>, Rest("more_elems"))
          /\ w \in Led(<<"IDENTIFIER">>, Rest("more_elems")) <=> k = "IDENTIFIER" /\ c \in Rest("more_elems")
          /\ <<>> \notin Led(<<"DOUBLE_QUOTE">>, Rest("elem_string"))
          /\ w \in Led(<<"DOUBLE_QUOTE">>, Rest("elem_string")) <=>
                 k = "DOUBLE_QUOTE" /\ c \in Rest("elem_string")
      BY <1>a, SymbolFacts DEF Point
    <2>4. Goes(q, k) \in Point
      BY <2>2 DEF Point
    <2>5. w \in Rest(q) <=> c \in Rest(Goes(q, k))
      BY <1>0, <2>1, <2>2, <2>3
    <2>6. <<>> \in Rest(q) <=> q \in Endings
      BY <1>11, <2>1, <2>3 DEF Endings
    <2> QED
      BY <2>4, <2>5, <2>6 DEF w
  <1>12. CASE q = "elem_string"
    <2>1. Rest(q) = Led(<<"STRING">>, Rest("elem_quote"))
      <3>1. /\ Rest("elem_string") = Led(<<"STRING">>, Led(<<"DOUBLE_QUOTE">>, InMoreElems))
            /\ Rest("elem_quote") = Led(<<"DOUBLE_QUOTE">>, InMoreElems)
        BY DEF Rest
      <3> QED
        BY <1>12, <3>1
    <2>2. Goes(q, k) = IF k = "STRING" THEN "elem_quote" ELSE "nowhere"
      BY <1>12 DEF Goes
    <2>3. /\ <<>> \notin Led(<<"STRING">>, Rest("elem_quote"))
          /\ w \in Led(<<"STRING">>, Rest("elem_quote")) <=> k = "STRING" /\ c \in Rest("elem_quote")
      BY <1>a, SymbolFacts DEF Point
    <2>4. Goes(q, k) \in Point
      BY <2>2 DEF Point
    <2>5. w \in Rest(q) <=> c \in Rest(Goes(q, k))
      BY <1>0, <2>1, <2>2, <2>3
    <2>6. <<>> \in Rest(q) <=> q \in Endings
      BY <1>12, <2>1, <2>3 DEF Endings
    <2> QED
      BY <2>4, <2>5, <2>6 DEF w
  <1>13. CASE q = "elem_quote"
    <2>1. Rest(q) = Led(<<"DOUBLE_QUOTE">>, Rest("more_elems"))
      <3>1. Rest("elem_quote") = Led(<<"DOUBLE_QUOTE">>, InMoreElems) /\ Rest("more_elems") = InMoreElems
        BY DEF Rest
      <3> QED
        BY <1>13, <3>1
    <2>2. Goes(q, k) = IF k = "DOUBLE_QUOTE" THEN "more_elems" ELSE "nowhere"
      BY <1>13 DEF Goes
    <2>3. /\ <<>> \notin Led(<<"DOUBLE_QUOTE">>, Rest("more_elems"))
          /\ w \in Led(<<"DOUBLE_QUOTE">>, Rest("more_elems")) <=>
                 k = "DOUBLE_QUOTE" /\ c \in Rest("more_elems")
      BY <1>a, SymbolFacts DEF Point
    <2>4. Goes(q, k) \in Point
      BY <2>2 DEF Point
    <2>5. w \in Rest(q) <=> c \in Rest(Goes(q, k))
      BY <1>0, <2>1, <2>2, <2>3
    <2>6. <<>> \in Rest(q) <=> q \in Endings
      BY <1>13, <2>1, <2>3 DEF Endings
    <2> QED
      BY <2>4, <2>5, <2>6 DEF w
  <1>14. CASE q = "more_elems"
    <2>1. Rest(q) = Led(<<"RIGHT_BRACE">>, Rest("more")) \cup Led(<<"COMMA">>, Rest("elems"))
      <3>1. Rest("more_elems") = InMoreElems /\ Rest("more") = InMore /\ Rest("elems") = InElems
        BY DEF Rest
      <3> QED
        BY <1>14, <3>1 DEF InMoreElems
    <2>2. Goes(q, k) = IF k = "RIGHT_BRACE" THEN "more" ELSE IF k = "COMMA" THEN "elems" ELSE "nowhere"
      BY <1>14 DEF Goes
    <2>3. /\ <<>> \notin Led(<<"RIGHT_BRACE">>, Rest("more"))
          /\ w \in Led(<<"RIGHT_BRACE">>, Rest("more")) <=> k = "RIGHT_BRACE" /\ c \in Rest("more")
          /\ <<>> \notin Led(<<"COMMA">>, Rest("elems"))
          /\ w \in Led(<<"COMMA">>, Rest("elems")) <=> k = "COMMA" /\ c \in Rest("elems")
      BY <1>a, SymbolFacts DEF Point
    <2>4. Goes(q, k) \in Point
      BY <2>2 DEF Point
    <2>5. w \in Rest(q) <=> c \in Rest(Goes(q, k))
      BY <1>0, <2>1, <2>2, <2>3
    <2>6. <<>> \in Rest(q) <=> q \in Endings
      BY <1>14, <2>1, <2>3 DEF Endings
    <2> QED
      BY <2>4, <2>5, <2>6 DEF w
  <1>15. CASE q = "intent"
    <2>1. Rest(q) = Led(<<"IDENTIFIER">>, Rest("select"))
      <3>1. Rest("intent") = InIntent /\ Rest("select") = Led(<<"SELECT">>, Led(<<"IDENTIFIER">>, InAction))
        BY DEF Rest
      <3> QED
        BY <1>15, <3>1 DEF InIntent
    <2>2. Goes(q, k) = IF k = "IDENTIFIER" THEN "select" ELSE "nowhere"
      BY <1>15 DEF Goes
    <2>3. /\ <<>> \notin Led(<<"IDENTIFIER">>, Rest("select"))
          /\ w \in Led(<<"IDENTIFIER">>, Rest("select")) <=> k = "IDENTIFIER" /\ c \in Rest("select")
      BY <1>a, SymbolFacts DEF Point
    <2>4. Goes(q, k) \in Point
      BY <2>2 DEF Point
    <2>5. w \in Rest(q) <=> c \in Rest(Goes(q, k))
      BY <1>0, <2>1, <2>2, <2>3
    <2>6. <<>> \in Rest(q) <=> q \in Endings
      BY <1>15, <2>1, <2>3 DEF Endings
    <2> QED
      BY <2>4, <2>5, <2>6 DEF w
  <1>16. CASE q = "select"
    <2>1. Rest(q) = Led(<<"SELECT">>, Rest("hosts"))
      <3>1. /\ Rest("select") = Led(<<"SELECT">>, Led(<<"IDENTIFIER">>, InAction))
            /\ Rest("hosts") = Led(<<"IDENTIFIER">>, InAction)
        BY DEF Rest
      <3> QED
        BY <1>16, <3>1
    <2>2. Goes(q, k) = IF k = "SELECT" THEN "hosts" ELSE "nowhere"
      BY <1>16 DEF Goes
    <2>3. /\ <<>> \notin Led(<<"SELECT">>, Rest("hosts"))
          /\ w \in Led(<<"SELECT">>, Rest("hosts")) <=> k = "SELECT" /\ c \in Rest("hosts")
      BY <1>a, SymbolFacts DEF Point
    <2>4. Goes(q, k) \in Point
      BY <2>2 DEF Point
    <2>5. w \in Rest(q) <=> c \in Rest(Goes(q, k))
      BY <1>0, <2>1, <2>2, <2>3
    <2>6. <<>> \in Rest(q) <=> q \in Endings
      BY <1>16, <2>1, <2>3 DEF Endings
    <2> QED
      BY <2>4, <2>5, <2>6 DEF w
  <1>17. CASE q = "hosts"
    <2>1. Rest(q) = Led(<<"IDENTIFIER">>, Rest("action"))
      <3>1. Rest("hosts") = Led(<<"IDENTIFIER">>, InAction) /\ Rest("action") = InAction
        BY DEF Rest
      <3> QED
        BY <1>17, <3>1
    <2>2. Goes(q, k) = IF k = "IDENTIFIER" THEN "action" ELSE "nowhere"
      BY <1>17 DEF Goes
    <2>3. /\ <<>> \notin Led(<<"IDENTIFIER">>, Rest("action"))
          /\ w \in Led(<<"IDENTIFIER">>, Rest("action")) <=> k = "IDENTIFIER" /\ c \in Rest("action")
      BY <1>a, SymbolFacts DEF Point
    <2>4. Goes(q, k) \in Point
      BY <2>2 DEF Point
    <2>5. w \in Rest(q) <=> c \in Rest(Goes(q, k))
      BY <1>0, <2>1, <2>2, <2>3
    <2>6. <<>> \in Rest(q) <=> q \in Endings
      BY <1>17, <2>1, <2>3 DEF Endings
    <2> QED
      BY <2>4, <2>5, <2>6 DEF w
  <1>18. CASE q = "action"
    <2>1. Rest(q) =
              {<<>>}
              \cup Led(<<"IDENTIFIER">>, Rest("assign"))
              \cup Led(<<"INTENT">>, Rest("intent"))
              \cup Led(<<"ACTION">>, Rest("action_name"))
      <3>1. /\ Rest("action") = InAction
            /\ Rest("assign") = Led(<<"ASSIGN">>, InHead)
            /\ Rest("intent") = InIntent
            /\ Rest("action_name") = Led(<<"IDENTIFIER">>, InCondition)
        BY DEF Rest
      <3> QED
        BY <1>18, <3>1, ProgramUnfolds DEF InAction
    <2>2. Goes(q, k) =
              IF k = "IDENTIFIER" THEN "assign"
              ELSE IF k = "INTENT" THEN "intent"
              ELSE IF k = "ACTION" THEN "action_name"
              ELSE "nowhere"
      BY <1>18 DEF Goes
    <2>3. /\ <<>> \notin Led(<<"IDENTIFIER">>, Rest("assign"))
          /\ w \in Led(<<"IDENTIFIER">>, Rest("assign")) <=> k = "IDENTIFIER" /\ c \in Rest("assign")
          /\ <<>> \notin Led(<<"INTENT">>, Rest("intent"))
          /\ w \in Led(<<"INTENT">>, Rest("intent")) <=> k = "INTENT" /\ c \in Rest("intent")
          /\ <<>> \notin Led(<<"ACTION">>, Rest("action_name"))
          /\ w \in Led(<<"ACTION">>, Rest("action_name")) <=> k = "ACTION" /\ c \in Rest("action_name")
      BY <1>a, SymbolFacts DEF Point
    <2>4. Goes(q, k) \in Point
      BY <2>2 DEF Point
    <2>5. w \in Rest(q) <=> c \in Rest(Goes(q, k))
      BY <1>0, <2>1, <2>2, <2>3
    <2>6. <<>> \in Rest(q) <=> q \in Endings
      BY <1>18, <2>1, <2>3 DEF Endings
    <2> QED
      BY <2>4, <2>5, <2>6 DEF w
  <1>19. CASE q = "action_name"
    <2>1. Rest(q) = Led(<<"IDENTIFIER">>, Rest("condition"))
      <3>1. Rest("action_name") = Led(<<"IDENTIFIER">>, InCondition) /\ Rest("condition") = InCondition
        BY DEF Rest
      <3> QED
        BY <1>19, <3>1
    <2>2. Goes(q, k) = IF k = "IDENTIFIER" THEN "condition" ELSE "nowhere"
      BY <1>19 DEF Goes
    <2>3. /\ <<>> \notin Led(<<"IDENTIFIER">>, Rest("condition"))
          /\ w \in Led(<<"IDENTIFIER">>, Rest("condition")) <=> k = "IDENTIFIER" /\ c \in Rest("condition")
      BY <1>a, SymbolFacts DEF Point
    <2>4. Goes(q, k) \in Point
      BY <2>2 DEF Point
    <2>5. w \in Rest(q) <=> c \in Rest(Goes(q, k))
      BY <1>0, <2>1, <2>2, <2>3
    <2>6. <<>> \in Rest(q) <=> q \in Endings
      BY <1>19, <2>1, <2>3 DEF Endings
    <2> QED
      BY <2>4, <2>5, <2>6 DEF w
  <1>20. CASE q = "condition"
    <2>1. Rest(q) =
              {<<>>}
              \cup Led(<<"IDENTIFIER">>, Rest("assign"))
              \cup Led(<<"INTENT">>, Rest("intent"))
              \cup Led(<<"CONDITION">>, Rest("condition_name"))
      <3>1. /\ Rest("condition") = InCondition
            /\ Rest("assign") = Led(<<"ASSIGN">>, InHead)
            /\ Rest("intent") = InIntent
            /\ Rest("condition_name") = Led(<<"IDENTIFIER">>, Program)
        BY DEF Rest
      <3> QED
        BY <1>20, <3>1, ProgramUnfolds DEF InCondition
    <2>2. Goes(q, k) =
              IF k = "IDENTIFIER" THEN "assign"
              ELSE IF k = "INTENT" THEN "intent"
              ELSE IF k = "CONDITION" THEN "condition_name"
              ELSE "nowhere"
      BY <1>20 DEF Goes
    <2>3. /\ <<>> \notin Led(<<"IDENTIFIER">>, Rest("assign"))
          /\ w \in Led(<<"IDENTIFIER">>, Rest("assign")) <=> k = "IDENTIFIER" /\ c \in Rest("assign")
          /\ <<>> \notin Led(<<"INTENT">>, Rest("intent"))
          /\ w \in Led(<<"INTENT">>, Rest("intent")) <=> k = "INTENT" /\ c \in Rest("intent")
          /\ <<>> \notin Led(<<"CONDITION">>, Rest("condition_name"))
          /\ w \in Led(<<"CONDITION">>, Rest("condition_name")) <=>
                 k = "CONDITION" /\ c \in Rest("condition_name")
      BY <1>a, SymbolFacts DEF Point
    <2>4. Goes(q, k) \in Point
      BY <2>2 DEF Point
    <2>5. w \in Rest(q) <=> c \in Rest(Goes(q, k))
      BY <1>0, <2>1, <2>2, <2>3
    <2>6. <<>> \in Rest(q) <=> q \in Endings
      BY <1>20, <2>1, <2>3 DEF Endings
    <2> QED
      BY <2>4, <2>5, <2>6 DEF w
  <1>21. CASE q = "condition_name"
    <2>1. Rest(q) = Led(<<"IDENTIFIER">>, Rest("start"))
      <3>1. Rest("condition_name") = Led(<<"IDENTIFIER">>, Program) /\ Rest("start") = Program
        BY DEF Rest
      <3> QED
        BY <1>21, <3>1
    <2>2. Goes(q, k) = IF k = "IDENTIFIER" THEN "start" ELSE "nowhere"
      BY <1>21 DEF Goes
    <2>3. /\ <<>> \notin Led(<<"IDENTIFIER">>, Rest("start"))
          /\ w \in Led(<<"IDENTIFIER">>, Rest("start")) <=> k = "IDENTIFIER" /\ c \in Rest("start")
      BY <1>a, SymbolFacts DEF Point
    <2>4. Goes(q, k) \in Point
      BY <2>2 DEF Point
    <2>5. w \in Rest(q) <=> c \in Rest(Goes(q, k))
      BY <1>0, <2>1, <2>2, <2>3
    <2>6. <<>> \in Rest(q) <=> q \in Endings
      BY <1>21, <2>1, <2>3 DEF Endings
    <2> QED
      BY <2>4, <2>5, <2>6 DEF w
  <1>22. CASE q = "nowhere"
    BY <1>0, <1>22 DEF Goes, Endings, Point
  <1> QED
    BY <1>1, <1>2, <1>3, <1>4, <1>5, <1>6, <1>7, <1>8, <1>9, <1>10, <1>11, <1>12, <1>13, <1>14, <1>15,
       <1>16, <1>17, <1>18, <1>19, <1>20, <1>21, <1>22 DEF Point, w

-----------------------------------------------------------------------------
(* What remains to be done at a point, for a lookahead k ("unread" for a   *)
(* lookahead that is not known yet).                                       *)
When(condition, stacks) == IF condition THEN stacks ELSE {}

RP      == T("RIGHT_PARENTHESIS")
RB      == T("RIGHT_BRACE")
More    == Call("add_more_parameters")
Further == Call("add_more_elements_to_array")
Wrap    == Resolve("select")

(* Between two productions of the initial symbol.                          *)
StartStacks(k) ==
    {<<>>}
    \cup When(k \notin {"nil", "unread"}, {<<Call("initial_symbol")>>})
    \cup When(k = "IDENTIFIER", {<<Id("def"), T("ASSIGN"), Push, Call("network_elem_definition")>>})
    \cup When(k = "INTENT", {<<T("INTENT"), Id(NoName), T("SELECT"), Id("select"),
                               Call("intent_production_with_action"), Wrap>>})

Stacks(q, k) ==
  CASE q = "start" -> {<<Wrap>>} \cup StartStacks(k)
    [] q = "assign" -> {<<T("ASSIGN"), Push, Call("network_elem_definition")>>}
    [] q = "value" ->
         {<<Push, Call("network_elem_definition")>>, <<Call("network_elem_definition")>>}
         \cup When(k \in Elements, {<<T(k), T("LEFT_PARENTHESIS"), Call("params"), RP>>})
         \cup When(k = "nil", {<<>>})
    [] q = "open" -> {<<T("LEFT_PARENTHESIS"), Call("params"), RP>>}
    [] q = "params" ->
         {<<Call("params"), RP>>}
         \cup When(k = "IDENTIFIER", {<<Id(NoName), T("EQUAL_PARAMETERS"), Call("second_part_equal"), RP>>})
         \cup When(k \notin {"IDENTIFIER", "unread"}, {<<RP>>})
    [] q = "equal" -> {<<T("EQUAL_PARAMETERS"), Call("second_part_equal"), RP>>}
    [] q = "second" ->
         {<<Call("second_part_equal"), RP>>}
         \cup When(k = "DOUBLE_QUOTE", {<<T("DOUBLE_QUOTE"), T("STRING"), T("DOUBLE_QUOTE"), More, RP>>})
         \cup When(k = "IDENTIFIER", {<<Id("ref"), Resolve("ref"), More, RP>>})
         \cup When(k = "LEFT_BRACE", {<<T("LEFT_BRACE"), Call("elems_of_array"), RB, More, RP>>})
         \cup When(k = "nil", {<<RP>>})
    [] q = "string" -> {<<T("STRING"), T("DOUBLE_QUOTE"), More, RP>>}
    [] q = "quote" -> {<<T("DOUBLE_QUOTE"), More, RP>>}
    [] q = "more" ->
         {<<Resolve("ref"), More, RP>>, <<More, RP>>}
         \cup When(k = "COMMA", {<<T("COMMA"), Call("params"), RP>>})
         \cup When(k \notin {"COMMA", "unread"}, {<<RP>>})
    [] q = "elems" ->
         {<<Call("elems_of_array"), RB, More, RP>>}
         \cup When(k = "IDENTIFIER", {<<Id("ref"), Resolve("ref"), Further, RB, More, RP>>})
         \cup When(k = "DOUBLE_QUOTE", {<<T("DOUBLE_QUOTE"), T("STRING"), T("DOUBLE_QUOTE"), Further, RB, More, RP>>})
         \cup When(k = "nil", {<<RB, More, RP>>})
    [] q = "elem_string" -> {<<T("STRING"), T("DOUBLE_QUOTE"), Further, RB, More, RP>>}
    [] q = "elem_quote" -> {<<T("DOUBLE_QUOTE"), Further, RB, More, RP>>}
    [] q = "more_elems" ->
         {<<Resolve("ref"), Further, RB, More, RP>>, <<Further, RB, More, RP>>}
         \cup When(k = "COMMA", {<<T("COMMA"), Call("elems_of_array"), RB, More, RP>>})
         \cup When(k \notin {"COMMA", "unread"}, {<<RB, More, RP>>})
    [] q = "intent" -> {<<Id(NoName), T("SELECT"), Id("select"), Call("intent_production_with_action"), Wrap>>}
    [] q = "select" -> {<<T("SELECT"), Id("select"), Call("intent_production_with_action"), Wrap>>}
    [] q = "hosts" -> {<<Id("select"), Call("intent_production_with_action"), Wrap>>}
    [] q = "action" ->
         {<<Call("intent_production_with_action"), Wrap>>}
         \cup When(k = "ACTION", {<<T("ACTION"), Id(NoName), Call("intent_production_with_condition"), Wrap>>})
         \cup When(k \notin {"ACTION", "unread"}, {<<Wrap>>} \cup StartStacks(k))
    [] q = "action_name" -> {<<Id(NoName), Call("intent_production_with_condition"), Wrap>>}
    [] q = "condition" ->
         {<<Call("intent_production_with_condition"), Wrap>>}
         \cup When(k = "CONDITION", {<<T("CONDITION"), Id(NoName), Wrap>>})
         \cup When(k \notin {"CONDITION", "unread"}, {<<Wrap>>} \cup StartStacks(k))
    [] q = "condition_name" -> {<<Id(NoName), Wrap>>}
    [] q = "nowhere" -> {}

(* A step of the parser leads from a stack of the point to one of the same *)
(* point or, behind a symbol, of the point where the symbol leads; it      *)
(* fails where the symbol leads nowhere and the program may not end.       *)
Sound(q, k, s) ==
    /\ s = <<>> => IF k = "nil" THEN q \in Endings \cup {"value"} ELSE <<Call("initial_symbol")>> \in Stacks(q, k)
    /\ s # <<>> /\ Head(s).do = "match" =>
          /\ k = Head(s).what => Tail(s) \in Stacks(Goes(q, k), "unread")
          /\ k # Head(s).what => Goes(q, k) = "nowhere"
          /\ k = "nil" => q \notin Endings
    /\ s # <<>> /\ Head(s).do = "call" =>
          LET body == Production(Head(s).what, k)
          IN  IF body = Error THEN Goes(q, k) = "nowhere" ELSE body \o Tail(s) \in Stacks(q, k)
    /\ s # <<>> /\ Head(s).do \in {"push", "resolve"} => Tail(s) \in Stacks(q, k)

(* The procedures of the parser.                                           *)
LEMMA BodyOfParams ==
  ASSUME NEW k
  PROVE  Production("params", k) =
            IF k = "IDENTIFIER" THEN <<Id(NoName), T("EQUAL_PARAMETERS"), Call("second_part_equal")>>
            ELSE <<>>
  <1>1. Body("params", k) = params(k)
    BY DEF Body
  <1> QED
    BY <1>1 DEF Production, Lambda, params

LEMMA BodyOfSecondPart ==
  ASSUME NEW k
  PROVE  Production("second_part_equal", k) =
            IF k = "DOUBLE_QUOTE" THEN <<T("DOUBLE_QUOTE"), T("STRING"), T("DOUBLE_QUOTE"), More>>
            ELSE IF k = "IDENTIFIER" THEN <<Id("ref"), Resolve("ref"), More>>
            ELSE IF k = "LEFT_BRACE" THEN <<T("LEFT_BRACE"), Call("elems_of_array"), RB, More>>
            ELSE IF k = "nil" THEN <<>>
            ELSE Error
  <1>1. Body("second_part_equal", k) = second_part_equal(k)
    BY DEF Body
  <1>2. QuotedString \o <<More>> = <<T("DOUBLE_QUOTE"), T("STRING"), T("DOUBLE_QUOTE"), More>>
    BY Concat31 DEF QuotedString
  <1> QED
    BY <1>1, <1>2 DEF Production, Lambda, second_part_equal, More, Further, RB

LEMMA BodyOfMore ==
  ASSUME NEW k
  PROVE  Production("add_more_parameters", k) =
            IF k = "COMMA" THEN <<T("COMMA"), Call("params")>>
            ELSE <<>>
  <1>1. Body("add_more_parameters", k) = add_more_parameters(k)
    BY DEF Body
  <1> QED
    BY <1>1 DEF Production, Lambda, add_more_parameters

LEMMA BodyOfElems ==
  ASSUME NEW k
  PROVE  Production("elems_of_array", k) =
            IF k = "IDENTIFIER" THEN <<Id("ref"), Resolve("ref"), Further>>
            ELSE IF k = "DOUBLE_QUOTE" THEN <<T("DOUBLE_QUOTE"), T("STRING"), T("DOUBLE_QUOTE"), Further>>
            ELSE IF k = "nil" THEN <<>>
            ELSE Error
  <1>1. Body("elems_of_array", k) = elems_of_array(k)
    BY DEF Body
  <1>2. QuotedString \o <<Further>> = <<T("DOUBLE_QUOTE"), T("STRING"), T("DOUBLE_QUOTE"), Further>>
    BY Concat31 DEF QuotedString
  <1> QED
    BY <1>1, <1>2 DEF Production, Lambda, elems_of_array, More, Further, RB

LEMMA BodyOfFurther ==
  ASSUME NEW k
  PROVE  Production("add_more_elements_to_array", k) =
            IF k = "COMMA" THEN <<T("COMMA"), Call("elems_of_array")>>
            ELSE <<>>
  <1>1. Body("add_more_elements_to_array", k) = add_more_elements_to_array(k)
    BY DEF Body
  <1> QED
    BY <1>1 DEF Production, Lambda, add_more_elements_to_array

LEMMA BodyOfDefinition ==
  ASSUME NEW k
  PROVE  Production("network_elem_definition", k) =
            IF k \in Elements THEN <<T(k), T("LEFT_PARENTHESIS"), Call("params"), RP>>
            ELSE IF k = "nil" THEN <<>>
            ELSE Error
  <1>1. Body("network_elem_definition", k) = network_elem_definition(k)
    BY DEF Body
  <1> QED
    BY <1>1 DEF Production, Lambda, network_elem_definition, QuotedString, Elements, More, Further, RP, RB, Wrap

LEMMA BodyOfCondition ==
  ASSUME NEW k
  PROVE  Production("intent_production_with_condition", k) =
            IF k = "CONDITION" THEN <<T("CONDITION"), Id(NoName)>>
            ELSE <<>>
  <1>1. Body("intent_production_with_condition", k) = intent_production_with_condition(k)
    BY DEF Body
  <1> QED
    BY <1>1 DEF Production, Lambda, intent_production_with_condition

LEMMA BodyOfAction ==
  ASSUME NEW k
  PROVE  Production("intent_production_with_action", k) =
            IF k = "ACTION" THEN <<T("ACTION"), Id(NoName), Call("intent_production_with_condition")>>
            ELSE <<>>
  <1>1. Body("intent_production_with_action", k) = intent_production_with_action(k)
    BY DEF Body
  <1> QED
    BY <1>1 DEF Production, Lambda, intent_production_with_action

LEMMA BodyOfInitial ==
  ASSUME NEW k
  PROVE  Production("initial_symbol", k) =
            IF k = "IDENTIFIER" THEN <<Id("def"), T("ASSIGN"), Push, Call("network_elem_definition")>>
            ELSE IF k = "INTENT"
              THEN <<T("INTENT"), Id(NoName), T("SELECT"), Id("select"), Call("intent_production_with_action"), Wrap>>
            ELSE IF k = "nil" THEN <<>>
            ELSE Error
  <1>1. Body("initial_symbol", k) = initial_symbol(k)
    BY DEF Body
  <1> QED
    BY <1>1 DEF Production, Lambda, initial_symbol, QuotedString, Elements, More, Further, RP, RB, Wrap

(* What the entries of the stack do.                                       *)
LEMMA Entries ==
  /\ \A x : T(x).do = "match" /\ T(x).what = x
  /\ \A role : Id(role).do = "match" /\ Id(role).what = "IDENTIFIER"
  /\ \A name : Call(name).do = "call" /\ Call(name).what = name
  /\ Push.do = "push"
  /\ \A role : Resolve(role).do = "resolve" /\ Resolve(role).what = role
  /\ RP.do = "match" /\ RP.what = "RIGHT_PARENTHESIS" /\ RB.do = "match" /\ RB.what = "RIGHT_BRACE"
  /\ More.do = "call" /\ More.what = "add_more_parameters"
  /\ Further.do = "call" /\ Further.what = "add_more_elements_to_array"
  /\ Wrap.do = "resolve" /\ Wrap.what = "select"
  BY DEF T, Id, Call, Push, Resolve, RP, RB, More, Further, Wrap

LEMMA Concat01 ==
  ASSUME NEW a
  PROVE  <<>> \o <<a>> = <<a>>
  <1>1. <<a>> \in Seq({a})
    OBVIOUS
  <1> QED
    BY <1>1, ConcatEmptySeq

LEMMA Concat02 ==
  ASSUME NEW a, NEW b
  PROVE  <<>> \o <<a, b>> = <<a, b>>
  <1>1. <<a, b>> \in Seq({a, b})
    OBVIOUS
  <1> QED
    BY <1>1, ConcatEmptySeq

LEMMA Concat03 ==
  ASSUME NEW a, NEW b, NEW c
  PROVE  <<>> \o <<a, b, c>> = <<a, b, c>>
  <1>1. <<a, b, c>> \in Seq({a, b, c})
    OBVIOUS
  <1> QED
    BY <1>1, ConcatEmptySeq

LEMMA Concat40 ==
  ASSUME NEW a, NEW b, NEW c, NEW d
  PROVE  <<a, b, c, d>> \o <<>> = <<a, b, c, d>>
  <1>1. <<a, b, c, d>> \in Seq({a, b, c, d})
    OBVIOUS
  <1> QED
    BY <1>1, ConcatEmptySeq

LEMMA Concat60 ==
  ASSUME NEW a, NEW b, NEW c, NEW d, NEW e, NEW f
  PROVE  <<a, b, c, d, e, f>> \o <<>> = <<a, b, c, d, e, f>>
  <1>1. <<a, b, c, d, e, f>> \in Seq({a, b, c, d, e, f})
    OBVIOUS
  <1> QED
    BY <1>1, ConcatEmptySeq

LEMMA ConcatEmpty ==
  <<>> \o <<>> = <<>>
  BY ConcatEmptySeq

LEMMA BetweenProductions ==
  ASSUME NEW q \in Endings, NEW k, k # "unread", NEW s \in StartStacks(k),
         StartStacks(k) \subseteq Stacks(q, k), Goes(q, k) = Goes("start", k)
  PROVE  Sound(q, k, s)
  <1>1. \/ s = <<>>
        \/ k \notin {"nil", "unread"} /\ s = <<Call("initial_symbol")>>
        \/ k = "IDENTIFIER" /\ s = <<Id("def"), T("ASSIGN"), Push, Call("network_elem_definition")>>
        \/ /\ k = "INTENT"
           /\ s =
                  <<T("INTENT"), Id(NoName), T("SELECT"), Id("select"), Call("intent_production_with_action"), Wrap>>
    BY DEF StartStacks, When
  <1>2. /\ <<>> \in Stacks(q, k)
        /\ k \notin {"nil", "unread"} => <<Call("initial_symbol")>> \in Stacks(q, k)
        /\ k = "IDENTIFIER" =>
               <<Id("def"), T("ASSIGN"), Push, Call("network_elem_definition")>> \in Stacks(q, k)
        /\ k = "INTENT" =>
               <<T("INTENT"), Id(NoName), T("SELECT"), Id("select"), Call("intent_production_with_action"), Wrap>> \in Stacks(q, k)
    BY DEF StartStacks, When
  <1>3. Goes(q, k) = IF k = "IDENTIFIER" THEN "assign" ELSE IF k = "INTENT" THEN "intent" ELSE "nowhere"
    BY DEF Goes
  <1>4. CASE s = <<>>
    BY <1>4, <1>2, <1>3 DEF Sound
  <1>5. CASE k \notin {"nil", "unread"} /\ s = <<Call("initial_symbol")>>
    <2>1. s # <<>> /\ Head(s) = Call("initial_symbol") /\ Tail(s) = <<>>
      BY <1>5
    <2>2. Call("initial_symbol").do = "call" /\ Call("initial_symbol").what = "initial_symbol"
      BY Entries
    <2>3. <<Id("def"), T("ASSIGN"), Push, Call("network_elem_definition")>> \o <<>> =
              <<Id("def"), T("ASSIGN"), Push, Call("network_elem_definition")>>
      BY Concat40
    <2>4. <<T("INTENT"), Id(NoName), T("SELECT"), Id("select"), Call("intent_production_with_action"), Wrap>> \o <<>> =
              <<T("INTENT"), Id(NoName), T("SELECT"), Id("select"), Call("intent_production_with_action"), Wrap>>
      BY Concat60
    <2>5. <<>> \o <<>> = <<>>
      BY ConcatEmpty
    <2>6. /\ <<Id("def"), T("ASSIGN"), Push, Call("network_elem_definition")>> # Error
          /\ <<T("INTENT"), Id(NoName), T("SELECT"), Id("select"), Call("intent_production_with_action"), Wrap>> # Error
          /\ <<>> # Error
      BY DEF Error
    <2>7. LET body == Production("initial_symbol", k)
          IN  IF body = Error THEN Goes(q, k) = "nowhere"
              ELSE body \o Tail(s) \in Stacks(q, k)
      BY <1>5, <2>1, <2>3, <2>4, <2>5, <2>6, <1>2, <1>3, BodyOfInitial
    <2> QED
      BY <2>1, <2>2, <2>7 DEF Sound
  <1>6. CASE k = "IDENTIFIER" /\ s = <<Id("def"), T("ASSIGN"), Push, Call("network_elem_definition")>>
    <2>1. s # <<>> /\ Head(s) = Id("def") /\ Tail(s) = <<T("ASSIGN"), Push, Call("network_elem_definition")>>
      BY <1>6
    <2>2. Id("def").do = "match" /\ Id("def").what = "IDENTIFIER"
      BY Entries
    <2>3. <<T("ASSIGN"), Push, Call("network_elem_definition")>> \in Stacks("assign", "unread")
      BY DEF Stacks, When, StartStacks
    <2> QED
      BY <1>6, <2>1, <2>2, <2>3, <1>2, <1>3 DEF Sound, Endings
  <1>7. CASE /\ k = "INTENT"
             /\ s =
                    <<T("INTENT"), Id(NoName), T("SELECT"), Id("select"), Call("intent_production_with_action"), Wrap>>
    <2>1. /\ s # <<>>
          /\ Head(s) = T("INTENT")
          /\ Tail(s) = <<Id(NoName), T("SELECT"), Id("select"), Call("intent_production_with_action"), Wrap>>
      BY <1>7
    <2>2. T("INTENT").do = "match" /\ T("INTENT").what = "INTENT"
      BY Entries
    <2>3. <<Id(NoName), T("SELECT"), Id("select"), Call("intent_production_with_action"), Wrap>> \in Stacks("intent", "unread")
      BY DEF Stacks, When, StartStacks
    <2> QED
      BY <1>7, <2>1, <2>2, <2>3, <1>2, <1>3 DEF Sound, Endings
  <1> QED
    BY <1>1, <1>4, <1>5, <1>6, <1>7

LEMMA At_start ==
  ASSUME NEW k, k # "unread", NEW s \in Stacks("start", k)
  PROVE  Sound("start", k, s)
  <1>1. (s = <<Wrap>>) \/ s \in StartStacks(k)
    BY DEF Stacks, When
  <1>2. <<Wrap>> \in Stacks("start", k) /\ <<>> \in Stacks("start", k)
    BY DEF Stacks, When, StartStacks
  <1>3. Goes("start", k) = IF k = "IDENTIFIER" THEN "assign" ELSE IF k = "INTENT" THEN "intent" ELSE "nowhere"
    BY DEF Goes
  <1>4. CASE s = <<Wrap>>
    <2>1. s # <<>> /\ Head(s) = Wrap /\ Tail(s) = <<>>
      BY <1>4
    <2>2. Wrap.do = "resolve"
      BY Entries
    <2> QED
      BY <1>4, <2>1, <2>2, <1>2, <1>3 DEF Sound
  <1>5. CASE s \in StartStacks(k)
    <2>1. StartStacks(k) \subseteq Stacks("start", k)
      BY <1>5 DEF Stacks, When
    <2>2. "start" \in Endings
      BY DEF Endings
    <2>3. Goes("start", k) = Goes("start", k)
      BY <1>3, <1>5 DEF Goes
    <2> QED
      BY <1>5, <2>1, <2>2, <2>3, BetweenProductions
  <1> QED
    BY <1>1, <1>4, <1>5

LEMMA At_assign ==
  ASSUME NEW k, k # "unread", NEW s \in Stacks("assign", k)
  PROVE  Sound("assign", k, s)
  <1>1. (s = <<T("ASSIGN"), Push, Call("network_elem_definition")>>)
    BY DEF Stacks, When
  <1>2. <<T("ASSIGN"), Push, Call("network_elem_definition")>> \in Stacks("assign", k)
    BY DEF Stacks, When
  <1>3. Goes("assign", k) = IF k = "ASSIGN" THEN "value" ELSE "nowhere"
    BY DEF Goes
  <1>4. CASE s = <<T("ASSIGN"), Push, Call("network_elem_definition")>>
    <2>1. s # <<>> /\ Head(s) = T("ASSIGN") /\ Tail(s) = <<Push, Call("network_elem_definition")>>
      BY <1>4
    <2>2. T("ASSIGN").do = "match" /\ T("ASSIGN").what = "ASSIGN"
      BY Entries
    <2>3. <<Push, Call("network_elem_definition")>> \in Stacks("value", "unread")
      BY DEF Stacks, When, StartStacks
    <2> QED
      BY <1>4, <2>1, <2>2, <2>3, <1>2, <1>3 DEF Sound, Endings
  <1> QED
    BY <1>1, <1>4

LEMMA At_value ==
  ASSUME NEW k, k # "unread", NEW s \in Stacks("value", k)
  PROVE  Sound("value", k, s)
  <1>1. \/ s = <<Push, Call("network_elem_definition")>>
        \/ s = <<Call("network_elem_definition")>>
        \/ k \in Elements /\ s = <<T(k), T("LEFT_PARENTHESIS"), Call("params"), RP>>
        \/ k = "nil" /\ s = <<>>
    BY DEF Stacks, When
  <1>2. /\ <<Push, Call("network_elem_definition")>> \in Stacks("value", k)
        /\ <<Call("network_elem_definition")>> \in Stacks("value", k)
        /\ k \in Elements => <<T(k), T("LEFT_PARENTHESIS"), Call("params"), RP>> \in Stacks("value", k)
        /\ k = "nil" => <<>> \in Stacks("value", k)
    BY DEF Stacks, When
  <1>3. Goes("value", k) =
            IF k = "ELEMENT" THEN "open"
            ELSE IF k = "ACTION" THEN "open"
            ELSE IF k = "CONDITION" THEN "open"
            ELSE "nowhere"
    BY DEF Goes
  <1>4. CASE s = <<Push, Call("network_elem_definition")>>
    <2>1. s # <<>> /\ Head(s) = Push /\ Tail(s) = <<Call("network_elem_definition")>>
      BY <1>4
    <2>2. Push.do = "push"
      BY Entries
    <2> QED
      BY <1>4, <2>1, <2>2, <1>2, <1>3 DEF Sound
  <1>5. CASE s = <<Call("network_elem_definition")>>
    <2>1. s # <<>> /\ Head(s) = Call("network_elem_definition") /\ Tail(s) = <<>>
      BY <1>5
    <2>2. /\ Call("network_elem_definition").do = "call"
          /\ Call("network_elem_definition").what = "network_elem_definition"
      BY Entries
    <2>3. <<T(k), T("LEFT_PARENTHESIS"), Call("params"), RP>> \o <<>> =
              <<T(k), T("LEFT_PARENTHESIS"), Call("params"), RP>>
      BY Concat40
    <2>4. <<>> \o <<>> = <<>>
      BY ConcatEmpty
    <2>5. <<T(k), T("LEFT_PARENTHESIS"), Call("params"), RP>> # Error /\ <<>> # Error
      BY DEF Error
    <2>6. LET body == Production("network_elem_definition", k)
          IN  IF body = Error THEN Goes("value", k) = "nowhere"
              ELSE body \o Tail(s) \in Stacks("value", k)
      BY <1>5, <2>1, <2>3, <2>4, <2>5, <1>2, <1>3, BodyOfDefinition DEF Elements
    <2> QED
      BY <2>1, <2>2, <2>6 DEF Sound
  <1>6. CASE k \in Elements /\ s = <<T(k), T("LEFT_PARENTHESIS"), Call("params"), RP>>
    <2>1. s # <<>> /\ Head(s) = T(k) /\ Tail(s) = <<T("LEFT_PARENTHESIS"), Call("params"), RP>>
      BY <1>6
    <2>2. T(k).do = "match" /\ T(k).what = k
      BY Entries
    <2>3. <<T("LEFT_PARENTHESIS"), Call("params"), RP>> \in Stacks("open", "unread")
      BY DEF Stacks, When, StartStacks
    <2> QED
      BY <1>6, <2>1, <2>2, <2>3, <1>2, <1>3 DEF Sound, Endings, Elements
  <1>7. CASE k = "nil" /\ s = <<>>
    BY <1>7, <1>2, <1>3 DEF Sound
  <1> QED
    BY <1>1, <1>4, <1>5, <1>6, <1>7

LEMMA At_open ==
  ASSUME NEW k, k # "unread", NEW s \in Stacks("open", k)
  PROVE  Sound("open", k, s)
  <1>1. (s = <<T("LEFT_PARENTHESIS"), Call("params"), RP>>)
    BY DEF Stacks, When
  <1>2. <<T("LEFT_PARENTHESIS"), Call("params"), RP>> \in Stacks("open", k)
    BY DEF Stacks, When
  <1>3. Goes("open", k) = IF k = "LEFT_PARENTHESIS" THEN "params" ELSE "nowhere"
    BY DEF Goes
  <1>4. CASE s = <<T("LEFT_PARENTHESIS"), Call("params"), RP>>
    <2>1. s # <<>> /\ Head(s) = T("LEFT_PARENTHESIS") /\ Tail(s) = <<Call("params"), RP>>
      BY <1>4
    <2>2. T("LEFT_PARENTHESIS").do = "match" /\ T("LEFT_PARENTHESIS").what = "LEFT_PARENTHESIS"
      BY Entries
    <2>3. <<Call("params"), RP>> \in Stacks("params", "unread")
      BY DEF Stacks, When, StartStacks
    <2> QED
      BY <1>4, <2>1, <2>2, <2>3, <1>2, <1>3 DEF Sound, Endings
  <1> QED
    BY <1>1, <1>4

LEMMA At_params ==
  ASSUME NEW k, k # "unread", NEW s \in Stacks("params", k)
  PROVE  Sound("params", k, s)
  <1>1. \/ s = <<Call("params"), RP>>
        \/ k = "IDENTIFIER" /\ s = <<Id(NoName), T("EQUAL_PARAMETERS"), Call("second_part_equal"), RP>>
        \/ k \notin {"IDENTIFIER", "unread"} /\ s = <<RP>>
    BY DEF Stacks, When
  <1>2. /\ <<Call("params"), RP>> \in Stacks("params", k)
        /\ k = "IDENTIFIER" =>
               <<Id(NoName), T("EQUAL_PARAMETERS"), Call("second_part_equal"), RP>> \in Stacks("params", k)
        /\ k \notin {"IDENTIFIER", "unread"} => <<RP>> \in Stacks("params", k)
    BY DEF Stacks, When
  <1>3. Goes("params", k) =
            IF k = "RIGHT_PARENTHESIS" THEN "start"
            ELSE IF k = "IDENTIFIER" THEN "equal"
            ELSE "nowhere"
    BY DEF Goes
  <1>4. CASE s = <<Call("params"), RP>>
    <2>1. s # <<>> /\ Head(s) = Call("params") /\ Tail(s) = <<RP>>
      BY <1>4
    <2>2. Call("params").do = "call" /\ Call("params").what = "params"
      BY Entries
    <2>3. <<Id(NoName), T("EQUAL_PARAMETERS"), Call("second_part_equal")>> \o <<RP>> =
              <<Id(NoName), T("EQUAL_PARAMETERS"), Call("second_part_equal"), RP>>
      BY Concat31
    <2>4. <<>> \o <<RP>> = <<RP>>
      BY Concat01
    <2>5. <<Id(NoName), T("EQUAL_PARAMETERS"), Call("second_part_equal")>> # Error /\ <<>> # Error
      BY DEF Error
    <2>6. LET body == Production("params", k)
          IN  IF body = Error THEN Goes("params", k) = "nowhere"
              ELSE body \o Tail(s) \in Stacks("params", k)
      BY <1>4, <2>1, <2>3, <2>4, <2>5, <1>2, <1>3, BodyOfParams
    <2> QED
      BY <2>1, <2>2, <2>6 DEF Sound
  <1>5. CASE k = "IDENTIFIER" /\ s = <<Id(NoName), T("EQUAL_PARAMETERS"), Call("second_part_equal"), RP>>
    <2>1. s # <<>> /\ Head(s) = Id(NoName) /\ Tail(s) = <<T("EQUAL_PARAMETERS"), Call("second_part_equal"), RP>>
      BY <1>5
    <2>2. Id(NoName).do = "match" /\ Id(NoName).what = "IDENTIFIER"
      BY Entries
    <2>3. <<T("EQUAL_PARAMETERS"), Call("second_part_equal"), RP>> \in Stacks("equal", "unread")
      BY DEF Stacks, When, StartStacks
    <2> QED
      BY <1>5, <2>1, <2>2, <2>3, <1>2, <1>3 DEF Sound, Endings
  <1>6. CASE k \notin {"IDENTIFIER", "unread"} /\ s = <<RP>>
    <2>1. s # <<>> /\ Head(s) = RP /\ Tail(s) = <<>>
      BY <1>6
    <2>2. RP.do = "match" /\ RP.what = "RIGHT_PARENTHESIS"
      BY Entries
    <2>3. <<>> \in Stacks("start", "unread")
      BY DEF Stacks, When, StartStacks
    <2> QED
      BY <1>6, <2>1, <2>2, <2>3, <1>2, <1>3 DEF Sound, Endings
  <1> QED
    BY <1>1, <1>4, <1>5, <1>6

LEMMA At_equal ==
  ASSUME NEW k, k # "unread", NEW s \in Stacks("equal", k)
  PROVE  Sound("equal", k, s)
  <1>1. (s = <<T("EQUAL_PARAMETERS"), Call("second_part_equal"), RP>>)
    BY DEF Stacks, When
  <1>2. <<T("EQUAL_PARAMETERS"), Call("second_part_equal"), RP>> \in Stacks("equal", k)
    BY DEF Stacks, When
  <1>3. Goes("equal", k) = IF k = "EQUAL_PARAMETERS" THEN "second" ELSE "nowhere"
    BY DEF Goes
  <1>4. CASE s = <<T("EQUAL_PARAMETERS"), Call("second_part_equal"), RP>>
    <2>1. s # <<>> /\ Head(s) = T("EQUAL_PARAMETERS") /\ Tail(s) = <<Call("second_part_equal"), RP>>
      BY <1>4
    <2>2. T("EQUAL_PARAMETERS").do = "match" /\ T("EQUAL_PARAMETERS").what = "EQUAL_PARAMETERS"
      BY Entries
    <2>3. <<Call("second_part_equal"), RP>> \in Stacks("second", "unread")
      BY DEF Stacks, When, StartStacks
    <2> QED
      BY <1>4, <2>1, <2>2, <2>3, <1>2, <1>3 DEF Sound, Endings
  <1> QED
    BY <1>1, <1>4

LEMMA At_second ==
  ASSUME NEW k, k # "unread", NEW s \in Stacks("second", k)
  PROVE  Sound("second", k, s)
  <1>1. \/ s = <<Call("second_part_equal"), RP>>
        \/ k = "DOUBLE_QUOTE" /\ s = <<T("DOUBLE_QUOTE"), T("STRING"), T("DOUBLE_QUOTE"), More, RP>>
        \/ k = "IDENTIFIER" /\ s = <<Id("ref"), Resolve("ref"), More, RP>>
        \/ k = "LEFT_BRACE" /\ s = <<T("LEFT_BRACE"), Call("elems_of_array"), RB, More, RP>>
        \/ k = "nil" /\ s = <<RP>>
    BY DEF Stacks, When
  <1>2. /\ <<Call("second_part_equal"), RP>> \in Stacks("second", k)
        /\ k = "DOUBLE_QUOTE" =>
               <<T("DOUBLE_QUOTE"), T("STRING"), T("DOUBLE_QUOTE"), More, RP>> \in Stacks("second", k)
        /\ k = "IDENTIFIER" => <<Id("ref"), Resolve("ref"), More, RP>> \in Stacks("second", k)
        /\ k = "LEFT_BRACE" => <<T("LEFT_BRACE"), Call("elems_of_array"), RB, More, RP>> \in Stacks("second", k)
        /\ k = "nil" => <<RP>> \in Stacks("second", k)
    BY DEF Stacks, When
  <1>3. Goes("second", k) =
            IF k = "IDENTIFIER" THEN "more"
            ELSE IF k = "DOUBLE_QUOTE" THEN "string"
            ELSE IF k = "LEFT_BRACE" THEN "elems"
            ELSE "nowhere"
    BY DEF Goes
  <1>4. CASE s = <<Call("second_part_equal"), RP>>
    <2>1. s # <<>> /\ Head(s) = Call("second_part_equal") /\ Tail(s) = <<RP>>
      BY <1>4
    <2>2. Call("second_part_equal").do = "call" /\ Call("second_part_equal").what = "second_part_equal"
      BY Entries
    <2>3. <<T("DOUBLE_QUOTE"), T("STRING"), T("DOUBLE_QUOTE"), More>> \o <<RP>> =
              <<T("DOUBLE_QUOTE"), T("STRING"), T("DOUBLE_QUOTE"), More, RP>>
      BY Concat41
    <2>4. <<Id("ref"), Resolve("ref"), More>> \o <<RP>> = <<Id("ref"), Resolve("ref"), More, RP>>
      BY Concat31
    <2>5. <<T("LEFT_BRACE"), Call("elems_of_array"), RB, More>> \o <<RP>> =
              <<T("LEFT_BRACE"), Call("elems_of_array"), RB, More, RP>>
      BY Concat41
    <2>6. <<>> \o <<RP>> = <<RP>>
      BY Concat01
    <2>7. /\ <<T("DOUBLE_QUOTE"), T("STRING"), T("DOUBLE_QUOTE"), More>> # Error
          /\ <<Id("ref"), Resolve("ref"), More>> # Error
          /\ <<T("LEFT_BRACE"), Call("elems_of_array"), RB, More>> # Error
          /\ <<>> # Error
      BY DEF Error
    <2>8. LET body == Production("second_part_equal", k)
          IN  IF body = Error THEN Goes("second", k) = "nowhere"
              ELSE body \o Tail(s) \in Stacks("second", k)
      BY <1>4, <2>1, <2>3, <2>4, <2>5, <2>6, <2>7, <1>2, <1>3, BodyOfSecondPart
    <2> QED
      BY <2>1, <2>2, <2>8 DEF Sound
  <1>5. CASE k = "DOUBLE_QUOTE" /\ s = <<T("DOUBLE_QUOTE"), T("STRING"), T("DOUBLE_QUOTE"), More, RP>>
    <2>1. s # <<>> /\ Head(s) = T("DOUBLE_QUOTE") /\ Tail(s) = <<T("STRING"), T("DOUBLE_QUOTE"), More, RP>>
      BY <1>5
    <2>2. T("DOUBLE_QUOTE").do = "match" /\ T("DOUBLE_QUOTE").what = "DOUBLE_QUOTE"
      BY Entries
    <2>3. <<T("STRING"), T("DOUBLE_QUOTE"), More, RP>> \in Stacks("string", "unread")
      BY DEF Stacks, When, StartStacks
    <2> QED
      BY <1>5, <2>1, <2>2, <2>3, <1>2, <1>3 DEF Sound, Endings
  <1>6. CASE k = "IDENTIFIER" /\ s = <<Id("ref"), Resolve("ref"), More, RP>>
    <2>1. s # <<>> /\ Head(s) = Id("ref") /\ Tail(s) = <<Resolve("ref"), More, RP>>
      BY <1>6
    <2>2. Id("ref").do = "match" /\ Id("ref").what = "IDENTIFIER"
      BY Entries
    <2>3. <<Resolve("ref"), More, RP>> \in Stacks("more", "unread")
      BY DEF Stacks, When, StartStacks
    <2> QED
      BY <1>6, <2>1, <2>2, <2>3, <1>2, <1>3 DEF Sound, Endings
  <1>7. CASE k = "LEFT_BRACE" /\ s = <<T("LEFT_BRACE"), Call("elems_of_array"), RB, More, RP>>
    <2>1. s # <<>> /\ Head(s) = T("LEFT_BRACE") /\ Tail(s) = <<Call("elems_of_array"), RB, More, RP>>
      BY <1>7
    <2>2. T("LEFT_BRACE").do = "match" /\ T("LEFT_BRACE").what = "LEFT_BRACE"
      BY Entries
    <2>3. <<Call("elems_of_array"), RB, More, RP>> \in Stacks("elems", "unread")
      BY DEF Stacks, When, StartStacks
    <2> QED
      BY <1>7, <2>1, <2>2, <2>3, <1>2, <1>3 DEF Sound, Endings
  <1>8. CASE k = "nil" /\ s = <<RP>>
    <2>1. s # <<>> /\ Head(s) = RP /\ Tail(s) = <<>>
      BY <1>8
    <2>2. RP.do = "match" /\ RP.what = "RIGHT_PARENTHESIS"
      BY Entries
    <2>3. k # "RIGHT_PARENTHESIS"
      BY <1>8
    <2> QED
      BY <1>8, <2>1, <2>2, <2>3, <1>2, <1>3 DEF Sound, Endings
  <1> QED
    BY <1>1, <1>4, <1>5, <1>6, <1>7, <1>8

LEMMA At_string ==
  ASSUME NEW k, k # "unread", NEW s \in Stacks("string", k)
  PROVE  Sound("string", k, s)
  <1>1. (s = <<T("STRING"), T("DOUBLE_QUOTE"), More, RP>>)
    BY DEF Stacks, When
  <1>2. <<T("STRING"), T("DOUBLE_QUOTE"), More, RP>> \in Stacks("string", k)
    BY DEF Stacks, When
  <1>3. Goes("string", k) = IF k = "STRING" THEN "quote" ELSE "nowhere"
    BY DEF Goes
  <1>4. CASE s = <<T("STRING"), T("DOUBLE_QUOTE"), More, RP>>
    <2>1. s # <<>> /\ Head(s) = T("STRING") /\ Tail(s) = <<T("DOUBLE_QUOTE"), More, RP>>
      BY <1>4
    <2>2. T("STRING").do = "match" /\ T("STRING").what = "STRING"
      BY Entries
    <2>3. <<T("DOUBLE_QUOTE"), More, RP>> \in Stacks("quote", "unread")
      BY DEF Stacks, When, StartStacks
    <2> QED
      BY <1>4, <2>1, <2>2, <2>3, <1>2, <1>3 DEF Sound, Endings
  <1> QED
    BY <1>1, <1>4

LEMMA At_quote ==
  ASSUME NEW k, k # "unread", NEW s \in Stacks("quote", k)
  PROVE  Sound("quote", k, s)
  <1>1. (s = <<T("DOUBLE_QUOTE"), More, RP>>)
    BY DEF Stacks, When
  <1>2. <<T("DOUBLE_QUOTE"), More, RP>> \in Stacks("quote", k)
    BY DEF Stacks, When
  <1>3. Goes("quote", k) = IF k = "DOUBLE_QUOTE" THEN "more" ELSE "nowhere"
    BY DEF Goes
  <1>4. CASE s = <<T("DOUBLE_QUOTE"), More, RP>>
    <2>1. s # <<>> /\ Head(s) = T("DOUBLE_QUOTE") /\ Tail(s) = <<More, RP>>
      BY <1>4
    <2>2. T("DOUBLE_QUOTE").do = "match" /\ T("DOUBLE_QUOTE").what = "DOUBLE_QUOTE"
      BY Entries
    <2>3. <<More, RP>> \in Stacks("more", "unread")
      BY DEF Stacks, When, StartStacks
    <2> QED
      BY <1>4, <2>1, <2>2, <2>3, <1>2, <1>3 DEF Sound, Endings
  <1> QED
    BY <1>1, <1>4

LEMMA At_more ==
  ASSUME NEW k, k # "unread", NEW s \in Stacks("more", k)
  PROVE  Sound("more", k, s)
  <1>1. \/ s = <<Resolve("ref"), More, RP>>
        \/ s = <<More, RP>>
        \/ k = "COMMA" /\ s = <<T("COMMA"), Call("params"), RP>>
        \/ k \notin {"COMMA", "unread"} /\ s = <<RP>>
    BY DEF Stacks, When
  <1>2. /\ <<Resolve("ref"), More, RP>> \in Stacks("more", k)
        /\ <<More, RP>> \in Stacks("more", k)
        /\ k = "COMMA" => <<T("COMMA"), Call("params"), RP>> \in Stacks("more", k)
        /\ k \notin {"COMMA", "unread"} => <<RP>> \in Stacks("more", k)
    BY DEF Stacks, When
  <1>3. Goes("more", k) = IF k = "RIGHT_PARENTHESIS" THEN "start" ELSE IF k = "COMMA" THEN "params" ELSE "nowhere"
    BY DEF Goes
  <1>4. CASE s = <<Resolve("ref"), More, RP>>
    <2>1. s # <<>> /\ Head(s) = Resolve("ref") /\ Tail(s) = <<More, RP>>
      BY <1>4
    <2>2. Resolve("ref").do = "resolve"
      BY Entries
    <2> QED
      BY <1>4, <2>1, <2>2, <1>2, <1>3 DEF Sound
  <1>5. CASE s = <<More, RP>>
    <2>1. s # <<>> /\ Head(s) = More /\ Tail(s) = <<RP>>
      BY <1>5
    <2>2. More.do = "call" /\ More.what = "add_more_parameters"
      BY Entries
    <2>3. <<T("COMMA"), Call("params")>> \o <<RP>> = <<T("COMMA"), Call("params"), RP>>
      BY Concat21
    <2>4. <<>> \o <<RP>> = <<RP>>
      BY Concat01
    <2>5. <<T("COMMA"), Call("params")>> # Error /\ <<>> # Error
      BY DEF Error
    <2>6. LET body == Production("add_more_parameters", k)
          IN  IF body = Error THEN Goes("more", k) = "nowhere"
              ELSE body \o Tail(s) \in Stacks("more", k)
      BY <1>5, <2>1, <2>3, <2>4, <2>5, <1>2, <1>3, BodyOfMore
    <2> QED
      BY <2>1, <2>2, <2>6 DEF Sound
  <1>6. CASE k = "COMMA" /\ s = <<T("COMMA"), Call("params"), RP>>
    <2>1. s # <<>> /\ Head(s) = T("COMMA") /\ Tail(s) = <<Call("params"), RP>>
      BY <1>6
    <2>2. T("COMMA").do = "match" /\ T("COMMA").what = "COMMA"
      BY Entries
    <2>3. <<Call("params"), RP>> \in Stacks("params", "unread")
      BY DEF Stacks, When, StartStacks
    <2> QED
      BY <1>6, <2>1, <2>2, <2>3, <1>2, <1>3 DEF Sound, Endings
  <1>7. CASE k \notin {"COMMA", "unread"} /\ s = <<RP>>
    <2>1. s # <<>> /\ Head(s) = RP /\ Tail(s) = <<>>
      BY <1>7
    <2>2. RP.do = "match" /\ RP.what = "RIGHT_PARENTHESIS"
      BY Entries
    <2>3. <<>> \in Stacks("start", "unread")
      BY DEF Stacks, When, StartStacks
    <2> QED
      BY <1>7, <2>1, <2>2, <2>3, <1>2, <1>3 DEF Sound, Endings
  <1> QED
    BY <1>1, <1>4, <1>5, <1>6, <1>7

LEMMA At_elems ==
  ASSUME NEW k, k # "unread", NEW s \in Stacks("elems", k)
  PROVE  Sound("elems", k, s)
  <1>1. \/ s = <<Call("elems_of_array"), RB, More, RP>>
        \/ k = "IDENTIFIER" /\ s = <<Id("ref"), Resolve("ref"), Further, RB, More, RP>>
        \/ /\ k = "DOUBLE_QUOTE"
           /\ s = <<T("DOUBLE_QUOTE"), T("STRING"), T("DOUBLE_QUOTE"), Further, RB, More, RP>>
        \/ k = "nil" /\ s = <<RB, More, RP>>
    BY DEF Stacks, When
  <1>2. /\ <<Call("elems_of_array"), RB, More, RP>> \in Stacks("elems", k)
        /\ k = "IDENTIFIER" => <<Id("ref"), Resolve("ref"), Further, RB, More, RP>> \in Stacks("elems", k)
        /\ k = "DOUBLE_QUOTE" =>
               <<T("DOUBLE_QUOTE"), T("STRING"), T("DOUBLE_QUOTE"), Further, RB, More, RP>> \in Stacks("elems", k)
        /\ k = "nil" => <<RB, More, RP>> \in Stacks("elems", k)
    BY DEF Stacks, When
  <1>3. Goes("elems", k) =
            IF k = "IDENTIFIER" THEN "more_elems"
            ELSE IF k = "DOUBLE_QUOTE" THEN "elem_string"
            ELSE "nowhere"
    BY DEF Goes
  <1>4. CASE s = <<Call("elems_of_array"), RB, More, RP>>
    <2>1. s # <<>> /\ Head(s) = Call("elems_of_array") /\ Tail(s) = <<RB, More, RP>>
      BY <1>4
    <2>2. Call("elems_of_array").do = "call" /\ Call("elems_of_array").what = "elems_of_array"
      BY Entries
    <2>3. <<Id("ref"), Resolve("ref"), Further>> \o <<RB, More, RP>> =
              <<Id("ref"), Resolve("ref"), Further, RB, More, RP>>
      BY Concat33
    <2>4. <<T("DOUBLE_QUOTE"), T("STRING"), T("DOUBLE_QUOTE"), Further>> \o <<RB, More, RP>> =
              <<T("DOUBLE_QUOTE"), T("STRING"), T("DOUBLE_QUOTE"), Further, RB, More, RP>>
      BY Concat43
    <2>5. <<>> \o <<RB, More, RP>> = <<RB, More, RP>>
      BY Concat03
    <2>6. /\ <<Id("ref"), Resolve("ref"), Further>> # Error
          /\ <<T("DOUBLE_QUOTE"), T("STRING"), T("DOUBLE_QUOTE"), Further>> # Error
          /\ <<>> # Error
      BY DEF Error
    <2>7. LET body == Production("elems_of_array", k)
          IN  IF body = Error THEN Goes("elems", k) = "nowhere"
              ELSE body \o Tail(s) \in Stacks("elems", k)
      BY <1>4, <2>1, <2>3, <2>4, <2>5, <2>6, <1>2, <1>3, BodyOfElems
    <2> QED
      BY <2>1, <2>2, <2>7 DEF Sound
  <1>5. CASE k = "IDENTIFIER" /\ s = <<Id("ref"), Resolve("ref"), Further, RB, More, RP>>
    <2>1. s # <<>> /\ Head(s) = Id("ref") /\ Tail(s) = <<Resolve("ref"), Further, RB, More, RP>>
      BY <1>5
    <2>2. Id("ref").do = "match" /\ Id("ref").what = "IDENTIFIER"
      BY Entries
    <2>3. <<Resolve("ref"), Further, RB, More, RP>> \in Stacks("more_elems", "unread")
      BY DEF Stacks, When, StartStacks
    <2> QED
      BY <1>5, <2>1, <2>2, <2>3, <1>2, <1>3 DEF Sound, Endings
  <1>6. CASE k = "DOUBLE_QUOTE" /\ s = <<T("DOUBLE_QUOTE"), T("STRING"), T("DOUBLE_QUOTE"), Further, RB, More, RP>>
    <2>1. /\ s # <<>>
          /\ Head(s) = T("DOUBLE_QUOTE")
          /\ Tail(s) = <<T("STRING"), T("DOUBLE_QUOTE"), Further, RB, More, RP>>
      BY <1>6
    <2>2. T("DOUBLE_QUOTE").do = "match" /\ T("DOUBLE_QUOTE").what = "DOUBLE_QUOTE"
      BY Entries
    <2>3. <<T("STRING"), T("DOUBLE_QUOTE"), Further, RB, More, RP>> \in Stacks("elem_string", "unread")
      BY DEF Stacks, When, StartStacks
    <2> QED
      BY <1>6, <2>1, <2>2, <2>3, <1>2, <1>3 DEF Sound, Endings
  <1>7. CASE k = "nil" /\ s = <<RB, More, RP>>
    <2>1. s # <<>> /\ Head(s) = RB /\ Tail(s) = <<More, RP>>
      BY <1>7
    <2>2. RB.do = "match" /\ RB.what = "RIGHT_BRACE"
      BY Entries
    <2>3. k # "RIGHT_BRACE"
      BY <1>7
    <2> QED
      BY <1>7, <2>1, <2>2, <2>3, <1>2, <1>3 DEF Sound, Endings
  <1> QED
    BY <1>1, <1>4, <1>5, <1>6, <1>7

LEMMA At_elem_string ==
  ASSUME NEW k, k # "unread", NEW s \in Stacks("elem_string", k)
  PROVE  Sound("elem_string", k, s)
  <1>1. (s = <<T("STRING"), T("DOUBLE_QUOTE"), Further, RB, More, RP>>)
    BY DEF Stacks, When
  <1>2. <<T("STRING"), T("DOUBLE_QUOTE"), Further, RB, More, RP>> \in Stacks("elem_string", k)
    BY DEF Stacks, When
  <1>3. Goes("elem_string", k) = IF k = "STRING" THEN "elem_quote" ELSE "nowhere"
    BY DEF Goes
  <1>4. CASE s = <<T("STRING"), T("DOUBLE_QUOTE"), Further, RB, More, RP>>
    <2>1. s # <<>> /\ Head(s) = T("STRING") /\ Tail(s) = <<T("DOUBLE_QUOTE"), Further, RB, More, RP>>
      BY <1>4
    <2>2. T("STRING").do = "match" /\ T("STRING").what = "STRING"
      BY Entries
    <2>3. <<T("DOUBLE_QUOTE"), Further, RB, More, RP>> \in Stacks("elem_quote", "unread")
      BY DEF Stacks, When, StartStacks
    <2> QED
      BY <1>4, <2>1, <2>2, <2>3, <1>2, <1>3 DEF Sound, Endings
  <1> QED
    BY <1>1, <1>4

LEMMA At_elem_quote ==
  ASSUME NEW k, k # "unread", NEW s \in Stacks("elem_quote", k)
  PROVE  Sound("elem_quote", k, s)
  <1>1. (s = <<T("DOUBLE_QUOTE"), Further, RB, More, RP>>)
    BY DEF Stacks, When
  <1>2. <<T("DOUBLE_QUOTE"), Further, RB, More, RP>> \in Stacks("elem_quote", k)
    BY DEF Stacks, When
  <1>3. Goes("elem_quote", k) = IF k = "DOUBLE_QUOTE" THEN "more_elems" ELSE "nowhere"
    BY DEF Goes
  <1>4. CASE s = <<T("DOUBLE_QUOTE"), Further, RB, More, RP>>
    <2>1. s # <<>> /\ Head(s) = T("DOUBLE_QUOTE") /\ Tail(s) = <<Further, RB, More, RP>>
      BY <1>4
    <2>2. T("DOUBLE_QUOTE").do = "match" /\ T("DOUBLE_QUOTE").what = "DOUBLE_QUOTE"
      BY Entries
    <2>3. <<Further, RB, More, RP>> \in Stacks("more_elems", "unread")
      BY DEF Stacks, When, StartStacks
    <2> QED
      BY <1>4, <2>1, <2>2, <2>3, <1>2, <1>3 DEF Sound, Endings
  <1> QED
    BY <1>1, <1>4

LEMMA At_more_elems ==
  ASSUME NEW k, k # "unread", NEW s \in Stacks("more_elems", k)
  PROVE  Sound("more_elems", k, s)
  <1>1. \/ s = <<Resolve("ref"), Further, RB, More, RP>>
        \/ s = <<Further, RB, More, RP>>
        \/ k = "COMMA" /\ s = <<T("COMMA"), Call("elems_of_array"), RB, More, RP>>
        \/ k \notin {"COMMA", "unread"} /\ s = <<RB, More, RP>>
    BY DEF Stacks, When
  <1>2. /\ <<Resolve("ref"), Further, RB, More, RP>> \in Stacks("more_elems", k)
        /\ <<Further, RB, More, RP>> \in Stacks("more_elems", k)
        /\ k = "COMMA" => <<T("COMMA"), Call("elems_of_array"), RB, More, RP>> \in Stacks("more_elems", k)
        /\ k \notin {"COMMA", "unread"} => <<RB, More, RP>> \in Stacks("more_elems", k)
    BY DEF Stacks, When
  <1>3. Goes("more_elems", k) = IF k = "RIGHT_BRACE" THEN "more" ELSE IF k = "COMMA" THEN "elems" ELSE "nowhere"
    BY DEF Goes
  <1>4. CASE s = <<Resolve("ref"), Further, RB, More, RP>>
    <2>1. s # <<>> /\ Head(s) = Resolve("ref") /\ Tail(s) = <<Further, RB, More, RP>>
      BY <1>4
    <2>2. Resolve("ref").do = "resolve"
      BY Entries
    <2> QED
      BY <1>4, <2>1, <2>2, <1>2, <1>3 DEF Sound
  <1>5. CASE s = <<Further, RB, More, RP>>
    <2>1. s # <<>> /\ Head(s) = Further /\ Tail(s) = <<RB, More, RP>>
      BY <1>5
    <2>2. Further.do = "call" /\ Further.what = "add_more_elements_to_array"
      BY Entries
    <2>3. <<T("COMMA"), Call("elems_of_array")>> \o <<RB, More, RP>> =
              <<T("COMMA"), Call("elems_of_array"), RB, More, RP>>
      BY Concat23
    <2>4. <<>> \o <<RB, More, RP>> = <<RB, More, RP>>
      BY Concat03
    <2>5. <<T("COMMA"), Call("elems_of_array")>> # Error /\ <<>> # Error
      BY DEF Error
    <2>6. LET body == Production("add_more_elements_to_array", k)
          IN  IF body = Error THEN Goes("more_elems", k) = "nowhere"
              ELSE body \o Tail(s) \in Stacks("more_elems", k)
      BY <1>5, <2>1, <2>3, <2>4, <2>5, <1>2, <1>3, BodyOfFurther
    <2> QED
      BY <2>1, <2>2, <2>6 DEF Sound
  <1>6. CASE k = "COMMA" /\ s = <<T("COMMA"), Call("elems_of_array"), RB, More, RP>>
    <2>1. s # <<>> /\ Head(s) = T("COMMA") /\ Tail(s) = <<Call("elems_of_array"), RB, More, RP>>
      BY <1>6
    <2>2. T("COMMA").do = "match" /\ T("COMMA").what = "COMMA"
      BY Entries
    <2>3. <<Call("elems_of_array"), RB, More, RP>> \in Stacks("elems", "unread")
      BY DEF Stacks, When, StartStacks
    <2> QED
      BY <1>6, <2>1, <2>2, <2>3, <1>2, <1>3 DEF Sound, Endings
  <1>7. CASE k \notin {"COMMA", "unread"} /\ s = <<RB, More, RP>>
    <2>1. s # <<>> /\ Head(s) = RB /\ Tail(s) = <<More, RP>>
      BY <1>7
    <2>2. RB.do = "match" /\ RB.what = "RIGHT_BRACE"
      BY Entries
    <2>3. <<More, RP>> \in Stacks("more", "unread")
      BY DEF Stacks, When, StartStacks
    <2> QED
      BY <1>7, <2>1, <2>2, <2>3, <1>2, <1>3 DEF Sound, Endings
  <1> QED
    BY <1>1, <1>4, <1>5, <1>6, <1>7

LEMMA At_intent ==
  ASSUME NEW k, k # "unread", NEW s \in Stacks("intent", k)
  PROVE  Sound("intent", k, s)
  <1>1. (s = <<Id(NoName), T("SELECT"), Id("select"), Call("intent_production_with_action"), Wrap>>)
    BY DEF Stacks, When
  <1>2. <<Id(NoName), T("SELECT"), Id("select"), Call("intent_production_with_action"), Wrap>> \in Stacks("intent", k)
    BY DEF Stacks, When
  <1>3. Goes("intent", k) = IF k = "IDENTIFIER" THEN "select" ELSE "nowhere"
    BY DEF Goes
  <1>4. CASE s = <<Id(NoName), T("SELECT"), Id("select"), Call("intent_production_with_action"), Wrap>>
    <2>1. /\ s # <<>>
          /\ Head(s) = Id(NoName)
          /\ Tail(s) = <<T("SELECT"), Id("select"), Call("intent_production_with_action"), Wrap>>
      BY <1>4
    <2>2. Id(NoName).do = "match" /\ Id(NoName).what = "IDENTIFIER"
      BY Entries
    <2>3. <<T("SELECT"), Id("select"), Call("intent_production_with_action"), Wrap>> \in Stacks("select", "unread")
      BY DEF Stacks, When, StartStacks
    <2> QED
      BY <1>4, <2>1, <2>2, <2>3, <1>2, <1>3 DEF Sound, Endings
  <1> QED
    BY <1>1, <1>4

LEMMA At_select ==
  ASSUME NEW k, k # "unread", NEW s \in Stacks("select", k)
  PROVE  Sound("select", k, s)
  <1>1. (s = <<T("SELECT"), Id("select"), Call("intent_production_with_action"), Wrap>>)
    BY DEF Stacks, When
  <1>2. <<T("SELECT"), Id("select"), Call("intent_production_with_action"), Wrap>> \in Stacks("select", k)
    BY DEF Stacks, When
  <1>3. Goes("select", k) = IF k = "SELECT" THEN "hosts" ELSE "nowhere"
    BY DEF Goes
  <1>4. CASE s = <<T("SELECT"), Id("select"), Call("intent_production_with_action"), Wrap>>
    <2>1. /\ s # <<>>
          /\ Head(s) = T("SELECT")
          /\ Tail(s) = <<Id("select"), Call("intent_production_with_action"), Wrap>>
      BY <1>4
    <2>2. T("SELECT").do = "match" /\ T("SELECT").what = "SELECT"
      BY Entries
    <2>3. <<Id("select"), Call("intent_production_with_action"), Wrap>> \in Stacks("hosts", "unread")
      BY DEF Stacks, When, StartStacks
    <2> QED
      BY <1>4, <2>1, <2>2, <2>3, <1>2, <1>3 DEF Sound, Endings
  <1> QED
    BY <1>1, <1>4

LEMMA At_hosts ==
  ASSUME NEW k, k # "unread", NEW s \in Stacks("hosts", k)
  PROVE  Sound("hosts", k, s)
  <1>1. (s = <<Id("select"), Call("intent_production_with_action"), Wrap>>)
    BY DEF Stacks, When
  <1>2. <<Id("select"), Call("intent_production_with_action"), Wrap>> \in Stacks("hosts", k)
    BY DEF Stacks, When
  <1>3. Goes("hosts", k) = IF k = "IDENTIFIER" THEN "action" ELSE "nowhere"
    BY DEF Goes
  <1>4. CASE s = <<Id("select"), Call("intent_production_with_action"), Wrap>>
    <2>1. s # <<>> /\ Head(s) = Id("select") /\ Tail(s) = <<Call("intent_production_with_action"), Wrap>>
      BY <1>4
    <2>2. Id("select").do = "match" /\ Id("select").what = "IDENTIFIER"
      BY Entries
    <2>3. <<Call("intent_production_with_action"), Wrap>> \in Stacks("action", "unread")
      BY DEF Stacks, When, StartStacks
    <2> QED
      BY <1>4, <2>1, <2>2, <2>3, <1>2, <1>3 DEF Sound, Endings
  <1> QED
    BY <1>1, <1>4

LEMMA At_action ==
  ASSUME NEW k, k # "unread", NEW s \in Stacks("action", k)
  PROVE  Sound("action", k, s)
  <1>1. \/ s = <<Call("intent_production_with_action"), Wrap>>
        \/ k = "ACTION" /\ s = <<T("ACTION"), Id(NoName), Call("intent_production_with_condition"), Wrap>>
        \/ k \notin {"ACTION", "unread"} /\ s = <<Wrap>>
        \/ k \notin {"ACTION", "unread"} /\ s \in StartStacks(k)
    BY DEF Stacks, When
  <1>2. /\ <<Call("intent_production_with_action"), Wrap>> \in Stacks("action", k)
        /\ k = "ACTION" =>
               <<T("ACTION"), Id(NoName), Call("intent_production_with_condition"), Wrap>> \in Stacks("action", k)
        /\ k \notin {"ACTION", "unread"} => <<Wrap>> \in Stacks("action", k)
        /\ k \notin {"ACTION", "unread"} => <<>> \in Stacks("action", k)
    BY DEF Stacks, When, StartStacks
  <1>3. Goes("action", k) =
            IF k = "IDENTIFIER" THEN "assign"
            ELSE IF k = "INTENT" THEN "intent"
            ELSE IF k = "ACTION" THEN "action_name"
            ELSE "nowhere"
    BY DEF Goes
  <1>4. CASE s = <<Call("intent_production_with_action"), Wrap>>
    <2>1. s # <<>> /\ Head(s) = Call("intent_production_with_action") /\ Tail(s) = <<Wrap>>
      BY <1>4
    <2>2. /\ Call("intent_production_with_action").do = "call"
          /\ Call("intent_production_with_action").what = "intent_production_with_action"
      BY Entries
    <2>3. <<T("ACTION"), Id(NoName), Call("intent_production_with_condition")>> \o <<Wrap>> =
              <<T("ACTION"), Id(NoName), Call("intent_production_with_condition"), Wrap>>
      BY Concat31
    <2>4. <<>> \o <<Wrap>> = <<Wrap>>
      BY Concat01
    <2>5. <<T("ACTION"), Id(NoName), Call("intent_production_with_condition")>> # Error /\ <<>> # Error
      BY DEF Error
    <2>6. LET body == Production("intent_production_with_action", k)
          IN  IF body = Error THEN Goes("action", k) = "nowhere"
              ELSE body \o Tail(s) \in Stacks("action", k)
      BY <1>4, <2>1, <2>3, <2>4, <2>5, <1>2, <1>3, BodyOfAction
    <2> QED
      BY <2>1, <2>2, <2>6 DEF Sound
  <1>5. CASE k = "ACTION" /\ s = <<T("ACTION"), Id(NoName), Call("intent_production_with_condition"), Wrap>>
    <2>1. /\ s # <<>>
          /\ Head(s) = T("ACTION")
          /\ Tail(s) = <<Id(NoName), Call("intent_production_with_condition"), Wrap>>
      BY <1>5
    <2>2. T("ACTION").do = "match" /\ T("ACTION").what = "ACTION"
      BY Entries
    <2>3. <<Id(NoName), Call("intent_production_with_condition"), Wrap>> \in Stacks("action_name", "unread")
      BY DEF Stacks, When, StartStacks
    <2> QED
      BY <1>5, <2>1, <2>2, <2>3, <1>2, <1>3 DEF Sound, Endings
  <1>6. CASE k \notin {"ACTION", "unread"} /\ s = <<Wrap>>
    <2>1. s # <<>> /\ Head(s) = Wrap /\ Tail(s) = <<>>
      BY <1>6
    <2>2. Wrap.do = "resolve"
      BY Entries
    <2> QED
      BY <1>6, <2>1, <2>2, <1>2, <1>3 DEF Sound
  <1>7. CASE k \notin {"ACTION", "unread"} /\ s \in StartStacks(k)
    <2>1. StartStacks(k) \subseteq Stacks("action", k)
      BY <1>7 DEF Stacks, When
    <2>2. "action" \in Endings
      BY DEF Endings
    <2>3. Goes("action", k) = Goes("start", k)
      BY <1>3, <1>7 DEF Goes
    <2> QED
      BY <1>7, <2>1, <2>2, <2>3, BetweenProductions
  <1> QED
    BY <1>1, <1>4, <1>5, <1>6, <1>7

LEMMA At_action_name ==
  ASSUME NEW k, k # "unread", NEW s \in Stacks("action_name", k)
  PROVE  Sound("action_name", k, s)
  <1>1. (s = <<Id(NoName), Call("intent_production_with_condition"), Wrap>>)
    BY DEF Stacks, When
  <1>2. <<Id(NoName), Call("intent_production_with_condition"), Wrap>> \in Stacks("action_name", k)
    BY DEF Stacks, When
  <1>3. Goes("action_name", k) = IF k = "IDENTIFIER" THEN "condition" ELSE "nowhere"
    BY DEF Goes
  <1>4. CASE s = <<Id(NoName), Call("intent_production_with_condition"), Wrap>>
    <2>1. s # <<>> /\ Head(s) = Id(NoName) /\ Tail(s) = <<Call("intent_production_with_condition"), Wrap>>
      BY <1>4
    <2>2. Id(NoName).do = "match" /\ Id(NoName).what = "IDENTIFIER"
      BY Entries
    <2>3. <<Call("intent_production_with_condition"), Wrap>> \in Stacks("condition", "unread")
      BY DEF Stacks, When, StartStacks
    <2> QED
      BY <1>4, <2>1, <2>2, <2>3, <1>2, <1>3 DEF Sound, Endings
  <1> QED
    BY <1>1, <1>4

LEMMA At_condition ==
  ASSUME NEW k, k # "unread", NEW s \in Stacks("condition", k)
  PROVE  Sound("condition", k, s)
  <1>1. \/ s = <<Call("intent_production_with_condition"), Wrap>>
        \/ k = "CONDITION" /\ s = <<T("CONDITION"), Id(NoName), Wrap>>
        \/ k \notin {"CONDITION", "unread"} /\ s = <<Wrap>>
        \/ k \notin {"CONDITION", "unread"} /\ s \in StartStacks(k)
    BY DEF Stacks, When
  <1>2. /\ <<Call("intent_production_with_condition"), Wrap>> \in Stacks("condition", k)
        /\ k = "CONDITION" => <<T("CONDITION"), Id(NoName), Wrap>> \in Stacks("condition", k)
        /\ k \notin {"CONDITION", "unread"} => <<Wrap>> \in Stacks("condition", k)
        /\ k \notin {"CONDITION", "unread"} => <<>> \in Stacks("condition", k)
    BY DEF Stacks, When, StartStacks
  <1>3. Goes("condition", k) =
            IF k = "IDENTIFIER" THEN "assign"
            ELSE IF k = "INTENT" THEN "intent"
            ELSE IF k = "CONDITION" THEN "condition_name"
            ELSE "nowhere"
    BY DEF Goes
  <1>4. CASE s = <<Call("intent_production_with_condition"), Wrap>>
    <2>1. s # <<>> /\ Head(s) = Call("intent_production_with_condition") /\ Tail(s) = <<Wrap>>
      BY <1>4
    <2>2. /\ Call("intent_production_with_condition").do = "call"
          /\ Call("intent_production_with_condition").what = "intent_production_with_condition"
      BY Entries
    <2>3. <<T("CONDITION"), Id(NoName)>> \o <<Wrap>> = <<T("CONDITION"), Id(NoName), Wrap>>
      BY Concat21
    <2>4. <<>> \o <<Wrap>> = <<Wrap>>
      BY Concat01
    <2>5. <<T("CONDITION"), Id(NoName)>> # Error /\ <<>> # Error
      BY DEF Error
    <2>6. LET body == Production("intent_production_with_condition", k)
          IN  IF body = Error THEN Goes("condition", k) = "nowhere"
              ELSE body \o Tail(s) \in Stacks("condition", k)
      BY <1>4, <2>1, <2>3, <2>4, <2>5, <1>2, <1>3, BodyOfCondition
    <2> QED
      BY <2>1, <2>2, <2>6 DEF Sound
  <1>5. CASE k = "CONDITION" /\ s = <<T("CONDITION"), Id(NoName), Wrap>>
    <2>1. s # <<>> /\ Head(s) = T("CONDITION") /\ Tail(s) = <<Id(NoName), Wrap>>
      BY <1>5
    <2>2. T("CONDITION").do = "match" /\ T("CONDITION").what = "CONDITION"
      BY Entries
    <2>3. <<Id(NoName), Wrap>> \in Stacks("condition_name", "unread")
      BY DEF Stacks, When, StartStacks
    <2> QED
      BY <1>5, <2>1, <2>2, <2>3, <1>2, <1>3 DEF Sound, Endings
  <1>6. CASE k \notin {"CONDITION", "unread"} /\ s = <<Wrap>>
    <2>1. s # <<>> /\ Head(s) = Wrap /\ Tail(s) = <<>>
      BY <1>6
    <2>2. Wrap.do = "resolve"
      BY Entries
    <2> QED
      BY <1>6, <2>1, <2>2, <1>2, <1>3 DEF Sound
  <1>7. CASE k \notin {"CONDITION", "unread"} /\ s \in StartStacks(k)
    <2>1. StartStacks(k) \subseteq Stacks("condition", k)
      BY <1>7 DEF Stacks, When
    <2>2. "condition" \in Endings
      BY DEF Endings
    <2>3. Goes("condition", k) = Goes("start", k)
      BY <1>3, <1>7 DEF Goes
    <2> QED
      BY <1>7, <2>1, <2>2, <2>3, BetweenProductions
  <1> QED
    BY <1>1, <1>4, <1>5, <1>6, <1>7

LEMMA At_condition_name ==
  ASSUME NEW k, k # "unread", NEW s \in Stacks("condition_name", k)
  PROVE  Sound("condition_name", k, s)
  <1>1. (s = <<Id(NoName), Wrap>>)
    BY DEF Stacks, When
  <1>2. <<Id(NoName), Wrap>> \in Stacks("condition_name", k)
    BY DEF Stacks, When
  <1>3. Goes("condition_name", k) = IF k = "IDENTIFIER" THEN "start" ELSE "nowhere"
    BY DEF Goes
  <1>4. CASE s = <<Id(NoName), Wrap>>
    <2>1. s # <<>> /\ Head(s) = Id(NoName) /\ Tail(s) = <<Wrap>>
      BY <1>4
    <2>2. Id(NoName).do = "match" /\ Id(NoName).what = "IDENTIFIER"
      BY Entries
    <2>3. <<Wrap>> \in Stacks("start", "unread")
      BY DEF Stacks, When, StartStacks
    <2> QED
      BY <1>4, <2>1, <2>2, <2>3, <1>2, <1>3 DEF Sound, Endings
  <1> QED
    BY <1>1, <1>4

-----------------------------------------------------------------------------
LEMMA StacksSound ==
  ASSUME NEW q \in Point, NEW k, k # "unread", NEW s \in Stacks(q, k)
  PROVE  Sound(q, k, s)
  <1>1. CASE q = "start"
    BY <1>1, At_start
  <1>2. CASE q = "assign"
    BY <1>2, At_assign
  <1>3. CASE q = "value"
    BY <1>3, At_value
  <1>4. CASE q = "open"
    BY <1>4, At_open
  <1>5. CASE q = "params"
    BY <1>5, At_params
  <1>6. CASE q = "equal"
    BY <1>6, At_equal
  <1>7. CASE q = "second"
    BY <1>7, At_second
  <1>8. CASE q = "string"
    BY <1>8, At_string
  <1>9. CASE q = "quote"
    BY <1>9, At_quote
  <1>10. CASE q = "more"
    BY <1>10, At_more
  <1>11. CASE q = "elems"
    BY <1>11, At_elems
  <1>12. CASE q = "elem_string"
    BY <1>12, At_elem_string
  <1>13. CASE q = "elem_quote"
    BY <1>13, At_elem_quote
  <1>14. CASE q = "more_elems"
    BY <1>14, At_more_elems
  <1>15. CASE q = "intent"
    BY <1>15, At_intent
  <1>16. CASE q = "select"
    BY <1>16, At_select
  <1>17. CASE q = "hosts"
    BY <1>17, At_hosts
  <1>18. CASE q = "action"
    BY <1>18, At_action
  <1>19. CASE q = "action_name"
    BY <1>19, At_action_name
  <1>20. CASE q = "condition"
    BY <1>20, At_condition
  <1>21. CASE q = "condition_name"
    BY <1>21, At_condition_name
  <1>22. CASE q = "nowhere"
    BY <1>22 DEF Stacks
  <1> QED
    BY <1>1, <1>2, <1>3, <1>4, <1>5, <1>6, <1>7, <1>8, <1>9, <1>10, <1>11, <1>12, <1>13, <1>14, <1>15,
       <1>16, <1>17, <1>18, <1>19, <1>20, <1>21, <1>22 DEF Point

(* Looking at a token does not take a stack away.                          *)
LEMMA StacksGrow ==
  ASSUME NEW q \in Point, NEW k
  PROVE  Stacks(q, "unread") \subseteq Stacks(q, k)
  <1>1. CASE q = "start"
    BY <1>1 DEF Stacks, When, StartStacks
  <1>2. CASE q = "assign"
    BY <1>2 DEF Stacks, When
  <1>3. CASE q = "value"
    BY <1>3 DEF Stacks, When, Elements
  <1>4. CASE q = "open"
    BY <1>4 DEF Stacks, When
  <1>5. CASE q = "params"
    BY <1>5 DEF Stacks, When
  <1>6. CASE q = "equal"
    BY <1>6 DEF Stacks, When
  <1>7. CASE q = "second"
    BY <1>7 DEF Stacks, When
  <1>8. CASE q = "string"
    BY <1>8 DEF Stacks, When
  <1>9. CASE q = "quote"
    BY <1>9 DEF Stacks, When
  <1>10. CASE q = "more"
    BY <1>10 DEF Stacks, When
  <1>11. CASE q = "elems"
    BY <1>11 DEF Stacks, When
  <1>12. CASE q = "elem_string"
    BY <1>12 DEF Stacks, When
  <1>13. CASE q = "elem_quote"
    BY <1>13 DEF Stacks, When
  <1>14. CASE q = "more_elems"
    BY <1>14 DEF Stacks, When
  <1>15. CASE q = "intent"
    BY <1>15 DEF Stacks, When
  <1>16. CASE q = "select"
    BY <1>16 DEF Stacks, When
  <1>17. CASE q = "hosts"
    BY <1>17 DEF Stacks, When
  <1>18. CASE q = "action"
    BY <1>18 DEF Stacks, When, StartStacks
  <1>19. CASE q = "action_name"
    BY <1>19 DEF Stacks, When
  <1>20. CASE q = "condition"
    BY <1>20 DEF Stacks, When, StartStacks
  <1>21. CASE q = "condition_name"
    BY <1>21 DEF Stacks, When
  <1>22. CASE q = "nowhere"
    BY <1>22 DEF Stacks
  <1> QED
    BY <1>1, <1>2, <1>3, <1>4, <1>5, <1>6, <1>7, <1>8, <1>9, <1>10, <1>11, <1>12, <1>13, <1>14, <1>15,
       <1>16, <1>17, <1>18, <1>19, <1>20, <1>21, <1>22 DEF Point

(* An identifier that starts a definition is remembered.                   *)
LEMMA DefinitionStarts ==
  ASSUME NEW q \in Point, NEW k, Goes(q, k) = "assign",
         NEW s \in Stacks(q, k), s # <<>>, Head(s).do = "match"
  PROVE  q \in Endings /\ k = "IDENTIFIER" /\ Head(s) = Id("def")
  <1>1. q \in {"start", "action", "condition"} /\ k = "IDENTIFIER"
    BY DEF Goes, Point
  <1>2. s \in StartStacks(k)
    <2>1. s \in StartStacks(k) \/ s = <<Wrap>> \/ s = <<Call("intent_production_with_action"), Wrap>>
             \/ s = <<Call("intent_production_with_condition"), Wrap>>
      <3>1. CASE q = "start"
        BY <1>1, <3>1 DEF Stacks
      <3>2. CASE q = "action"
        BY <1>1, <3>2 DEF Stacks, When
      <3>3. CASE q = "condition"
        BY <1>1, <3>3 DEF Stacks, When
      <3> QED
        BY <1>1, <3>1, <3>2, <3>3
    <2>2. /\ Call("intent_production_with_action").do # "match"
          /\ Call("intent_production_with_condition").do # "match"
          /\ Wrap.do # "match"
      BY Entries
    <2> QED
      BY <2>1, <2>2
  <1>3. Call("initial_symbol").do # "match"
    BY Entries
  <1> QED
    BY <1>1, <1>2, <1>3 DEF StartStacks, When, Endings

(* It is at the head of the list when its value is about to be parsed.     *)
PushThenValue == <<Push, Call("network_elem_definition")>>

LEMMA PushOnlyAtValue ==
  ASSUME NEW q \in Point, NEW k, NEW s \in Stacks(q, k), s # <<>>, Head(s).do = "push"
  PROVE  q = "value" /\ s = PushThenValue
  <1>0. /\ \A x : T(x).do # "push" /\ Id(x).do # "push" /\ Call(x).do # "push" /\ Resolve(x).do # "push"
        /\ Push.do = "push"
        /\ RP.do # "push"
        /\ RB.do # "push"
        /\ More.do # "push"
        /\ Further.do # "push"
        /\ Wrap.do # "push"
    BY Entries
  <1>s. s \notin StartStacks(k) /\ s # <<Wrap>>
    BY <1>0 DEF StartStacks, When
  <1>1. CASE q = "start"
    BY <1>0, <1>s, <1>1 DEF Stacks, When, PushThenValue
  <1>2. CASE q = "assign"
    BY <1>0, <1>s, <1>2 DEF Stacks, When, PushThenValue
  <1>3. CASE q = "value"
    BY <1>0, <1>s, <1>3 DEF Stacks, When, PushThenValue
  <1>4. CASE q = "open"
    BY <1>0, <1>s, <1>4 DEF Stacks, When, PushThenValue
  <1>5. CASE q = "params"
    BY <1>0, <1>s, <1>5 DEF Stacks, When, PushThenValue
  <1>6. CASE q = "equal"
    BY <1>0, <1>s, <1>6 DEF Stacks, When, PushThenValue
  <1>7. CASE q = "second"
    BY <1>0, <1>s, <1>7 DEF Stacks, When, PushThenValue
  <1>8. CASE q = "string"
    BY <1>0, <1>s, <1>8 DEF Stacks, When, PushThenValue
  <1>9. CASE q = "quote"
    BY <1>0, <1>s, <1>9 DEF Stacks, When, PushThenValue
  <1>10. CASE q = "more"
    BY <1>0, <1>s, <1>10 DEF Stacks, When, PushThenValue
  <1>11. CASE q = "elems"
    BY <1>0, <1>s, <1>11 DEF Stacks, When, PushThenValue
  <1>12. CASE q = "elem_string"
    BY <1>0, <1>s, <1>12 DEF Stacks, When, PushThenValue
  <1>13. CASE q = "elem_quote"
    BY <1>0, <1>s, <1>13 DEF Stacks, When, PushThenValue
  <1>14. CASE q = "more_elems"
    BY <1>0, <1>s, <1>14 DEF Stacks, When, PushThenValue
  <1>15. CASE q = "intent"
    BY <1>0, <1>s, <1>15 DEF Stacks, When, PushThenValue
  <1>16. CASE q = "select"
    BY <1>0, <1>s, <1>16 DEF Stacks, When, PushThenValue
  <1>17. CASE q = "hosts"
    BY <1>0, <1>s, <1>17 DEF Stacks, When, PushThenValue
  <1>18. CASE q = "action"
    BY <1>0, <1>s, <1>18 DEF Stacks, When, PushThenValue
  <1>19. CASE q = "action_name"
    BY <1>0, <1>s, <1>19 DEF Stacks, When, PushThenValue
  <1>20. CASE q = "condition"
    BY <1>0, <1>s, <1>20 DEF Stacks, When, PushThenValue
  <1>21. CASE q = "condition_name"
    BY <1>0, <1>s, <1>21 DEF Stacks, When, PushThenValue
  <1>22. CASE q = "nowhere"
    BY <1>22 DEF Stacks
  <1> QED
    BY <1>1, <1>2, <1>3, <1>4, <1>5, <1>6, <1>7, <1>8, <1>9, <1>10, <1>11, <1>12, <1>13, <1>14, <1>15,
       <1>16, <1>17, <1>18, <1>19, <1>20, <1>21, <1>22 DEF Point

-----------------------------------------------------------------------------
(* The keywords of a sequence of tokens that is extended.                  *)
LEMMA FlattenIsChain ==
  ASSUME NEW S, NEW n \in Nat, n # 0, NEW parts \in [1 .. n -> Seq(S)]
  PROVE  \E F : IsChain(parts, n, F) /\ FlattenSeq(parts) = F[n] /\ F[n] \in Seq(S)
  <1> DEFINE F == CHOOSE f : f = [i \in 1 .. n |-> IF i = 1 THEN parts[i] ELSE f[i - 1] \o parts[i]]
             W == Seq(S)
  <1>1. Len(parts) = n
    OBVIOUS
  <1>2. FlattenSeq(parts) = F[n]
    BY <1>1, Zenon DEF FlattenSeq
  <1>3. \A a, b \in W : a \o b \in W
    BY ConcatProperties
  <1>4. parts \in [1 .. n -> W]
    OBVIOUS
  <1> HIDE DEF W
  <1>5. \E f : IsChain(parts, n, f)
    BY <1>3, <1>4, ChainExists
  <1>6. IsChain(parts, n, F)
    BY <1>5, Zenon DEF IsChain
  <1> HIDE DEF F
  <1>7. F[n] \in W
    <2>1. n \in 1 .. n
      OBVIOUS
    <2> QED
      BY <1>3, <1>4, <1>6, <2>1, ChainStays
  <1> QED
    BY <1>2, <1>6, <1>7, Zenon DEF W

LEMMA FlattenExtended ==
  ASSUME NEW S, NEW n \in Nat, NEW parts \in [1 .. n -> Seq(S)], NEW longer \in [1 .. n + 1 -> Seq(S)],
         \A i \in 1 .. n : longer[i] = parts[i]
  PROVE  FlattenSeq(parts) \in Seq(S) /\ FlattenSeq(longer) = FlattenSeq(parts) \o longer[n + 1]
  <1>0. n + 1 \in Nat /\ n + 1 # 0 /\ n + 1 \in 1 .. n + 1 /\ longer[n + 1] \in Seq(S)
    OBVIOUS
  <1>1. PICK H : IsChain(longer, n + 1, H) /\ FlattenSeq(longer) = H[n + 1]
    BY <1>0, FlattenIsChain
  <1>2. \A i \in 1 .. n + 1 : H[i] = IF i = 1 THEN longer[i] ELSE H[i - 1] \o longer[i]
    BY <1>1, Zenon DEF IsChain
  <1>3. CASE n = 0
    <2>1. parts = <<>> /\ Len(parts) = 0
      BY <1>3
    <2>2. FlattenSeq(parts) = <<>>
      BY <2>1, Zenon DEF FlattenSeq
    <2>3. H[n + 1] = longer[n + 1]
      BY <1>0, <1>2, <1>3
    <2>4. <<>> \o longer[n + 1] = longer[n + 1]
      BY <1>0, ConcatEmptySeq
    <2>5. <<>> \in Seq(S)
      OBVIOUS
    <2> QED
      BY <1>1, <2>2, <2>3, <2>4, <2>5, Zenon
  <1>4. CASE n # 0
    <2>1. PICK F : IsChain(parts, n, F) /\ FlattenSeq(parts) = F[n] /\ F[n] \in Seq(S)
      BY <1>4, FlattenIsChain
    <2>2. \A i \in 1 .. n : F[i] = IF i = 1 THEN parts[i] ELSE F[i - 1] \o parts[i]
      BY <2>1, Zenon DEF IsChain
    <2> DEFINE G == {i \in 0 .. n - 1 : H[i + 1] = F[i + 1]}
    <2>3. 0 \in G
      <3>1. 0 \in 0 .. n - 1 /\ 1 \in 1 .. n /\ 1 \in 1 .. n + 1 /\ 0 + 1 = 1
        BY <1>4
      <3> QED
        BY <1>2, <2>2, <3>1
    <2>4. ASSUME NEW i \in 0 .. (n - 1) - 1, i \in G PROVE i + 1 \in G
      <3>1. /\ i + 1 \in 0 .. n - 1 /\ (i + 1) + 1 \in 1 .. n /\ (i + 1) + 1 \in 1 .. n + 1 /\ (i + 1) + 1 # 1
            /\ ((i + 1) + 1) - 1 = i + 1
        BY <1>4
      <3>2. F[(i + 1) + 1] = F[i + 1] \o parts[(i + 1) + 1]
        BY <2>2, <3>1
      <3>3. H[(i + 1) + 1] = H[i + 1] \o longer[(i + 1) + 1]
        BY <1>2, <3>1
      <3>4. longer[(i + 1) + 1] = parts[(i + 1) + 1] /\ H[i + 1] = F[i + 1]
        BY <2>4, <3>1
      <3>5. H[(i + 1) + 1] = F[(i + 1) + 1]
        BY <3>2, <3>3, <3>4, Zenon
      <3> QED
        BY <3>1, <3>5
    <2>5. n - 1 \in Nat /\ n - 1 \in 0 .. n - 1 /\ (n - 1) + 1 = n /\ n + 1 # 1 /\ (n + 1) - 1 = n
      BY <1>4
    <2> HIDE DEF G
    <2>6. n - 1 \in G
      <3>1. 0 .. n - 1 \subseteq G
        BY <2>3, <2>4, <2>5, IntervalInduction
      <3> QED
        BY <2>5, <3>1
    <2>7. H[n] = F[n]
      BY <2>5, <2>6 DEF G
    <2>8. H[n + 1] = H[n] \o longer[n + 1]
      BY <1>0, <1>2, <2>5
    <2> QED
      BY <1>1, <2>1, <2>7, <2>8, Zenon
  <1> QED
    BY <1>3, <1>4

-----------------------------------------------------------------------------
(* The parser: tokens.                                                     *)
LEMMA TokenFacts ==
  /\ \A t \in Token : \/ t.keyword \in Symbol /\ t.keyword # "END_OF_LINE"
                      \/ t.keyword = "END_OF_LINE" /\ t = Word("END_OF_LINE")
  /\ \A t \in Token : t.keyword = "IDENTIFIER" => t.value \in Name /\ t = Identifier(t.value)
  /\ \A t \in Token : t.value \in Name \cup {NoName}
  /\ \A n : Identifier(n).keyword = "IDENTIFIER" /\ Identifier(n).value = n
  /\ \A t \in Token \cup {Unread} : t # Nil /\ t.keyword # "nil"
  /\ \A t \in Token \cup {Nil} : t # Unread /\ t.keyword # "unread"
  /\ Nil.keyword = "nil" /\ Nil.value = NoName /\ Unread.keyword = "unread" /\ Unread.value = NoName
  /\ "nil" \notin Symbol /\ "unread" \notin Symbol /\ "END_OF_LINE" \notin Symbol
  <1>1. \A t \in Token : \/ \E k \in Keyword : t = Word(k)
                         \/ \E n \in Name : t = Identifier(n)
    BY DEF Token
  <1>2. /\ \A k : Word(k).keyword = k /\ Word(k).value = NoName
        /\ \A n : Identifier(n).keyword = "IDENTIFIER" /\ Identifier(n).value = n
    BY DEF Word, Identifier
  <1>3. Nil.keyword = "nil" /\ Nil.value = NoName /\ Unread.keyword = "unread" /\ Unread.value = NoName
    BY DEF Nil, Unread
  <1>4. /\ \A k \in Keyword : k \in Symbol \cup {"END_OF_LINE"} /\ k # "IDENTIFIER"
        /\ "nil" \notin Symbol /\ "unread" \notin Symbol /\ "END_OF_LINE" \notin Symbol /\ "IDENTIFIER" \in Symbol
    BY DEF Keyword, Symbol, Marks, Elements
  <1>5. \A t \in Token : t.keyword \in Symbol \cup {"END_OF_LINE"}
    BY <1>1, <1>2, <1>4
  <1>6. /\ \A t \in Token : t.keyword = "END_OF_LINE" => t = Word("END_OF_LINE")
        /\ \A t \in Token : t.keyword = "IDENTIFIER" => t.value \in Name /\ t = Identifier(t.value)
        /\ \A t \in Token : t.value \in Name \cup {NoName}
    BY <1>1, <1>2, <1>4
  <1>7. \A t \in Token : t.keyword # "nil" /\ t.keyword # "unread"
    BY <1>4, <1>5
  <1> QED
    BY <1>2, <1>3, <1>4, <1>5, <1>6, <1>7

Seen(token) == IF token.keyword = "END_OF_LINE" THEN <<>> ELSE <<token.keyword>>

LEMMA SignificantNothing ==
  Significant(<<>>) = <<>>
  <1> DEFINE parts == [i \in DOMAIN <<>> |-> IF <<>>[i].keyword = "END_OF_LINE" THEN <<>> ELSE <<(<<>>[i].keyword)>>]
  <1>1. parts = <<>>
    OBVIOUS
  <1>2. Significant(<<>>) = FlattenSeq(parts)
    BY DEF Significant
  <1> HIDE DEF parts
  <1>3. FlattenSeq(<<>>) = <<>>
    BY DEF FlattenSeq
  <1> QED
    BY <1>1, <1>2, <1>3

LEMMA SignificantAppend ==
  ASSUME NEW s \in Seq(Token), NEW token \in Token
  PROVE  /\ Significant(s) \in Seq(Symbol)
         /\ Significant(Append(s, token)) = Significant(s) \o Seen(token)
  <1> DEFINE n == Len(s)
             t == Append(s, token)
             parts == [i \in 1 .. n |-> Seen(s[i])]
             longer == [i \in 1 .. n + 1 |-> Seen(t[i])]
  <1>1. /\ n \in Nat /\ DOMAIN s = 1 .. n /\ \A i \in 1 .. n : s[i] \in Token
        /\ t \in Seq(Token) /\ DOMAIN t = 1 .. n + 1 /\ t[n + 1] = token /\ \A i \in 1 .. n : t[i] = s[i]
    OBVIOUS
  <1>2. \A x \in Token : Seen(x) \in Seq(Symbol)
    BY TokenFacts DEF Seen
  <1>3. Significant(s) = FlattenSeq(parts)
    BY <1>1, Zenon DEF Significant, Seen
  <1>4. Significant(t) = FlattenSeq(longer)
    BY <1>1, Zenon DEF Significant, Seen
  <1> HIDE DEF n, t
  <1>5. parts \in [1 .. n -> Seq(Symbol)] /\ longer \in [1 .. n + 1 -> Seq(Symbol)]
    <2>1. \A i \in 1 .. n + 1 : t[i] \in Token
      BY <1>1
    <2> QED
      BY <1>1, <1>2, <2>1
  <1>6. /\ \A i \in 1 .. n : longer[i] = parts[i]
        /\ longer[n + 1] = Seen(token)
    BY <1>1
  <1> HIDE DEF parts, longer
  <1>7. FlattenSeq(parts) \in Seq(Symbol) /\ FlattenSeq(longer) = FlattenSeq(parts) \o longer[n + 1]
    BY <1>1, <1>5, <1>6, FlattenExtended
  <1> QED
    BY <1>3, <1>4, <1>6, <1>7 DEF t

-----------------------------------------------------------------------------
(* What the parser knows: the lookahead is the last token; what is left to *)
(* do belongs to the point that the symbols in front of it lead to.        *)
LookaheadInv ==
  /\ lookahead \in Token => tokens # <<>> /\ tokens[Len(tokens)] = lookahead
  /\ lookahead.keyword = "END_OF_LINE" => tokens = <<Word("END_OF_LINE")>>
  /\ lookahead = Unread /\ tokens # <<>> => \E i \in DOMAIN tokens : tokens[i].keyword # "END_OF_LINE"

Ahead == IF lookahead \in Token THEN Seen(lookahead) ELSE <<>>

Position(q, d) ==
  /\ stack \in Stacks(q, lookahead.keyword)
  /\ Significant(tokens) = d \o Ahead
  /\ \A c \in Seq(Symbol) : d \o c \in Program <=> c \in Rest(q)
  /\ q = "assign" => d \in Followed(Program, <<"IDENTIFIER">>)
  /\ q = "value" => d \in Followed(Program, <<"IDENTIFIER", "ASSIGN">>)

LEMMA InitialPosition ==
  ASSUME ParserInit
  PROVE  "start" \in Point /\ <<>> \in Seq(Symbol) /\ Position("start", <<>>) /\ LookaheadInv
  <1>1. tokens = <<>> /\ lookahead = Unread /\ stack = <<>>
    BY DEF ParserInit
  <1>2. "start" \in Point /\ <<>> \in Seq(Symbol)
    BY DEF Point
  <1>3. Unread \notin Token /\ Unread.keyword # "END_OF_LINE"
    BY TokenFacts
  <1>4. stack \in Stacks("start", lookahead.keyword)
    BY <1>1 DEF Stacks, StartStacks
  <1>5. Ahead = <<>> /\ Significant(tokens) = <<>> \o Ahead
    BY <1>1, <1>3, SignificantNothing, ConcatEmpty DEF Ahead
  <1>6. ASSUME NEW c \in Seq(Symbol) PROVE <<>> \o c \in Program <=> c \in Rest("start")
    <2>1. <<>> \o c = c /\ Rest("start") = Program
      BY ConcatEmptySeq DEF Rest
    <2> QED
      BY <2>1
  <1> QED
    BY <1>1, <1>2, <1>3, <1>4, <1>5, <1>6 DEF Position, LookaheadInv

LEMMA ReadKeepsPosition ==
  ASSUME ParserTypeOK, LookaheadInv, NEW token \in Token \cup {Nil}, Read(token),
         NEW q \in Point, NEW d \in Seq(Symbol), Position(q, d)
  PROVE  Position(q, d)' /\ LookaheadInv'
  <1>1. lookahead = Unread /\ Unread \notin Token /\ Nil \notin Token /\ tokens \in Seq(Token) /\ stack' = stack
    BY TokenFacts DEF Read, ParserTypeOK
  <1>2. stack' \in Stacks(q, lookahead'.keyword)
    <2>1. stack \in Stacks(q, "unread")
      BY <1>1, TokenFacts DEF Position
    <2> QED
      BY <1>1, <2>1, StacksGrow
  <1>3. Significant(tokens) = d
    <2>1. Significant(tokens) = d \o <<>>
      BY <1>1 DEF Position, Ahead
    <2> QED
      BY <2>1, ConcatEmptySeq
  <1>4. CASE token = Nil
    <2>1. tokens' = tokens /\ lookahead' = Nil
      <3>1. ~Skipped(Nil)
        BY TokenFacts DEF Skipped
      <3> QED
        BY <1>4, <3>1 DEF Read
    <2>2. Ahead' = <<>>
      BY <1>1, <2>1 DEF Ahead
    <2>3. Significant(tokens') = d \o <<>>
      BY <1>3, <2>1, ConcatEmptySeq
    <2>4. Position(q, d)'
      BY <1>2, <2>2, <2>3 DEF Position
    <2>5. LookaheadInv'
      BY <1>1, <2>1, TokenFacts DEF LookaheadInv
    <2> QED
      BY <2>4, <2>5
  <1>5. CASE token \in Token
    <2>1. tokens' = Append(tokens, token) /\ lookahead' = IF Skipped(token) THEN Unread ELSE token
      BY <1>1, <1>5 DEF Read
    <2>2. Significant(tokens') = d \o Seen(token)
      BY <1>1, <1>3, <1>5, <2>1, SignificantAppend
    <2>3. Ahead' = Seen(token)
      <3>1. CASE Skipped(token)
        <4>1. Seen(token) = <<>>
          BY <3>1 DEF Seen, Skipped
        <4> QED
          BY <1>1, <2>1, <3>1, <4>1 DEF Ahead
      <3>2. CASE ~Skipped(token)
        BY <1>5, <2>1, <3>2 DEF Ahead
      <3> QED
        BY <3>1, <3>2
    <2>4. Position(q, d)'
      BY <1>2, <2>2, <2>3 DEF Position
    <2>5. LookaheadInv'
      <3> DEFINE n == Len(tokens)
                 t == Append(tokens, token)
      <3>1. /\ n \in Nat /\ t \in Seq(Token) /\ Len(t) = n + 1 /\ t[n + 1] = token /\ t # <<>>
            /\ DOMAIN tokens = 1 .. n /\ DOMAIN t = 1 .. n + 1 /\ \A i \in 1 .. n : t[i] = tokens[i]
        BY <1>1, <1>5
      <3>2. tokens = <<>> => t = <<token>>
        BY <1>1
      <3>3. tokens' = t
        BY <2>1
      <3> HIDE DEF t
      <3>4. CASE Skipped(token)
        <4>1. PICK i \in 1 .. n : tokens[i].keyword # "END_OF_LINE"
          BY <3>1, <3>4 DEF Skipped
        <4>2. i \in 1 .. n + 1 /\ t[i].keyword # "END_OF_LINE"
          BY <3>1, <4>1
        <4>3. lookahead' = Unread
          BY <2>1, <3>4
        <4> QED
          BY <1>1, <3>1, <3>3, <4>2, <4>3, TokenFacts DEF LookaheadInv
      <3>5. CASE ~Skipped(token)
        <4>1. lookahead' = token
          BY <2>1, <3>5
        <4>2. token.keyword = "END_OF_LINE" => tokens = <<>>
          BY <1>1, <3>5 DEF Skipped, LookaheadInv
        <4>3. token.keyword = "END_OF_LINE" => t = <<Word("END_OF_LINE")>>
          BY <1>5, <3>2, <4>2, TokenFacts
        <4> QED
          BY <1>5, <3>1, <3>3, <4>1, <4>3, TokenFacts DEF LookaheadInv
      <3> QED
        BY <3>4, <3>5
    <2> QED
      BY <2>4, <2>5
  <1> QED
    BY <1>4, <1>5

(* The symbols in front of an IDENTIFIER that starts a definition are a    *)
(* program.                                                                *)
LEMMA HeadOfDefinition ==
  ASSUME NEW q \in Point, NEW k \in Symbol, NEW d \in Seq(Symbol),
         \A c \in Seq(Symbol) : d \o c \in Program <=> c \in Rest(q),
         q = "assign" => d \in Followed(Program, <<"IDENTIFIER">>)
  PROVE  /\ Goes(q, k) = "assign" => d \o <<k>> \in Followed(Program, <<"IDENTIFIER">>)
         /\ Goes(q, k) = "value" => d \o <<k>> \in Followed(Program, <<"IDENTIFIER", "ASSIGN">>)
  <1> DEFINE i == <<"IDENTIFIER">>
             a == <<"ASSIGN">>
             w == <<"IDENTIFIER", "ASSIGN">>
             PP == Program
  <1>0. i \in Seq(Symbol) /\ a \in Seq(Symbol) /\ w \in Seq(Symbol) /\ i \o a = w
    BY SymbolFacts, Concat11
  <1>1. PP \in SUBSET Seq(Symbol)
    BY LanguageTypes DEF Languages
  <1>2. ASSUME Goes(q, k) = "assign" PROVE d \o <<k>> \in Followed(PP, i)
    <2>1. q \in Endings /\ k = "IDENTIFIER"
      BY <1>2 DEF Goes, Point, Endings
    <2>2. <<>> \in Rest(q) /\ <<>> \in Seq(Symbol)
      BY <2>1, Derivative
    <2>3. d \in PP
      <3>1. d \o <<>> = d
        BY ConcatEmptySeq
      <3> QED
        BY <2>2, <3>1
    <2>4. <<k>> = i
      BY <2>1
    <2> HIDE DEF i, PP
    <2> QED
      BY <1>0, <1>1, <2>3, <2>4, FollowedIff
  <1>3. ASSUME Goes(q, k) = "value" PROVE d \o <<k>> \in Followed(PP, w)
    <2>1. q = "assign" /\ k = "ASSIGN"
      BY <1>3 DEF Goes, Point
    <2>2. d \in Followed(PP, i) /\ <<k>> = a
      BY <2>1
    <2> HIDE DEF i, a, w, PP
    <2>3. PICK p \in PP : d = p \o i
      BY SMTT(30), <1>0, <1>1, <2>2, FollowedIff
    <2>4. (p \o i) \o a = p \o (i \o a)
      <3>1. p \in Seq(Symbol)
        BY <1>1
      <3>2. i \in Seq(Symbol) /\ a \in Seq(Symbol)
        BY <1>0
      <3> QED
        BY SMTT(30), <3>1, <3>2, ConcatAssociative
    <2>5. d \o <<k>> = p \o w
      BY <1>0, <2>2, <2>3, <2>4
    <2> QED
      BY <1>0, <1>1, <2>5, FollowedIff
  <1> QED
    BY <1>2, <1>3

LEMMA MatchMoves ==
  ASSUME ParserTypeOK, LookaheadInv, match, status' = "parsing", NEW k, k = lookahead.keyword,
         NEW q \in Point, NEW d \in Seq(Symbol), Position(q, d)
  PROVE  /\ k \in Symbol /\ Goes(q, k) \in Point /\ d \o <<k>> \in Seq(Symbol)
         /\ Position(Goes(q, k), d \o <<k>>)' /\ LookaheadInv'
         /\ lookahead \in Token /\ lookahead' = Unread
  <1> DEFINE p == Goes(q, k)
             e == d \o <<k>>
  <1>1. /\ lookahead # Unread /\ lookahead # Nil /\ stack # <<>> /\ Head(stack).do = "match"
        /\ k = Head(stack).what /\ lookahead' = Unread /\ stack' = Tail(stack) /\ tokens' = tokens
    BY DEF match, Doing, Ready, Fail
  <1>2. lookahead \in Token /\ k # "unread" /\ tokens \in Seq(Token)
    BY <1>1, TokenFacts DEF ParserTypeOK
  <1>3. stack \in Stacks(q, k)
    BY DEF Position
  <1>4. Tail(stack) \in Stacks(p, "unread")
    BY <1>1, <1>2, <1>3, StacksSound DEF Sound
  <1>5. k \in Symbol
    <2>1. CASE k = "END_OF_LINE"
      <3>1. p = "nowhere"
        BY <2>1 DEF Goes
      <3> HIDE DEF p
      <3>2. Tail(stack) \in Stacks("nowhere", "unread")
        BY <1>4, <3>1
      <3>3. Stacks("nowhere", "unread") = {}
        BY DEF Stacks
      <3> QED
        BY <3>2, <3>3
    <2> QED
      BY <1>2, <2>1, TokenFacts
  <1>6. p \in Point /\ \A c \in Seq(Symbol) : <<k>> \o c \in Rest(q) <=> c \in Rest(p)
    <2>1. <<>> \in Seq(Symbol)
      OBVIOUS
    <2> QED
      BY <1>5, <2>1, Derivative
  <1>7. <<k>> \in Seq(Symbol) /\ e \in Seq(Symbol)
    BY <1>5, ConcatProperties
  <1>8. ASSUME NEW c \in Seq(Symbol) PROVE e \o c \in Program <=> c \in Rest(p)
    <2>1. e \o c = d \o (<<k>> \o c) /\ <<k>> \o c \in Seq(Symbol)
      BY <1>7, ConcatAssociative, ConcatProperties
    <2>2. d \o (<<k>> \o c) \in Program <=> <<k>> \o c \in Rest(q)
      BY <2>1 DEF Position
    <2> HIDE DEF e, p
    <2> QED
      BY <1>6, <2>1, <2>2
  <1>9. Significant(tokens) = e
    <2>1. Ahead = <<k>>
      BY <1>2, <1>5, TokenFacts DEF Ahead, Seen
    <2> QED
      BY <2>1 DEF Position
  <1>10. /\ p = "assign" => e \in Followed(Program, <<"IDENTIFIER">>)
         /\ p = "value" => e \in Followed(Program, <<"IDENTIFIER", "ASSIGN">>)
    BY <1>5, HeadOfDefinition DEF Position
  <1>11. LookaheadInv'
    <2>1. Len(tokens) \in DOMAIN tokens /\ tokens[Len(tokens)].keyword # "END_OF_LINE"
      <3>1. tokens # <<>> /\ tokens[Len(tokens)] = lookahead
        BY <1>2 DEF LookaheadInv
      <3> QED
        BY <1>2, <1>5, <3>1, TokenFacts
    <2> QED
      BY <1>1, <2>1, TokenFacts DEF LookaheadInv
  <1> HIDE DEF e, p
  <1>12. Ahead' = <<>> /\ Unread.keyword = "unread"
    BY <1>1, TokenFacts DEF Ahead
  <1>13. Significant(tokens') = e \o <<>>
    BY <1>1, <1>7, <1>9, ConcatEmptySeq
  <1>14. Position(p, e)'
    BY <1>1, <1>4, <1>8, <1>10, <1>12, <1>13 DEF Position
  <1> QED
    BY <1>1, <1>2, <1>5, <1>6, <1>7, <1>11, <1>14 DEF p, e

LEMMA OthersKeepPosition ==
  ASSUME ParserTypeOK, call \/ PushIdentifier \/ get_identifier \/ parse, status' = "parsing",
         NEW q \in Point, NEW d \in Seq(Symbol), Position(q, d)
  PROVE  Position(q, d)' /\ tokens' = tokens /\ lookahead' = lookahead
  <1> DEFINE k == lookahead.keyword
  <1>1. /\ status = "parsing" /\ lookahead # Unread /\ tokens' = tokens /\ lookahead' = lookahead
    BY DEF call, PushIdentifier, get_identifier, parse, Doing, Ready, Fail
  <1>2. k # "unread" /\ stack \in Stacks(q, k)
    BY <1>1, TokenFacts DEF Position, ParserTypeOK
  <1> HIDE DEF k
  <1>3. Sound(q, k, stack)
    BY <1>2, StacksSound
  <1>4. stack' \in Stacks(q, k)
    <2>1. CASE call
      <3> DEFINE body == Production(Head(stack).what, k)
      <3>1. stack # <<>> /\ Head(stack).do = "call" /\ body # Error /\ stack' = body \o Tail(stack)
        BY <2>1 DEF call, Doing, Fail, k
      <3>2. body = Error \/ body \o Tail(stack) \in Stacks(q, k)
        BY <1>3, <3>1 DEF Sound
      <3> HIDE DEF body
      <3> QED
        BY <3>1, <3>2
    <2>2. CASE PushIdentifier
      BY <1>3, <2>2 DEF PushIdentifier, Doing, Sound
    <2>3. CASE get_identifier
      <3>1. stack # <<>> /\ Head(stack).do = "resolve" /\ stack' = Tail(stack)
        BY <2>3 DEF get_identifier, Doing, Fail
      <3> QED
        BY <1>3, <3>1 DEF Sound
    <2>4. CASE parse
      <3>1. stack = <<>> /\ lookahead # Nil /\ stack' = <<Call("initial_symbol")>>
        BY <2>4 DEF parse
      <3>2. k # "nil"
        BY <1>1, <3>1, TokenFacts DEF ParserTypeOK, k
      <3> QED
        BY <1>2, <1>3, <3>1, <3>2 DEF Sound
    <2> QED
      BY <2>1, <2>2, <2>3, <2>4
  <1>5. Ahead' = Ahead
    BY <1>1 DEF Ahead
  <1>6. Significant(tokens') = d \o Ahead'
    BY <1>1, <1>5 DEF Position
  <1>7. stack' \in Stacks(q, lookahead'.keyword)
    BY <1>1, <1>4 DEF k
  <1> QED
    BY <1>1, <1>6, <1>7 DEF Position

(* What the parser's decisions mean.                                       *)
Decided ==
  /\ status = "accepted" =>
        \/ Significant(tokens) \in Program
        \/ Significant(tokens) \in Followed(Program, <<"IDENTIFIER", "ASSIGN">>)
  /\ status = "SyntacticalError" =>
        \/ tokens = <<Word("END_OF_LINE")>>
        \/ \A c \in Seq(Symbol) : Significant(tokens) \o c \notin Program
  /\ status = "NoMethodError" => Significant(tokens) \notin Program

(* Where the lookahead leads nowhere, the program cannot become one.       *)
LEMMA LeadsNowhere ==
  ASSUME ParserTypeOK, LookaheadInv, lookahead \in Token,
         NEW q \in Point, NEW d \in Seq(Symbol), Position(q, d), Goes(q, lookahead.keyword) = "nowhere"
  PROVE  \/ tokens = <<Word("END_OF_LINE")>>
         \/ \A c \in Seq(Symbol) : Significant(tokens) \o c \notin Program
  <1> DEFINE k == lookahead.keyword
  <1>1. CASE k = "END_OF_LINE"
    BY <1>1 DEF LookaheadInv
  <1>2. CASE k # "END_OF_LINE"
    <2>1. k \in Symbol
      BY <1>2, TokenFacts
    <2>2. Significant(tokens) = d \o <<k>>
      BY <1>2 DEF Position, Ahead, Seen
    <2>3. Goes(q, k) = "nowhere" /\ Rest("nowhere") = {}
      BY DEF Rest
    <2> HIDE DEF k
    <2>4. ASSUME NEW c \in Seq(Symbol) PROVE Significant(tokens) \o c \notin Program
      <3>1. <<k>> \in Seq(Symbol) /\ <<k>> \o c \in Seq(Symbol)
        BY <2>1, ConcatProperties
      <3>2. (d \o <<k>>) \o c = d \o (<<k>> \o c)
        BY <3>1, ConcatAssociative
      <3>3. <<k>> \o c \notin Rest(q)
        BY <2>1, <2>3, Derivative
      <3>4. d \o (<<k>> \o c) \notin Program
        BY <3>1, <3>3 DEF Position
      <3> QED
        BY <2>2, <3>2, <3>4
    <2> QED
      BY <2>4
  <1> QED
    BY <1>1, <1>2

(* Without lookahead, the program is complete where it may end.            *)
LEMMA AtEnd ==
  ASSUME lookahead = Nil, NEW q \in Point, NEW d \in Seq(Symbol), Position(q, d)
  PROVE  Significant(tokens) = d /\ (d \in Program <=> q \in Endings)
  <1>1. Significant(tokens) = d \o <<>> /\ d \o <<>> = d
    <2>1. Nil \notin Token
      BY TokenFacts
    <2> QED
      BY <2>1, ConcatEmptySeq DEF Position, Ahead
  <1>2. <<>> \in Seq(Symbol) /\ "COMMA" \in Symbol
    BY SymbolFacts
  <1>3. <<>> \in Rest(q) <=> q \in Endings
    BY <1>2, Derivative
  <1>4. d \o <<>> \in Program <=> <<>> \in Rest(q)
    BY <1>2 DEF Position
  <1> QED
    BY <1>1, <1>3, <1>4

LEMMA Verdicts ==
  ASSUME ParserTypeOK, LookaheadInv, Parser, status' # "parsing",
         NEW q \in Point, NEW d \in Seq(Symbol), Position(q, d)
  PROVE  Decided' /\ tokens' = tokens /\ lookahead' = lookahead
  <1> DEFINE k == lookahead.keyword
  <1>0. status = "parsing" /\ lookahead # Unread /\ tokens' = tokens /\ lookahead' = lookahead
    BY DEF Parser, match, call, PushIdentifier, get_identifier, parse, Doing, Ready, Fail
  <1>1. k # "unread" /\ stack \in Stacks(q, k) /\ (lookahead \in Token \/ (lookahead = Nil /\ k = "nil"))
    BY <1>0, TokenFacts DEF Position, ParserTypeOK
  <1>2. Sound(q, k, stack)
    BY <1>1, StacksSound
  <1>3. CASE match
    <2>1. stack # <<>> /\ Head(stack).do = "match"
      BY <1>3 DEF match, Doing
    <2>2. CASE lookahead = Nil
      <3>1. status' = "NoMethodError"
        BY <1>3, <2>2 DEF match, Fail
      <3>2. q \notin Endings
        BY <1>2, <2>1, <2>2, TokenFacts DEF Sound
      <3> QED
        BY <1>0, <2>2, <3>1, <3>2, AtEnd DEF Decided
    <2>3. CASE lookahead # Nil
      <3>1. status' = "SyntacticalError" /\ k # Head(stack).what
        BY <1>0, <1>3, <2>3 DEF match, Fail
      <3>2. Goes(q, k) = "nowhere"
        BY <1>2, <2>1, <3>1 DEF Sound
      <3> QED
        BY <1>0, <1>1, <2>3, <3>1, <3>2, LeadsNowhere DEF Decided
    <2> QED
      BY <2>2, <2>3
  <1>4. CASE call
    <2> DEFINE body == Production(Head(stack).what, k)
    <2>1. stack # <<>> /\ Head(stack).do = "call" /\ body = Error /\ status' = "SyntacticalError"
      BY <1>0, <1>4 DEF call, Doing, Fail
    <2>2. Goes(q, k) = "nowhere"
      BY <1>2, <2>1 DEF Sound
    <2>3. lookahead # Nil
      <3>1. CASE lookahead = Nil
        <4>1. k = "nil"
          BY <3>1, TokenFacts
        <4>2. body = <<>>
          BY <4>1 DEF Production, Lambda
        <4>3. <<>> # Error
          BY DEF Error
        <4> QED
          BY <2>1, <4>2, <4>3
      <3> QED
        BY <3>1
    <2> QED
      BY <1>0, <1>1, <2>1, <2>2, <2>3, LeadsNowhere DEF Decided
  <1>5. CASE PushIdentifier
    BY <1>0, <1>5 DEF PushIdentifier
  <1>6. CASE get_identifier
    <2>1. status' = "SemanticalError"
      BY <1>0, <1>6 DEF get_identifier, Fail
    <2> QED
      BY <1>0, <2>1 DEF Decided
  <1>7. CASE parse
    <2>1. stack = <<>> /\ lookahead = Nil /\ status' = "accepted"
      BY <1>0, <1>7 DEF parse
    <2>2. q \in Endings \cup {"value"}
      <3>1. k = "nil"
        BY <2>1, TokenFacts
      <3> QED
        BY <1>2, <2>1, <3>1 DEF Sound
    <2>3. CASE q \in Endings
      BY <1>0, <2>1, <2>3, AtEnd DEF Decided
    <2>4. CASE q = "value"
      <3>1. Significant(tokens) \in Followed(Program, <<"IDENTIFIER", "ASSIGN">>)
        BY <2>1, <2>4, AtEnd DEF Position
      <3> QED
        BY <1>0, <2>1, <3>1 DEF Decided
    <2> QED
      BY <2>2, <2>3, <2>4
  <1> QED
    BY <1>3, <1>4, <1>5, <1>6, <1>7 DEF Parser

-----------------------------------------------------------------------------
(* Definitions in a sequence of tokens, and entries of a list of names.    *)
DefinitionsIn(t, name, upto) ==
    {i \in 1 .. upto :
        /\ t[i] = Identifier(name)
        /\ \E j \in i + 1 .. upto : /\ t[j].keyword = "ASSIGN"
                                    /\ \A k \in i + 1 .. j - 1 : t[k].keyword = "END_OF_LINE"}

FoundIn(list, name) == {i \in DOMAIN list : list[i] = name}

LEMMA DefinitionsFinite ==
  ASSUME NEW t, NEW n, NEW u \in Nat
  PROVE  IsFiniteSet(DefinitionsIn(t, n, u)) /\ Cardinality(DefinitionsIn(t, n, u)) \in Nat
  <1>1. IsFiniteSet(1 .. u)
    BY FS_Interval
  <1>2. DefinitionsIn(t, n, u) \subseteq 1 .. u
    BY DEF DefinitionsIn
  <1> QED
    BY <1>1, <1>2, FS_Subset, FS_CardinalityType

LEMMA DefinitionsSame ==
  ASSUME NEW t, NEW r, NEW n, NEW u \in Nat, \A i \in 1 .. u : r[i] = t[i]
  PROVE  DefinitionsIn(r, n, u) = DefinitionsIn(t, n, u)
  <1>1. ASSUME NEW i \in 1 .. u, NEW j \in i + 1 .. u
        PROVE  j \in 1 .. u /\ \A k \in i + 1 .. j - 1 : k \in 1 .. u
    OBVIOUS
  <1> QED
    BY <1>1 DEF DefinitionsIn

(* A token that is not ASSIGN completes no definition.                     *)
LEMMA NoDefinition ==
  ASSUME NEW t, NEW n, NEW u \in Nat, t[u + 1].keyword # "ASSIGN"
  PROVE  DefinitionsIn(t, n, u + 1) = DefinitionsIn(t, n, u)
  <1>1. ASSUME NEW i \in DefinitionsIn(t, n, u + 1) PROVE i \in DefinitionsIn(t, n, u)
    <2>1. i \in 1 .. u + 1 /\ t[i] = Identifier(n)
      BY DEF DefinitionsIn
    <2>2. PICK j \in i + 1 .. u + 1 : /\ t[j].keyword = "ASSIGN"
                                      /\ \A k \in i + 1 .. j - 1 : t[k].keyword = "END_OF_LINE"
      BY DEF DefinitionsIn
    <2>3. j # u + 1
      BY <2>2
    <2>4. j \in i + 1 .. u /\ i \in 1 .. u
      BY <2>1, <2>3
    <2> QED
      BY <2>1, <2>2, <2>4 DEF DefinitionsIn
  <1>2. ASSUME NEW i \in DefinitionsIn(t, n, u) PROVE i \in DefinitionsIn(t, n, u + 1)
    <2>1. i \in 1 .. u /\ t[i] = Identifier(n)
      BY DEF DefinitionsIn
    <2>2. PICK j \in i + 1 .. u : /\ t[j].keyword = "ASSIGN"
                                  /\ \A k \in i + 1 .. j - 1 : t[k].keyword = "END_OF_LINE"
      BY DEF DefinitionsIn
    <2>3. i \in 1 .. u + 1 /\ j \in i + 1 .. u + 1
      BY <2>1
    <2> QED
      BY <2>1, <2>2, <2>3 DEF DefinitionsIn
  <1> QED
    BY <1>1, <1>2

(* An ASSIGN defines the name of the identifier in front of it.            *)
LEMMA OneDefinition ==
  ASSUME NEW t, NEW n, NEW m, NEW u \in Nat, t[u + 1].keyword = "ASSIGN",
         NEW i \in 1 .. u, t[i] = Identifier(m), \A k \in i + 1 .. u : t[k].keyword = "END_OF_LINE"
  PROVE  /\ i \notin DefinitionsIn(t, n, u)
         /\ n = m => DefinitionsIn(t, n, u + 1) = DefinitionsIn(t, n, u) \cup {i}
         /\ n # m => DefinitionsIn(t, n, u + 1) = DefinitionsIn(t, n, u)
  <1>0. /\ \A a : Identifier(a).keyword = "IDENTIFIER" /\ Identifier(a).value = a
    BY TokenFacts
  <1>1. i \notin DefinitionsIn(t, n, u)
    BY DEF DefinitionsIn
  <1>2. ASSUME NEW l \in DefinitionsIn(t, n, u + 1) PROVE l \in DefinitionsIn(t, n, u) \/ (l = i /\ n = m)
    <2>1. l \in 1 .. u + 1 /\ t[l] = Identifier(n)
      BY DEF DefinitionsIn
    <2>2. PICK j \in l + 1 .. u + 1 : /\ t[j].keyword = "ASSIGN"
                                      /\ \A k \in l + 1 .. j - 1 : t[k].keyword = "END_OF_LINE"
      BY DEF DefinitionsIn
    <2>3. CASE j # u + 1
      <3>1. j \in l + 1 .. u /\ l \in 1 .. u
        BY <2>1, <2>3
      <3> QED
        BY <2>1, <2>2, <3>1 DEF DefinitionsIn
    <2>4. CASE j = u + 1
      <3>1. ~(l < i)
        <4>1. l < i => i \in l + 1 .. j - 1
          BY <2>1, <2>4
        <4> QED
          BY <1>0, <2>2, <4>1
      <3>2. ~(i < l)
        <4>1. i < l => l \in i + 1 .. u
          BY <2>1, <2>2, <2>4
        <4> QED
          BY <1>0, <2>1, <4>1
      <3>3. l = i
        BY <2>1, <3>1, <3>2
      <3> QED
        BY <1>0, <2>1, <3>3
    <2> QED
      BY <2>3, <2>4
  <1>3. ASSUME NEW l \in DefinitionsIn(t, n, u) PROVE l \in DefinitionsIn(t, n, u + 1)
    <2>1. l \in 1 .. u /\ t[l] = Identifier(n)
      BY DEF DefinitionsIn
    <2>2. PICK j \in l + 1 .. u : /\ t[j].keyword = "ASSIGN"
                                  /\ \A k \in l + 1 .. j - 1 : t[k].keyword = "END_OF_LINE"
      BY DEF DefinitionsIn
    <2>3. l \in 1 .. u + 1 /\ j \in l + 1 .. u + 1
      BY <2>1
    <2> QED
      BY <2>1, <2>2, <2>3 DEF DefinitionsIn
  <1>4. ASSUME n = m PROVE i \in DefinitionsIn(t, n, u + 1)
    <2>1. i \in 1 .. u + 1 /\ u + 1 \in i + 1 .. u + 1 /\ (u + 1) - 1 = u
      OBVIOUS
    <2> QED
      BY <1>4, <2>1 DEF DefinitionsIn
  <1> QED
    BY <1>1, <1>2, <1>3, <1>4

LEMMA FoundFinite ==
  ASSUME NEW S, NEW list \in Seq(S), NEW n
  PROVE  IsFiniteSet(FoundIn(list, n)) /\ Cardinality(FoundIn(list, n)) \in Nat
  <1>1. IsFiniteSet(1 .. Len(list))
    BY FS_Interval
  <1>2. FoundIn(list, n) \subseteq 1 .. Len(list)
    BY DEF FoundIn
  <1> QED
    BY <1>1, <1>2, FS_Subset, FS_CardinalityType

LEMMA FoundAppend ==
  ASSUME NEW S, NEW list \in Seq(S), NEW m \in S, NEW n
  PROVE  Cardinality(FoundIn(Append(list, m), n)) = Cardinality(FoundIn(list, n)) + (IF n = m THEN 1 ELSE 0)
  <1> DEFINE longer == Append(list, m)
             l == Len(list)
             F == FoundIn(list, n)
  <1>1. /\ l \in Nat /\ DOMAIN list = 1 .. l /\ DOMAIN longer = 1 .. l + 1 /\ longer[l + 1] = m
        /\ \A i \in 1 .. l : longer[i] = list[i]
    OBVIOUS
  <1> HIDE DEF longer, l
  <1>2. l + 1 \notin F /\ (n = m => FoundIn(longer, n) = F \cup {l + 1}) /\ (n # m => FoundIn(longer, n) = F)
    BY <1>1 DEF FoundIn
  <1>3. IsFiniteSet(F) /\ Cardinality(F) \in Nat
    BY FoundFinite
  <1> HIDE DEF F
  <1>4. Cardinality(F \cup {l + 1}) = Cardinality(F) + 1
    BY <1>2, <1>3, FS_AddElement
  <1>5. Cardinality(FoundIn(longer, n)) = Cardinality(F) + (IF n = m THEN 1 ELSE 0)
    <2>1. CASE n = m
      BY <1>2, <1>4, <2>1
    <2>2. CASE n # m
      <3>1. FoundIn(longer, n) = F
        BY <1>2, <2>2
      <3> QED
        BY <1>3, <2>2, <3>1
    <2> QED
      BY <2>1, <2>2
  <1> QED
    BY <1>5 DEF longer, F

-----------------------------------------------------------------------------
(* The names the parser knows: at an ASSIGN, the identifier in front of it *)
(* is remembered; and a name is in the list of identifiers as many times   *)
(* as the tokens define it, except between its ASSIGN and the push.        *)
Consumed == IF lookahead \in Token THEN Len(tokens) - 1 ELSE Len(tokens)

Naming(q) ==
  /\ q = "assign" =>
        /\ held["def"] \in Name
        /\ \E i \in 1 .. Consumed : /\ tokens[i] = Identifier(held["def"])
                                    /\ \A j \in i + 1 .. Consumed : tokens[j].keyword = "END_OF_LINE"
  /\ stack = PushThenValue => held["def"] \in Name
  /\ \A n \in Name :
        Cardinality(Definitions(n, Consumed))
          = Cardinality(Found(n)) + (IF stack = PushThenValue /\ held["def"] = n THEN 1 ELSE 0)

LEMMA NamingReads ==
  /\ \A n, u : Definitions(n, u) = DefinitionsIn(tokens, n, u)
  /\ \A n : Found(n) = FoundIn(identifiers, n)
  BY DEF Definitions, DefinitionsIn, Found, FoundIn

LEMMA ConsumedType ==
  ASSUME ParserTypeOK, LookaheadInv
  PROVE  Consumed \in Nat /\ Consumed <= Len(tokens) /\ (lookahead \in Token => Consumed + 1 = Len(tokens))
  <1>1. tokens \in Seq(Token) /\ Len(tokens) \in Nat
    BY DEF ParserTypeOK
  <1>2. lookahead \in Token => Len(tokens) >= 1
    BY <1>1 DEF LookaheadInv
  <1> QED
    BY <1>1, <1>2 DEF Consumed

LEMMA ReadKeepsNaming ==
  ASSUME ParserTypeOK, LookaheadInv, NEW token \in Token \cup {Nil}, Read(token),
         NEW q \in Point, Naming(q)
  PROVE  Naming(q)'
  <1> DEFINE u == Consumed
             v == Consumed'
  <1>1. /\ lookahead = Unread /\ lookahead \notin Token /\ tokens \in Seq(Token) /\ Len(tokens) \in Nat
        /\ stack' = stack /\ held' = held /\ identifiers' = identifiers /\ Nil \notin Token
        /\ u = Len(tokens)
    BY TokenFacts DEF Read, ParserTypeOK, Consumed
  <1>2. \A i \in 1 .. u : tokens'[i] = tokens[i]
    BY <1>1 DEF Read
  <1>3. v = u \/ (v = u + 1 /\ tokens'[u + 1].keyword = "END_OF_LINE")
    <2>1. CASE token = Nil
      <3>1. ~Skipped(Nil)
        BY TokenFacts DEF Skipped
      <3>2. tokens' = tokens /\ lookahead' = Nil
        BY <2>1, <3>1 DEF Read
      <3>3. v = Len(tokens)
        BY <1>1, <3>2 DEF Consumed
      <3> QED
        BY <1>1, <3>3
    <2>2. CASE token \in Token
      <3>1. tokens' = Append(tokens, token) /\ Len(tokens') = u + 1 /\ tokens'[u + 1] = token
        BY <1>1, <2>2 DEF Read
      <3>2. CASE Skipped(token)
        <4>1. lookahead' = Unread /\ token.keyword = "END_OF_LINE"
          BY <3>2 DEF Read, Skipped
        <4>2. v = Len(tokens')
          BY <1>1, <4>1 DEF Consumed
        <4> QED
          BY <2>2, <3>1, <4>1, <4>2
      <3>3. CASE ~Skipped(token)
        <4>1. lookahead' = token
          BY <3>3 DEF Read
        <4>2. v = Len(tokens') - 1
          BY <2>2, <4>1 DEF Consumed
        <4>3. v = u
          BY <1>1, <3>1, <4>2
        <4> QED
          BY <4>3
      <3> QED
        BY <3>2, <3>3
    <2> QED
      BY <2>1, <2>2
  <1> HIDE DEF u, v
  <1>4. u \in Nat /\ u + 1 \in Nat
    BY <1>1
  <1>5. \A n \in Name : DefinitionsIn(tokens', n, v) = DefinitionsIn(tokens, n, u)
    <2>1. ASSUME NEW n \in Name PROVE DefinitionsIn(tokens', n, u) = DefinitionsIn(tokens, n, u)
      BY <1>2, <1>4, DefinitionsSame
    <2>2. ASSUME NEW n \in Name, v = u + 1 PROVE DefinitionsIn(tokens', n, v) = DefinitionsIn(tokens', n, u)
      <3>1. tokens'[u + 1].keyword # "ASSIGN"
        BY <1>3, <1>4, <2>2
      <3> QED
        BY <1>4, <2>2, <3>1, NoDefinition
    <2> QED
      BY <1>3, <2>1, <2>2
  <1>6. \A n \in Name : Cardinality(Definitions(n, Consumed)') = Cardinality(Definitions(n, Consumed))
    <2>1. \A n : Definitions(n, Consumed)' = DefinitionsIn(tokens', n, v)
      BY DEF Definitions, DefinitionsIn, v
    <2> QED
      BY <1>5, <2>1, NamingReads DEF u
  <1>7. \A n : Found(n)' = Found(n)
    BY <1>1 DEF Found
  <1>8. ASSUME q = "assign"
        PROVE  \E i \in 1 .. v : /\ tokens'[i] = Identifier(held["def"])
                                 /\ \A j \in i + 1 .. v : tokens'[j].keyword = "END_OF_LINE"
    <2>1. PICK i \in 1 .. u : /\ tokens[i] = Identifier(held["def"])
                              /\ \A j \in i + 1 .. u : tokens[j].keyword = "END_OF_LINE"
      BY <1>8 DEF Naming, u
    <2>2. i \in 1 .. v /\ tokens'[i] = Identifier(held["def"])
      BY <1>2, <1>3, <1>4, <2>1
    <2>3. ASSUME NEW j \in i + 1 .. v PROVE tokens'[j].keyword = "END_OF_LINE"
      <3>1. j \in i + 1 .. u \/ j = u + 1
        BY <1>3, <1>4
      <3>2. j \in i + 1 .. u => j \in 1 .. u
        OBVIOUS
      <3>3. j = u + 1 => v = u + 1
        BY <1>3, <1>4
      <3>4. CASE j = u + 1
        <4>1. v # u
          BY <1>4, <3>3, <3>4
        <4> QED
          BY <1>3, <3>4, <4>1
      <3> QED
        BY <1>2, <2>1, <3>1, <3>2, <3>4
    <2> QED
      BY <2>2, <2>3
  <1>9. /\ q = "assign" => held'["def"] \in Name
        /\ stack' = PushThenValue => held'["def"] \in Name
        /\ \A n \in Name : Cardinality(Definitions(n, Consumed)')
                             = Cardinality(Found(n)') + (IF stack' = PushThenValue /\ held'["def"] = n THEN 1 ELSE 0)
    BY <1>1, <1>6, <1>7 DEF Naming
  <1> QED
    BY <1>1, <1>8, <1>9 DEF Naming, v

LEMMA MatchKeepsNaming ==
  ASSUME ParserTypeOK, LookaheadInv, match, status' = "parsing", NEW k, k = lookahead.keyword,
         NEW q \in Point, NEW d \in Seq(Symbol), Position(q, d), Naming(q)
  PROVE  Naming(Goes(q, k))'
  <1> DEFINE u == Consumed
             p == Goes(q, k)
  <1>1. /\ stack # <<>> /\ Head(stack).do = "match" /\ k = Head(stack).what /\ stack' = Tail(stack)
        /\ tokens' = tokens /\ identifiers' = identifiers /\ held' = Remembered(Head(stack).role)
    BY DEF match, Doing, Ready, Fail
  <1>2. /\ k \in Symbol /\ p \in Point /\ lookahead \in Token /\ lookahead' = Unread
        /\ stack' \in Stacks(p, "unread")
    BY MatchMoves, TokenFacts DEF Position
  <1>3. /\ u \in Nat /\ u + 1 = Len(tokens) /\ Consumed' = u + 1 /\ tokens[u + 1] = lookahead
    <2>1. Unread \notin Token
      BY TokenFacts
    <2> QED
      BY <1>1, <1>2, <2>1, ConsumedType DEF Consumed, LookaheadInv
  <1>4. stack \in Stacks(q, k) /\ k # "unread"
    BY <1>2, TokenFacts DEF Position
  <1>5. stack # PushThenValue
    <2>1. Head(PushThenValue) = Push /\ Push.do # "match"
      BY Entries DEF PushThenValue
    <2> QED
      BY <1>1, <2>1
  <1>6. /\ \A n : Definitions(n, Consumed)' = DefinitionsIn(tokens, n, u + 1)
        /\ \A n : Definitions(n, Consumed) = DefinitionsIn(tokens, n, u)
        /\ \A n : Found(n)' = Found(n) /\ Found(n) = FoundIn(identifiers, n)
        /\ \A n : Cardinality(DefinitionsIn(tokens, n, u)) \in Nat /\ IsFiniteSet(DefinitionsIn(tokens, n, u))
    <2>1. \A n : Definitions(n, Consumed)' = DefinitionsIn(tokens', n, Consumed')
      BY DEF Definitions, DefinitionsIn
    <2>2. \A n : Cardinality(DefinitionsIn(tokens, n, u)) \in Nat /\ IsFiniteSet(DefinitionsIn(tokens, n, u))
      BY <1>3, DefinitionsFinite
    <2>3. \A n : Found(n)' = Found(n)
      BY <1>1 DEF Found
    <2> QED
      BY <1>1, <1>3, <2>1, <2>2, <2>3, NamingReads
  <1> HIDE DEF u, p
  <1>7. \A n \in Name : Cardinality(DefinitionsIn(tokens, n, u)) = Cardinality(Found(n))
    <2>1. \A n \in Name : Cardinality(Definitions(n, Consumed)) = Cardinality(Found(n)) + 0
      BY <1>5 DEF Naming
    <2>2. identifiers \in Seq(Name)
      BY DEF ParserTypeOK
    <2>3. \A n \in Name : Cardinality(Found(n)) \in Nat
      BY <1>6, <2>2, FoundFinite
    <2> QED
      BY <1>6, <2>1, <2>3
  <1>8. ASSUME p = "assign"
        PROVE  /\ held'["def"] \in Name
               /\ \E i \in 1 .. Consumed' : /\ tokens'[i] = Identifier(held'["def"])
                                            /\ \A j \in i + 1 .. Consumed' : tokens'[j].keyword = "END_OF_LINE"
    <2>1. k = "IDENTIFIER" /\ Head(stack) = Id("def")
      BY <1>1, <1>4, <1>8, DefinitionStarts DEF p
    <2>2. held' = [held EXCEPT !["def"] = lookahead.value]
      <3>1. Id("def").role = "def" /\ "def" # NoName
        <4>1. Id("def").role = "def"
          BY DEF Id
        <4>2. "def" # NoName
          BY Zenon DEF NoName
        <4> QED
          BY <4>1, <4>2
      <3> QED
        BY <1>1, <2>1, <3>1 DEF Remembered
    <2>3. held'["def"] = lookahead.value /\ lookahead = Identifier(lookahead.value) /\ lookahead.value \in Name
      BY <1>2, <2>1, <2>2, TokenFacts DEF ParserTypeOK
    <2>4. u + 1 \in 1 .. u + 1 /\ \A j \in (u + 1) + 1 .. u + 1 : FALSE
      BY <1>3
    <2> QED
      BY <1>1, <1>3, <2>3, <2>4
  <1>9. CASE k = "ASSIGN"
    <2>1. q = "assign" /\ p = "value"
      <3>1. q = "assign" \/ p = "nowhere"
        BY <1>9 DEF Goes, Point, p
      <3>2. Stacks("nowhere", "unread") = {}
        BY DEF Stacks
      <3>3. q = "assign"
        BY <1>2, <3>1, <3>2
      <3> QED
        BY <1>9, <3>3 DEF Goes, p
    <2>2. stack = <<T("ASSIGN"), Push, Call("network_elem_definition")>>
      BY <1>4, <2>1 DEF Stacks
    <2>3. stack' = PushThenValue
      BY <1>1, <2>2 DEF PushThenValue
    <2>4. held' = held
      <3>1. Head(stack) = T("ASSIGN") /\ T("ASSIGN").role = NoName
        BY <2>2 DEF T
      <3> QED
        BY <1>1, <3>1 DEF Remembered
    <2>5. held["def"] \in Name
      BY <2>1 DEF Naming
    <2>6. PICK i \in 1 .. u : /\ tokens[i] = Identifier(held["def"])
                              /\ \A j \in i + 1 .. u : tokens[j].keyword = "END_OF_LINE"
      BY <2>1 DEF Naming, u
    <2>7. tokens[u + 1].keyword = "ASSIGN"
      BY <1>3, <1>9
    <2>8. ASSUME NEW n \in Name
          PROVE  Cardinality(DefinitionsIn(tokens, n, u + 1)) =
                     Cardinality(Found(n)) + (IF held["def"] = n THEN 1 ELSE 0)
      <3> DEFINE D == DefinitionsIn(tokens, n, u)
      <3>1. /\ i \notin D
            /\ n = held["def"] => DefinitionsIn(tokens, n, u + 1) = D \cup {i}
            /\ n # held["def"] => DefinitionsIn(tokens, n, u + 1) = D
        <4> DEFINE m == held["def"]
        <4>1. tokens[i] = Identifier(m) /\ \A j \in i + 1 .. u : tokens[j].keyword = "END_OF_LINE"
          BY <2>6
        <4>2. u \in Nat
          BY <1>3
        <4> HIDE DEF m
        <4>3. /\ i \notin D
              /\ n = m => DefinitionsIn(tokens, n, u + 1) = D \cup {i}
              /\ n # m => DefinitionsIn(tokens, n, u + 1) = D
          BY <2>7, <4>1, <4>2, OneDefinition
        <4> QED
          BY <4>3 DEF m
      <3>2. IsFiniteSet(D) /\ Cardinality(D) = Cardinality(Found(n)) /\ Cardinality(D) \in Nat
        BY <1>6, <1>7
      <3> HIDE DEF D
      <3>3. Cardinality(D \cup {i}) = Cardinality(D) + 1
        BY <3>1, <3>2, FS_AddElement
      <3>4. CASE n = held["def"]
        BY <3>1, <3>2, <3>3, <3>4
      <3>5. CASE n # held["def"]
        <4>1. DefinitionsIn(tokens, n, u + 1) = D
          BY <3>1, <3>5
        <4> QED
          BY <3>2, <3>5, <4>1
      <3> QED
        BY <3>4, <3>5
    <2>9. \A n \in Name : Cardinality(Definitions(n, Consumed)')
                            = Cardinality(Found(n)') + (IF stack' = PushThenValue /\ held'["def"] = n THEN 1 ELSE 0)
      BY <1>6, <2>3, <2>4, <2>8
    <2> QED
      BY <1>8, <2>1, <2>4, <2>5, <2>9 DEF Naming, p
  <1>10. CASE k # "ASSIGN"
    <2>1. stack' # PushThenValue
      <3>1. p # "value"
        BY <1>10 DEF Goes, Point, p
      <3>2. stack' = PushThenValue => stack' # <<>> /\ Head(stack').do = "push"
        <4>1. PushThenValue # <<>> /\ Head(PushThenValue) = Push /\ Push.do = "push"
          BY Entries DEF PushThenValue
        <4> QED
          BY <4>1
      <3> QED
        BY <1>2, <3>1, <3>2, PushOnlyAtValue
    <2>2. \A n : DefinitionsIn(tokens, n, u + 1) = DefinitionsIn(tokens, n, u)
      <3>1. tokens[u + 1].keyword # "ASSIGN"
        BY <1>3, <1>10
      <3> QED
        BY <1>3, <3>1, NoDefinition
    <2>3. \A n \in Name : Cardinality(Definitions(n, Consumed)')
                            = Cardinality(Found(n)') + (IF stack' = PushThenValue /\ held'["def"] = n THEN 1 ELSE 0)
      <3>1. \A n \in Name : Cardinality(Definitions(n, Consumed)') = Cardinality(Found(n)')
        BY <1>6, <1>7, <2>2
      <3>2. \A n \in Name : Cardinality(Found(n)') \in Nat
        BY <1>6, <1>7
      <3> QED
        BY <2>1, <3>1, <3>2
    <2> QED
      BY <1>8, <2>1, <2>3 DEF Naming, p
  <1> QED
    BY <1>9, <1>10

(* The other steps: only the push changes the list, by the name that is    *)
(* missing there.                                                          *)
LEMMA PushIsGone ==
  ASSUME ParserTypeOK, call \/ PushIdentifier \/ get_identifier \/ parse, status' = "parsing",
         NEW q \in Point, NEW d \in Seq(Symbol), Position(q, d)
  PROVE  stack' # PushThenValue
  <1> DEFINE k == lookahead.keyword
  <1>1. k # "unread" /\ stack \in Stacks(q, k)
    <2>1. lookahead # Unread
      BY DEF call, PushIdentifier, get_identifier, parse, Doing, Ready
    <2> QED
      BY <2>1, TokenFacts DEF Position, ParserTypeOK
  <1>2. stack' \in Stacks(q, k)
    BY OthersKeepPosition DEF Position
  <1>3. PushThenValue # <<>> /\ Head(PushThenValue) = Push /\ Push.do = "push"
    BY Entries DEF PushThenValue
  <1>4. <<Call("network_elem_definition")>> # PushThenValue /\ <<Call("initial_symbol")>> # PushThenValue
    BY DEF PushThenValue
  <1>5. stack' = PushThenValue => q = "value"
    BY <1>2, <1>3, PushOnlyAtValue
  <1>6. q = "value" => \/ stack = PushThenValue \/ stack = <<Call("network_elem_definition")>>
                       \/ (stack # <<>> /\ Head(stack) = T(k)) \/ stack = <<>>
    BY <1>1 DEF Stacks, When, PushThenValue
  <1>7. CASE call
    <2> DEFINE body == Production(Head(stack).what, k)
    <2>1. stack # <<>> /\ Head(stack).do = "call" /\ stack' = body \o Tail(stack) /\ body # Error
      BY <1>7 DEF call, Doing, Fail
    <2>2. ASSUME q = "value" PROVE stack = <<Call("network_elem_definition")>>
      <3>1. T(k).do = "match"
        BY Entries
      <3> QED
        BY <1>3, <1>6, <2>1, <2>2, <3>1
    <2>3. ASSUME q = "value" PROVE stack' # PushThenValue
      <3>0. stack = <<Call("network_elem_definition")>>
        BY <2>2, <2>3
      <3>1. Head(stack) = Call("network_elem_definition") /\ Tail(stack) = <<>>
        BY <3>0
      <3>2. Head(stack).what = "network_elem_definition"
        BY <3>1, Entries
      <3>3. body = <<T(k), T("LEFT_PARENTHESIS"), Call("params"), RP>> \/ body = <<>>
        BY <2>1, <3>2, BodyOfDefinition
      <3>4. /\ <<T(k), T("LEFT_PARENTHESIS"), Call("params"), RP>> # PushThenValue
            /\ <<>> # PushThenValue
        BY DEF PushThenValue
      <3>5. /\ <<T(k), T("LEFT_PARENTHESIS"), Call("params"), RP>> \o <<>> =
                   <<T(k), T("LEFT_PARENTHESIS"), Call("params"), RP>>
            /\ <<>> \o <<>> = <<>>
        BY Concat40, ConcatEmpty
      <3> HIDE DEF body
      <3> QED
        BY <2>1, <3>1, <3>3, <3>4, <3>5
    <2> QED
      BY <1>5, <2>3
  <1>8. CASE PushIdentifier
    <2>1. stack # <<>> /\ Head(stack).do = "push" /\ stack' = Tail(stack)
      BY <1>8 DEF PushIdentifier, Doing
    <2>2. stack = PushThenValue
      BY <1>1, <2>1, PushOnlyAtValue
    <2>3. stack' = <<Call("network_elem_definition")>>
      BY <2>1, <2>2 DEF PushThenValue
    <2> QED
      BY <1>4, <2>3
  <1>9. CASE get_identifier
    <2>1. stack # <<>> /\ Head(stack).do = "resolve"
      BY <1>9 DEF get_identifier, Doing
    <2>2. q # "value"
      <3>1. T(k).do = "match" /\ Call("network_elem_definition").do = "call"
        BY Entries
      <3> QED
        BY <1>3, <1>6, <2>1, <3>1
    <2> QED
      BY <1>5, <2>2
  <1>10. CASE parse
    <2>1. stack' = <<Call("initial_symbol")>> \/ status' = "accepted"
      BY <1>10 DEF parse
    <2> QED
      BY <1>4, <2>1
  <1> QED
    BY <1>7, <1>8, <1>9, <1>10

LEMMA OthersKeepNaming ==
  ASSUME ParserTypeOK, call \/ PushIdentifier \/ get_identifier \/ parse, status' = "parsing",
         NEW q \in Point, NEW d \in Seq(Symbol), Position(q, d), Naming(q)
  PROVE  Naming(q)' /\ (PushIdentifier => held["def"] \in Name)
  <1> DEFINE u == Consumed
             k == lookahead.keyword
             C(n) == Cardinality(Definitions(n, Consumed))
  <1>1. tokens' = tokens /\ lookahead' = lookahead /\ held' = held /\ stack' # PushThenValue
    BY OthersKeepPosition, PushIsGone DEF call, PushIdentifier, get_identifier, parse, Fail
  <1>2. Consumed' = u /\ (\A n : Cardinality(Definitions(n, Consumed)') = C(n))
    <2>1. Consumed' = u
      BY <1>1 DEF Consumed
    <2>2. \A n : Definitions(n, Consumed)' = Definitions(n, Consumed)
      BY <1>1, <2>1 DEF Definitions
    <2> QED
      BY <2>1, <2>2
  <1>3. \A n : Found(n) = FoundIn(identifiers, n) /\ Found(n)' = FoundIn(identifiers', n)
    <2>1. \A n : Found(n)' = FoundIn(identifiers', n)
      BY DEF Found, FoundIn
    <2> QED
      BY <2>1, NamingReads
  <1>4. identifiers \in Seq(Name)
    BY DEF ParserTypeOK
  <1>5. \A n \in Name : Cardinality(Found(n)) \in Nat
    BY <1>3, <1>4, FoundFinite
  <1> HIDE DEF C
  <1>6. \A n \in Name : C(n) = Cardinality(Found(n)) + (IF stack = PushThenValue /\ held["def"] = n THEN 1 ELSE 0)
    BY DEF Naming, C
  <1>7. (\A n \in Name : Cardinality(Found(n)') = C(n)) /\ (PushIdentifier => held["def"] \in Name)
    <2>1. CASE PushIdentifier
      <3>1. /\ stack # <<>>
            /\ Head(stack).do = "push"
            /\ identifiers' = Append(identifiers, held["def"])
            /\ lookahead # Unread
        BY <2>1 DEF PushIdentifier, Doing, Ready
      <3>2. stack = PushThenValue
        BY <3>1, PushOnlyAtValue DEF Position
      <3>3. held["def"] \in Name
        BY <3>2 DEF Naming
      <3> DEFINE m == held["def"]
      <3> HIDE DEF m
      <3>4. m \in Name /\ identifiers' = Append(identifiers, m)
        BY <3>1, <3>3 DEF m
      <3>5. ASSUME NEW n \in Name PROVE Cardinality(Found(n)') = C(n)
        <4>1. Cardinality(FoundIn(Append(identifiers, m), n)) =
                  Cardinality(FoundIn(identifiers, n)) + (IF n = m THEN 1 ELSE 0)
          BY <1>4, <3>4, FoundAppend
        <4>2. C(n) = Cardinality(Found(n)) + (IF m = n THEN 1 ELSE 0)
          BY <1>6, <3>2 DEF m
        <4>3. Found(n) = FoundIn(identifiers, n) /\ Found(n)' = FoundIn(Append(identifiers, m), n)
          BY <1>3, <3>4
        <4> QED
          BY <4>1, <4>2, <4>3
      <3> QED
        BY <3>3, <3>5
    <2>2. CASE ~PushIdentifier
      <3>1. identifiers' = identifiers
        BY <2>2 DEF call, get_identifier, parse, Fail
      <3>2. stack # PushThenValue
        <4>1. PushThenValue # <<>> /\ Head(PushThenValue).do = "push"
          BY Entries DEF PushThenValue
        <4>2. stack = <<>> \/ Head(stack).do \in {"call", "resolve"}
          BY <2>2 DEF call, get_identifier, parse, Doing
        <4> QED
          BY <4>1, <4>2
      <3> QED
        BY <1>3, <1>5, <1>6, <2>2, <3>1, <3>2
    <2> QED
      BY <2>1, <2>2
  <1>8. \A n \in Name : C(n) = Cardinality(Found(n)') + 0
    BY <1>5, <1>6, <1>7
  <1>9. Naming(q)'
    <2>1. \A n \in Name : Cardinality(Definitions(n, Consumed)')
                            = Cardinality(Found(n)') + (IF stack' = PushThenValue /\ held'["def"] = n THEN 1 ELSE 0)
      BY <1>1, <1>2, <1>8
    <2>2. q = "assign" =>
             /\ held'["def"] \in Name
             /\ \E i \in 1 .. Consumed' : /\ tokens'[i] = Identifier(held'["def"])
                                          /\ \A j \in i + 1 .. Consumed' : tokens'[j].keyword = "END_OF_LINE"
      BY <1>1, <1>2 DEF Naming
    <2> QED
      BY <1>1, <2>1, <2>2 DEF Naming
  <1> QED
    BY <1>7, <1>9

-----------------------------------------------------------------------------
(* References that were accepted stay what they were while the program     *)
(* becomes known.                                                          *)
ReferencesKnown ==
  \A r \in references : r.at <= Len(tokens) /\ Cardinality(DefinitionsIn(tokens, r.name, r.at)) = 1

LEMMA ReferencesStay ==
  ASSUME ParserTypeOK, ReferencesKnown,
         tokens' = tokens \/ (\E token \in Token : tokens' = Append(tokens, token)),
         NEW r \in references
  PROVE  r.at <= Len(tokens') /\ Cardinality(DefinitionsIn(tokens', r.name, r.at)) = 1
  <1>1. tokens \in Seq(Token) /\ r.at \in Nat /\ r.at <= Len(tokens)
        /\ Cardinality(DefinitionsIn(tokens, r.name, r.at)) = 1
    BY DEF ParserTypeOK, ReferencesKnown
  <1>2. CASE tokens' = tokens
    BY <1>1, <1>2
  <1>3. CASE \E token \in Token : tokens' = Append(tokens, token)
    <2>1. PICK token \in Token : tokens' = Append(tokens, token)
      BY <1>3
    <2>2. /\ Len(tokens) \in Nat
          /\ Len(tokens') = Len(tokens) + 1
          /\ \A i \in 1 .. Len(tokens) : tokens'[i] = tokens[i]
      BY <1>1, <2>1
    <2>3. r.at <= Len(tokens') /\ \A i \in 1 .. r.at : tokens'[i] = tokens[i]
      BY <1>1, <2>2
    <2>4. DefinitionsIn(tokens', r.name, r.at) = DefinitionsIn(tokens, r.name, r.at)
      BY <1>1, <2>3, DefinitionsSame
    <2> QED
      BY <1>1, <2>3, <2>4
  <1> QED
    BY <1>2, <1>3

(* A name that is resolved is in the list once, and so the tokens define   *)
(* it once.                                                                *)
LEMMA ReferenceIsKnown ==
  ASSUME ParserTypeOK, LookaheadInv, get_identifier, status' # "SemanticalError", NEW q, Naming(q)
  PROVE  \E n \in Name : /\ references' = references \cup {[at |-> Consumed, name |-> n]}
                         /\ Cardinality(DefinitionsIn(tokens, n, Consumed)) = 1
  <1> DEFINE n == held[Head(stack).what]
  <1>1. /\ stack # <<>> /\ Head(stack).do = "resolve" /\ Cardinality(Found(n)) = 1 /\ lookahead # Unread
        /\ references' = references \cup {[at |-> Matched, name |-> n]}
    BY DEF get_identifier, Doing, Ready, Fail
  <1> HIDE DEF n
  <1>2. Matched = Consumed
    <2>1. lookahead \in Token \/ lookahead = Nil
      BY <1>1 DEF ParserTypeOK
    <2> QED
      BY <2>1, TokenFacts DEF Matched, Consumed
  <1>3. n \in Name
    <2>1. Found(n) # {}
      <3>1. Cardinality({}) = 0
        BY FS_EmptySet
      <3>2. ASSUME Found(n) = {} PROVE FALSE
        BY <1>1, <3>1, <3>2
      <3> QED
        BY <3>2
    <2>2. PICK i \in DOMAIN identifiers : identifiers[i] = n
      BY <2>1 DEF Found
    <2>3. identifiers \in Seq(Name)
      BY DEF ParserTypeOK
    <2> QED
      BY <2>2, <2>3
  <1>4. stack # PushThenValue
    <2>1. Head(PushThenValue) = Push /\ Push.do = "push"
      BY Entries DEF PushThenValue
    <2> QED
      BY <1>1, <2>1
  <1>5. Cardinality(Definitions(n, Consumed)) = Cardinality(Found(n)) + 0
    BY <1>3, <1>4 DEF Naming
  <1>6. Cardinality(DefinitionsIn(tokens, n, Consumed)) = 1
    BY <1>1, <1>5, NamingReads
  <1> QED
    BY <1>1, <1>2, <1>3, <1>6

LEMMA ReferencesKnownStep ==
  ASSUME ParserTypeOK, LookaheadInv, ReferencesKnown, ParserNext, NEW q, Naming(q)
  PROVE  /\ ReferencesKnown'
         /\ references' \subseteq [at : Nat, name : Name]
  <1>1. references \subseteq [at : Nat, name : Name] /\ Len(tokens) \in Nat
    BY DEF ParserTypeOK
  <1>2. CASE references' = references
    <2>1. tokens' = tokens \/ \E token \in Token : tokens' = Append(tokens, token)
      BY DEF ParserNext, Parser, Read, match, call, PushIdentifier, get_identifier, parse, Fail
    <2>2. \A r \in references : r.at <= Len(tokens') /\ Cardinality(DefinitionsIn(tokens', r.name, r.at)) = 1
      BY <2>1, ReferencesStay
    <2> QED
      BY <1>1, <1>2, <2>2 DEF ReferencesKnown
  <1>3. CASE references' # references
    <2>1. get_identifier /\ status' # "SemanticalError" /\ tokens' = tokens
      BY <1>3 DEF ParserNext, Parser, Read, match, call, PushIdentifier, get_identifier, parse, Fail, Ready, Doing
    <2>2. PICK n \in Name : /\ references' = references \cup {[at |-> Consumed, name |-> n]}
                            /\ Cardinality(DefinitionsIn(tokens, n, Consumed)) = 1
      BY <2>1, ReferenceIsKnown
    <2>3. Consumed \in Nat /\ Consumed <= Len(tokens)
      BY ConsumedType
    <2>4. \A r \in references' : r \in references \/ (r.at = Consumed /\ r.name = n)
      BY <2>2
    <2>5. ASSUME NEW r \in references'
          PROVE  r.at <= Len(tokens) /\ Cardinality(DefinitionsIn(tokens, r.name, r.at)) = 1
      BY <2>2, <2>3, <2>4 DEF ReferencesKnown
    <2> QED
      BY <1>1, <2>1, <2>2, <2>3, <2>5 DEF ReferencesKnown
  <1> QED
    BY <1>2, <1>3

LEMMA ParserTypeStep ==
  ASSUME ParserTypeOK, ParserNext, references' \subseteq [at : Nat, name : Name],
         PushIdentifier => held["def"] \in Name
  PROVE  ParserTypeOK'
  <1>1. /\ tokens \in Seq(Token) /\ lookahead \in Token \cup {Nil, Unread} /\ identifiers \in Seq(Name)
        /\ held \in [{"def", "select", "ref"} -> Name \cup {NoName}]
        /\ status \in {"parsing", "accepted", "SyntacticalError", "SemanticalError", "NoMethodError"}
    BY DEF ParserTypeOK
  <1>2. tokens' \in Seq(Token)
    <2>1. tokens' = tokens \/ \E token \in Token : tokens' = Append(tokens, token)
      BY DEF ParserNext, Parser, Read, match, call, PushIdentifier, get_identifier, parse, Fail
    <2> QED
      BY <1>1, <2>1
  <1>3. lookahead' \in Token \cup {Nil, Unread}
    BY <1>1 DEF ParserNext, Parser, Read, match, call, PushIdentifier, get_identifier, parse, Fail
  <1>4. held' \in [{"def", "select", "ref"} -> Name \cup {NoName}]
    <2>1. held' = held \/ (\E role : held' = [held EXCEPT ![role] = lookahead.value])
      BY DEF ParserNext, Parser, Read, match, call, PushIdentifier, get_identifier, parse, Fail, Remembered
    <2>2. lookahead.value \in Name \cup {NoName}
      BY <1>1, TokenFacts
    <2> QED
      BY <1>1, <2>1, <2>2
  <1>5. identifiers' \in Seq(Name)
    <2>1. identifiers' = identifiers \/ (PushIdentifier /\ identifiers' = Append(identifiers, held["def"]))
      BY DEF ParserNext, Parser, Read, match, call, PushIdentifier, get_identifier, parse, Fail
    <2> QED
      BY <1>1, <2>1
  <1>6. status' \in {"parsing", "accepted", "SyntacticalError", "SemanticalError", "NoMethodError"}
    BY <1>1 DEF ParserNext, Parser, Read, match, call, PushIdentifier, get_identifier, parse, Fail
  <1> QED
    BY <1>2, <1>3, <1>4, <1>5, <1>6 DEF ParserTypeOK

-----------------------------------------------------------------------------
(* The inductive invariant.                                                *)
OnCourse == \E q \in Point, d \in Seq(Symbol) : Position(q, d) /\ Naming(q)

ParserIInv ==
  /\ ParserTypeOK
  /\ LookaheadInv
  /\ ReferencesKnown
  /\ status = "parsing" => OnCourse
  /\ Decided

LEMMA ParserIInvInit ==
  ASSUME ParserInit
  PROVE  ParserIInv
  <1>1. /\ tokens = <<>> /\ lookahead = Unread /\ stack = <<>> /\ identifiers = <<>> /\ references = {}
        /\ status = "parsing" /\ held = [role \in {"def", "select", "ref"} |-> NoName]
    BY DEF ParserInit
  <1>2. ParserTypeOK
    BY <1>1 DEF ParserTypeOK
  <1>3. LookaheadInv /\ "start" \in Point /\ <<>> \in Seq(Symbol) /\ Position("start", <<>>)
    BY InitialPosition
  <1>4. Naming("start")
    <2>1. Consumed = 0
      BY <1>1, TokenFacts DEF Consumed
    <2>2. \A n : Definitions(n, Consumed) = {} /\ Found(n) = {}
      BY <1>1, <2>1 DEF Definitions, Found
    <2>3. Cardinality({}) = 0
      BY FS_EmptySet
    <2>4. stack # PushThenValue
      BY <1>1 DEF PushThenValue
    <2> QED
      BY <2>2, <2>3, <2>4 DEF Naming
  <1>5. OnCourse
    BY <1>3, <1>4 DEF OnCourse
  <1>6. ReferencesKnown /\ Decided
    BY <1>1 DEF ReferencesKnown, Decided
  <1> QED
    BY <1>2, <1>3, <1>5, <1>6 DEF ParserIInv

LEMMA ParserIInvStep ==
  ASSUME ParserIInv, ParserNext
  PROVE  ParserIInv'
  <1>1. status = "parsing" /\ ParserTypeOK /\ LookaheadInv /\ ReferencesKnown /\ OnCourse
    BY DEF ParserIInv, ParserNext, Parser, Read, match, call, PushIdentifier, get_identifier, parse, Doing, Ready
  <1>2. PICK q \in Point, d \in Seq(Symbol) : Position(q, d) /\ Naming(q)
    BY <1>1 DEF OnCourse
  <1>3. ReferencesKnown' /\ references' \subseteq [at : Nat, name : Name]
    BY <1>1, <1>2, ReferencesKnownStep
  <1>4. ParserTypeOK'
    <2>1. PushIdentifier => status' = "parsing"
      BY <1>1 DEF PushIdentifier
    <2>2. PushIdentifier => held["def"] \in Name
      BY <1>1, <1>2, <2>1, OthersKeepNaming
    <2> QED
      BY <1>1, <1>3, <2>2, ParserTypeStep
  <1>5. CASE \E token \in Token \cup {Nil} : Read(token)
    <2>1. PICK token \in Token \cup {Nil} : Read(token)
      BY <1>5
    <2>2. Position(q, d)' /\ LookaheadInv'
      BY <1>1, <1>2, <2>1, ReadKeepsPosition
    <2>3. Naming(q)'
      BY <1>1, <1>2, <2>1, ReadKeepsNaming
    <2>4. OnCourse'
      BY <2>2, <2>3 DEF OnCourse
    <2>5. Decided'
      BY <2>1 DEF Read, Decided
    <2> QED
      BY <1>3, <1>4, <2>2, <2>4, <2>5 DEF ParserIInv
  <1>6. CASE Parser /\ status' # "parsing"
    <2>1. Decided' /\ tokens' = tokens /\ lookahead' = lookahead
      BY <1>1, <1>2, <1>6, Verdicts
    <2>2. LookaheadInv'
      BY <1>1, <2>1 DEF LookaheadInv
    <2> QED
      BY <1>3, <1>4, <1>6, <2>1, <2>2 DEF ParserIInv
  <1>7. CASE Parser /\ status' = "parsing"
    <2>1. Decided'
      BY <1>7 DEF Decided
    <2>2. CASE match
      <3>1. PICK k : k = lookahead.keyword
        OBVIOUS
      <3>2. /\ Goes(q, k) \in Point /\ d \o <<k>> \in Seq(Symbol)
            /\ Position(Goes(q, k), d \o <<k>>)' /\ LookaheadInv'
        BY <1>1, <1>2, <1>7, <2>2, <3>1, MatchMoves
      <3>3. Naming(Goes(q, k))'
        BY <1>1, <1>2, <1>7, <2>2, <3>1, MatchKeepsNaming
      <3>4. OnCourse'
        BY <3>2, <3>3 DEF OnCourse
      <3> QED
        BY <1>3, <1>4, <2>1, <3>2, <3>4 DEF ParserIInv
    <2>3. CASE ~match
      <3>1. call \/ PushIdentifier \/ get_identifier \/ parse
        BY <1>7, <2>3 DEF Parser
      <3>2. Position(q, d)' /\ tokens' = tokens /\ lookahead' = lookahead
        BY <1>1, <1>2, <1>7, <3>1, OthersKeepPosition
      <3>3. Naming(q)'
        BY <1>1, <1>2, <1>7, <3>1, OthersKeepNaming
      <3>4. OnCourse'
        BY <3>2, <3>3 DEF OnCourse
      <3>5. LookaheadInv'
        BY <1>1, <3>2 DEF LookaheadInv
      <3> QED
        BY <1>3, <1>4, <2>1, <3>4, <3>5 DEF ParserIInv
    <2> QED
      BY <2>2, <2>3
  <1> QED
    BY <1>5, <1>6, <1>7 DEF ParserNext

LEMMA ParserIInvSpec ==
  ParserSpec => []ParserIInv
  <1>1. ParserInit => ParserIInv
    BY ParserIInvInit
  <1>2. ParserIInv /\ [ParserNext]_parserVars => ParserIInv'
    <2>1. CASE ParserIInv /\ ParserNext
      BY <2>1, ParserIInvStep
    <2>2. CASE ParserIInv /\ UNCHANGED parserVars
      <3>1. ParserTypeOK /\ LookaheadInv /\ ReferencesKnown /\ Decided /\ (status = "parsing" => OnCourse)
        BY <2>2 DEF ParserIInv
      <3>2. /\ tokens' = tokens /\ lookahead' = lookahead /\ stack' = stack /\ held' = held
            /\ identifiers' = identifiers /\ references' = references /\ status' = status
        BY <2>2 DEF parserVars
      <3>3. ParserTypeOK'
        BY <3>1, <3>2 DEF ParserTypeOK
      <3>4. LookaheadInv'
        BY <3>1, <3>2 DEF LookaheadInv
      <3>5. ReferencesKnown'
        BY <3>1, <3>2 DEF ReferencesKnown
      <3>6. Decided'
        BY <3>1, <3>2 DEF Decided
      <3>7. ASSUME status' = "parsing" PROVE OnCourse'
        <4>1. PICK q \in Point, d \in Seq(Symbol) : Position(q, d) /\ Naming(q)
          BY <3>1, <3>2, <3>7 DEF OnCourse
        <4>2. Ahead' = Ahead /\ Consumed' = Consumed
          BY <3>2 DEF Ahead, Consumed
        <4>3. Position(q, d)'
          BY <3>2, <4>1, <4>2 DEF Position
        <4>4. ASSUME NEW n \in Name
              PROVE  Definitions(n, Consumed)' = Definitions(n, Consumed) /\ Found(n)' = Found(n)
          BY <3>2, <4>2 DEF Definitions, Found
        <4>5. Naming(q)'
          BY <3>2, <4>1, <4>2, <4>4 DEF Naming
        <4> QED
          BY <4>3, <4>5 DEF OnCourse
      <3> QED
        BY <3>3, <3>4, <3>5, <3>6, <3>7 DEF ParserIInv
    <2> QED
      BY <2>1, <2>2
  <1> QED
    BY <1>1, <1>2, PTL DEF ParserSpec

(* The continuations that the run tries are words.                         *)
LEMMA ClosingTypes ==
  ASSUME NEW c \in Closings
  PROVE  c \in Seq(Symbol)
  <1> DEFINE array == <<"RIGHT_BRACE", "RIGHT_PARENTHESIS">>
             definition == <<"ASSIGN", "ELEMENT", "LEFT_PARENTHESIS", "RIGHT_PARENTHESIS">>
             param == <<"EQUAL_PARAMETERS", "DOUBLE_QUOTE", "STRING", "DOUBLE_QUOTE", "RIGHT_PARENTHESIS">>
             intent == <<"IDENTIFIER", "SELECT", "IDENTIFIER">>
  <1>1. /\ array \in Seq(Symbol) /\ definition \in Seq(Symbol) /\ param \in Seq(Symbol) /\ intent \in Seq(Symbol)
        /\ <<"STRING", "DOUBLE_QUOTE">> \in Seq(Symbol) /\ <<"IDENTIFIER">> \in Seq(Symbol)
    BY SymbolFacts
  <1>2. <<"STRING", "DOUBLE_QUOTE">> \o array \in Seq(Symbol) /\ <<"IDENTIFIER">> \o array \in Seq(Symbol)
    BY <1>1, ConcatProperties
  <1>3. \E s \in {definition, param, intent, <<"STRING", "DOUBLE_QUOTE">> \o array, <<"IDENTIFIER">> \o array} :
           \E i \in 1 .. Len(s) + 1 : c = SubSeq(s, i, Len(s))
    BY Zenon DEF Closings
  <1> HIDE DEF array, definition, param, intent
  <1>4. PICK s \in Seq(Symbol) : \E i \in 1 .. Len(s) + 1 : c = SubSeq(s, i, Len(s))
    BY <1>1, <1>2, <1>3
  <1>5. PICK i \in 1 .. Len(s) + 1 : c = SubSeq(s, i, Len(s))
    BY <1>4
  <1> QED
    BY <1>4, <1>5

(* The parser decides every program, of any length and with any names, as  *)
(* the language says: what it accepts is a program or ends behind the      *)
(* ASSIGN of a definition, a syntactical error is raised at a token that   *)
(* no program has there or at a leading end of line, and a missing token   *)
(* is reported only where no program ends.                                 *)
THEOREM ParserDecidesRightly ==
  ParserSpec => []DecidesRightly
  <1>1. \A c \in Closings : c \in Seq(Symbol)
    BY ClosingTypes
  <1>2. ParserIInv => DecidesRightly
    BY <1>1 DEF ParserIInv, Decided, DecidesRightly, AcceptsOnlyPrograms, RejectsOnlyErrors, CrashesOnlyTruncated
  <1> QED
    BY <1>2, ParserIInvSpec, PTL

(* A syntactical error is for good, whatever the rest of the program: the  *)
(* run tries the continuations in Closings only.                           *)
THEOREM RejectedForGood ==
  ParserSpec => [](status = "SyntacticalError" =>
                      \/ tokens = <<Word("END_OF_LINE")>>
                      \/ \A c \in Seq(Symbol) : Significant(tokens) \o c \notin Program)
  <1>1. ParserIInv => (status = "SyntacticalError" =>
                          \/ tokens = <<Word("END_OF_LINE")>>
                          \/ \A c \in Seq(Symbol) : Significant(tokens) \o c \notin Program)
    BY DEF ParserIInv, Decided
  <1> QED
    BY <1>1, ParserIInvSpec, PTL

(* Every reference that get_identifier accepts names an identifier that    *)
(* the tokens in front of it define exactly once.                          *)
THEOREM ParserReferencesUnique ==
  ParserSpec => []ReferencesInv
  <1>1. ParserIInv => ReferencesInv
    <2>1. ParserIInv => ParserTypeOK /\ ReferencesUnique
      BY NamingReads DEF ParserIInv, ReferencesKnown, ReferencesUnique
    <2> QED
      BY <2>1 DEF ReferencesInv
  <1> QED
    BY <1>1, ParserIInvSpec, PTL
=============================================================================
