------------------------------ MODULE Contract ------------------------------
(***************************************************************************)
(* Coding of calls and events (sarafan/ethereum/contract.py and the event   *)
(* classes of sarafan/events.py).  What nodes post and announce goes to a   *)
(* contract as the signature of a method and encoded arguments, and comes   *)
(* back to every node as topics and data of a log, decoded by the class     *)
(* whose signature the first topic names.                                   *)
(*                                                                          *)
(* A byte string is a sequence of bytes of three kinds, and a word of the   *)
(* ABI has Word of them, not 32.  The bytes type of Python is the sequence  *)
(* itself; a str is a record that says what it spells, hexadecimal digits   *)
(* or characters.  A hash is what it is of.                                 *)
(***************************************************************************)
EXTENDS Naturals, Sequences, FiniteSets

Nul == 0         \* the byte 0
Chars == 1 .. 8  \* bytes of ascii characters
Other == 9       \* a byte that is no character

CONSTANTS
  Word,          \* bytes in a word
  MaxUint32,     \* the greatest uint32
  Magnets,       \* magnets, as bytes
  Replies,       \* what callers pass for replyTo
  ServiceIds,    \* addresses of hidden services
  ForeignWords,  \* hostnames that other programs register
  Sizes,         \* sizes of bundles
  MaxLogs        \* bound: logs on the chain

Words == [1 .. Word -> {Nul, Other} \cup Chars]

ContractAssumption ==
  /\ Word \in Nat \ {0} /\ MaxUint32 \in Nat \ {0} /\ MaxLogs \in Nat
  /\ Magnets \cup ForeignWords \subseteq Words
  /\ \A r \in Replies : Len(r) <= Word
  /\ \A h \in ServiceIds : h \in Seq(Chars) /\ Len(h) <= Word
  /\ Sizes \subseteq Nat

VARIABLES
  logs,     \* the logs on the chain, each with the call that made it
  events    \* what parse() made of them at a node, up to the first for which it raised

vars == <<logs, events>>

Raised == [raised |-> TRUE]

-----------------------------------------------------------------------------
(* eth_abi: of the values that fit only short byte strings change.          *)

Padded(b) == [i \in 1 .. Word |-> IF i <= Len(b) THEN b[i] ELSE Nul]

Encoded(type, v) == IF type = "bytes32" THEN Padded(v) ELSE v

Fits(type, v) == type = "uint32" => v <= MaxUint32

-----------------------------------------------------------------------------
(* Event classes.                                                           *)

\* A field of a dataclass: event_field(), or one made from the ABI (as = "").
Field(name, type, indexed, as) == [name |-> name, type |-> type, indexed |-> indexed, as |-> as]

Publication(words_as) ==
  << Field("replyTo", "bytes32", TRUE, words_as), Field("magnet", "bytes32", TRUE, words_as),
     Field("source", "address", FALSE, ""), Field("size", "uint256", FALSE, ""),
     Field("retention", "uint32", FALSE, "") >>

NewPeer(hostname_as) ==
  << Field("addr", "address", FALSE, ""), Field("hostname", "bytes32", FALSE, hostname_as) >>

Award == << Field("magnet", "bytes32", TRUE, ""), Field("source", "address", FALSE, ""),
            Field("amount", "uint256", FALSE, "") >>

\* The ABI; Award stands for the events that have no class of their own.
AbiEvents == [Publication |-> Publication(""), NewPeer |-> NewPeer(""), Award |-> Award]

\* event_types: the classes of events.py and, for the other events, classes made from the ABI.
EventTypes == [Publication |-> Publication("hex"), NewPeer |-> NewPeer("ascii"), Award |-> Award]

SignatureHash(name, cls) == <<name, [i \in DOMAIN cls |-> cls[i].type]>>

\* The fields that are in the topics, or in the data, in their order.
Columns(cls, indexed) ==
  LET at == { i \in DOMAIN cls : cls[i].indexed = indexed }
  IN [k \in 1 .. Cardinality(at) |->
        cls[CHOOSE i \in at : Cardinality({ j \in at : j < i }) = k - 1]]

\* Without the zeros at its end.
Stripped(b) ==
  SubSeq(b, 1, CHOOSE k \in 0 .. Word : (k = 0 \/ b[k] # Nul) /\ \A i \in k + 1 .. Word : b[i] = Nul)

\* Mutant: zeros at the end are stripped from every word.
Decoded_Stripped(f, v) ==
  CASE f.as = "hex" -> [hex |-> Stripped(v)] [] f.as = "ascii" -> [ascii |-> Stripped(v)] [] OTHER -> v

\* Field transformations: .hex(), and .decode('ascii').rstrip('\x00').
Decoded(f, v) ==
  CASE f.as = "hex" -> [hex |-> v] [] f.as = "ascii" -> [ascii |-> Stripped(v)] [] OTHER -> v

IsAscii(b) == \A i \in DOMAIN b : b[i] # Other

\* The place of a field of a name.
Place(cls, n) == CHOOSE i \in DOMAIN cls : cls[i].name = n

\* decode_single of a topic, or an element of decode_abi of the data.
ValueOf(cls, event, n) ==
  IF cls[Place(cls, n)].indexed THEN event.topics[1 + Place(Columns(cls, TRUE), n)]
                                ELSE event.data[Place(Columns(cls, FALSE), n)]

\* from_event
FromEvent(cls, event) ==
  IF \A i \in DOMAIN cls : cls[i].as = "ascii" => IsAscii(ValueOf(cls, event, cls[i].name))
  THEN [n \in { cls[i].name : i \in DOMAIN cls } |->
          Decoded(cls[Place(cls, n)], ValueOf(cls, event, n))]
  ELSE Raised

\* Contract.parse: the class with the signature of the first topic, or a KeyError.
Parse(event) ==
  LET known == { n \in DOMAIN EventTypes : SignatureHash(n, EventTypes[n]) = event.topics[1] }
  IN IF known = {} THEN Raised ELSE FromEvent(EventTypes[CHOOSE n \in known : TRUE], event)

\* topics() and data(): what a contract emits.
Event(name, values) ==
  LET cls == AbiEvents[name]
      Row(fs) == [i \in DOMAIN fs |-> Encoded(fs[i].type, values[fs[i].name])]
  IN [topics |-> <<SignatureHash(name, cls)>> \o Row(Columns(cls, TRUE)),
      data |-> Row(Columns(cls, FALSE))]

-----------------------------------------------------------------------------
(* Method calls.                                                            *)

Input(name, type) == [name |-> name, type |-> type]

\* contract_methods: every definition of a name, in the order of the ABI.
Methods ==
  [post |->
     << << Input("replyTo", "bytes32"), Input("magnet", "bytes32"), Input("size", "uint256"),
           Input("author", "address"), Input("retention", "uint32") >>,
        << Input("magnet", "bytes32"), Input("size", "uint32") >>,
        << Input("replyTo", "bytes32"), Input("magnet", "bytes32"), Input("size", "uint32") >> >>,
   register |-> << << Input("hostname", "bytes32") >> >>]

\* select_abi: the definition with exactly the names given.  (One with as many
\* inputs of other names raises a KeyError, none a RuntimeError.)
Selected(abi_list, args) ==
  { k \in DOMAIN abi_list : DOMAIN args = { abi_list[k][i].name : i \in DOMAIN abi_list[k] } }

\* ContractMethod.__call__: the signature and the encoded arguments, in its order.
CallData(method, args) ==
  LET fit == Selected(Methods[method], args)
      abi == Methods[method][CHOOSE k \in fit : \A j \in fit : k <= j]
  IN IF fit = {} \/ \E i \in DOMAIN abi : ~Fits(abi[i].type, args[abi[i].name])
     THEN Raised
     ELSE [method |-> method, abi |-> abi,
           arguments |-> [i \in DOMAIN abi |-> Encoded(abi[i].type, args[abi[i].name])]]

\* What a contract emits for a call: its arguments, as it decodes them, where it was
\* given any.
Executed(data) ==
  LET given == { data.abi[i].name : i \in DOMAIN data.abi }
      Arg(n, default) == IF n \in given THEN data.arguments[Place(data.abi, n)] ELSE default
  IN IF data.method = "register"
     THEN Event("NewPeer", [addr |-> "sender", hostname |-> Arg("hostname", <<>>)])
     ELSE Event("Publication",
                [replyTo |-> Arg("replyTo", <<>>), magnet |-> Arg("magnet", <<>>),
                 source |-> Arg("author", "sender"), size |-> Arg("size", 0),
                 retention |-> Arg("retention", 1)])

\* WebAppInterface.publish: "no reply" is the string '0'.
Zero == <<1>>

\* PostService.post
Posts ==
  { [method |-> "post", own |-> TRUE,
     args |-> [replyTo |-> r, magnet |-> m, size |-> s, author |-> "account", retention |-> 1]] :
    r \in {Zero}, m \in Magnets, s \in Sizes }

\* AnnouncementService.announce_peer
Announcements ==
  { [method |-> "register", own |-> TRUE, args |-> [hostname |-> h]] : h \in ServiceIds }

\* Calls of other programs, by this class or another.
ForeignCalls ==
  LET Foreign(method, args) == [method |-> method, own |-> FALSE, args |-> args]
  IN { Foreign("post", [replyTo |-> r, magnet |-> m, size |-> s]) :
         r \in Replies, m \in Magnets, s \in Sizes }
     \cup { Foreign("post", [magnet |-> m, size |-> s]) : m \in Magnets, s \in Sizes }
     \cup { Foreign("post", [magnet |-> m]) : m \in Magnets }
     \cup { Foreign("register", [hostname |-> h]) : h \in ForeignWords }

-----------------------------------------------------------------------------
Init == logs = <<>> /\ events = <<>>

\* A call whose transaction was mined.
Call(c) ==
  /\ Len(logs) < MaxLogs
  /\ CallData(c.method, c.args) # Raised
  /\ logs' = Append(logs, [call |-> c, event |-> Executed(CallData(c.method, c.args))])
  /\ UNCHANGED events

\* Somebody pays an award: an event nobody subscribes to, which is decoded as well.
PayAward(m) ==
  /\ Len(logs) < MaxLogs
  /\ logs' = Append(logs, [call |-> [method |-> "award", own |-> FALSE],
                           event |-> Event("Award", [magnet |-> m, source |-> "sender", amount |-> 1])])
  /\ UNCHANGED events

\* The polling task of a node decodes the next log.  An exception is its end.
Read ==
  /\ Len(events) < Len(logs)
  /\ \A k \in DOMAIN events : events[k] # Raised
  /\ events' = Append(events, Parse(logs[Len(events) + 1].event))
  /\ UNCHANGED logs

Next ==
  \/ \E c \in Posts \cup Announcements \cup ForeignCalls : Call(c)
  \/ \E m \in Magnets : PayAward(m)
  \/ Read

Spec == Init /\ [][Next]_vars

-----------------------------------------------------------------------------
Called(method) == { k \in DOMAIN events : logs[k].call.method = method }

\* Every post arrives at every node as it was made, whichever of the three overloads
\* the caller used: the magnet to its last byte, though it may end in zeros, the
\* magnet it replies to, and the number that was given as its size.
AsPosted ==
  \A k \in Called("post") :
    LET args == logs[k].call.args
    IN /\ events[k] # Raised
       /\ events[k].magnet = [hex |-> args.magnet]
       /\ events[k].size = args.size
       /\ events[k].replyTo = [hex |-> IF "replyTo" \in DOMAIN args THEN Padded(args.replyTo)
                                                                    ELSE Padded(<<>>)]

\* The address of a hidden service that a node announced is what all nodes will
\* ask, although the contract keeps it in a word of fixed length.
AsAnnounced ==
  \A k \in Called("register") :
    logs[k].call.own => events[k] = [addr |-> "sender", hostname |-> [ascii |-> logs[k].call.args.hostname]]

\* What ends the polling of a node is never anything a node did: only a foreign
\* hostname that is no ascii.
NodesReadEachOther ==
  \A k \in DOMAIN events :
    events[k] = Raised => k \in Called("register") /\ ~logs[k].call.own

\* What nodes send to the contracts is what all nodes read.
ReadAsSent == AsPosted /\ AsAnnounced /\ NodesReadEachOther
=============================================================================
