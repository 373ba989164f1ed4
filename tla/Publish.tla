------------------------------ MODULE Publish -------------------------------
(***************************************************************************)
(* Publishing a draft: the handlers create_post and publish of the web API  *)
(* (sarafan/web/handlers.py), WebAppInterface.publish (sarafan/app.py) and  *)
(* PostService.post (sarafan/contract/post_service.py).  Beside the calls,  *)
(* AnnouncementService (contract/announcement_service.py) registers the     *)
(* node's address once per start, after the hidden service                  *)
(* (onion/controller.py) got one.  All of them sign with one account.       *)
(*                                                                          *)
(* A call suspends at its three requests to the Ethereum node (gas price,   *)
(* transaction count, raw transaction).  The node may accept a transaction  *)
(* whose answer comes late or never.  From that answer on the call runs     *)
(* without suspending: no other coroutine steps in, but each of its steps   *)
(* may raise, and the process may die between any two of them.              *)
(***************************************************************************)
EXTENDS Naturals, Sequences, FiniteSets

CONSTANTS
  Magnets,     \* what drafts are published
  Calls,       \* web requests that may run at the same time
  MaxCreated,  \* bound: drafts created
  MaxTx,       \* bound: transactions of the account
  MaxCrashes,  \* bound: crashes of the process
  Strangers    \* may store() be called for a magnet that is being published here?

ASSUME PublishAssumption ==
  /\ MaxCreated \in Nat /\ MaxTx \in Nat /\ MaxCrashes \in Nat
  /\ Strangers \in BOOLEAN

VARIABLES
  call,          \* the locals of every call
  drafts,        \* draft files, by the magnet in their name
  directories,   \* directories of the content path, one per magnet
  placed,        \* content files in place
  announced,     \* history: DownloadFinished events that publish() emitted, per magnet
  cut,           \* history: magnets whose publish() died before it emitted the event
  downloaded,    \* history: magnets whose DownloadFinished came from a download, too
  service_id,    \* HiddenServiceController.service_id, or NoAddress
  pool, mined,   \* external: the account's transactions, nonce -> payload and price;
                 \*   those of the chain, in the order of their nonces
  accepted,      \* history: payloads of the transactions the node accepted
  crashes

chainVars == <<pool, mined, accepted>>
fileVars == <<drafts, directories, placed, announced, cut, downloaded>>
vars == <<call, fileVars, service_id, chainVars, crashes>>

Prices == {1, 2}
Idle == [pc |-> "idle"]
NoTx == [payload |-> <<>>, price |-> 0]
Nonces == 1 .. MaxTx

\* The task announce_peer, beside the web requests.
Announcer == "announce_peer"
Callers == Calls \cup {Announcer}

\* Addresses are numbered by the start of the process that made them: the keys
\* are not kept, so every start makes another.
NoAddress == 0
Address == crashes + 1
Registration(address) == <<"register", address>>
Registrations == { Registration(a) : a \in NoAddress .. MaxCrashes + 1 }

ASSUME PayloadsDiffer ==
  /\ Announcer \notin Calls
  /\ Magnets \cap Registrations = {}

\* The callers when the process starts.
Started == [c \in Callers |-> IF c = Announcer THEN [pc |-> "waiting"] ELSE Idle]

Init ==
  /\ call = Started
  /\ service_id = NoAddress
  /\ drafts = {} /\ directories = {} /\ placed = {}
  /\ announced = [m \in Magnets |-> 0]
  /\ cut = {} /\ downloaded = {}
  /\ pool = [n \in Nonces |-> NoTx]
  /\ mined = <<>>
  /\ accepted = {}
  /\ crashes = 0

-----------------------------------------------------------------------------
(* The requests to the node, of publish() and of announce_peer alike.       *)

\* Mutant: announce_peer is a periodic task.
AfterCall_Periodic(c) == Started[c]

\* A request returns; announce_peer, `@task(periodic=False)`, is over for this start.
AfterCall(c) == IF c = Announcer THEN [pc |-> "over"] ELSE Idle

\* eth_gasPrice
GasPrice(c) ==
  /\ call[c].pc = "price"
  /\ \E p \in Prices :
       call' = [call EXCEPT ![c] = [pc |-> "nonce", payload |-> @.payload, price |-> p]]
  /\ UNCHANGED <<fileVars, service_id, chainVars, crashes>>

Pending == { n \in Nonces : pool[n] # NoTx }

\* eth_getTransactionCount with the tag "pending"; nonces are counted from 1 here.
NextNonce == Len(mined) + Cardinality(Pending) + 1

TransactionCount(c) ==
  /\ call[c].pc = "nonce"
  /\ LET nonce == NextNonce
     IN /\ nonce \in Nonces
        /\ call' = [call EXCEPT ![c] =
             [pc |-> "send", payload |-> @.payload, price |-> @.price, nonce |-> nonce]]
  /\ UNCHANGED <<fileVars, service_id, chainVars, crashes>>

\* eth_sendRawTransaction at the node: a free nonce is taken, a pending transaction
\* is replaced by one with a higher price, and anything else is refused.
NodeTakes(c) ==
  /\ call[c].pc = "send"
  /\ call[c].nonce > Len(mined)
  /\ call[c].price > pool[call[c].nonce].price
  /\ pool' = [pool EXCEPT ![call[c].nonce] =
       [payload |-> call[c].payload, price |-> call[c].price]]
  /\ accepted' = accepted \cup {call[c].payload}
  /\ call' = [call EXCEPT ![c] = [pc |-> "sent", payload |-> @.payload]]
  /\ UNCHANGED <<fileVars, service_id, mined, crashes>>

\* A request to the node raises: EthereumNodeException or a lost connection,
\* be it before or after the node took the transaction.
NodeFails(c) ==
  /\ call[c].pc \in {"price", "nonce", "send", "sent"}
  /\ call' = [call EXCEPT ![c] = AfterCall(c)]
  /\ UNCHANGED <<fileVars, service_id, chainVars, crashes>>

Mine ==
  /\ Len(mined) + 1 \in Pending
  /\ mined' = Append(mined, pool[Len(mined) + 1].payload)
  /\ pool' = [pool EXCEPT ![Len(mined) + 1] = NoTx]
  /\ UNCHANGED <<call, fileVars, service_id, accepted, crashes>>

-----------------------------------------------------------------------------
(* Publishing.                                                              *)

\* create_post without a key, for a text never seen before: the nonce in a
\* bundle makes every draft a new one.
CreateDraft(m) ==
  /\ Cardinality(drafts \cup placed) < MaxCreated
  /\ m \notin drafts \cup placed
  /\ drafts' = drafts \cup {m}
  /\ UNCHANGED <<call, directories, placed, announced, cut, downloaded, service_id, chainVars,
                 crashes>>

\* publish(), reached from /api/publish or from create_post itself; the size of
\* the draft is taken first, which raises if the draft is gone.
Begin(c, m) ==
  /\ call[c].pc = "idle"
  /\ m \in drafts
  /\ call' = [call EXCEPT ![c] = [pc |-> "price", payload |-> m]]
  /\ UNCHANGED <<fileVars, service_id, chainVars, crashes>>

\* Mutant: the file is put in place by the call that was refused, too.
MayFinish_Refused(c) == call[c].pc \in {"send", "sent"}

\* The node answered that it took the transaction.
MayFinish(c) == call[c].pc = "sent"

\* The size of the draft is taken again, and mkdir(parents=True) raises if the
\* directory is there.
MakesDirectory(m) == m \in drafts /\ m \notin directories

\* The answer of the node.  The row of sarafan_publications that is stored, too, is
\* read by nobody.
MakeDirectory(c) ==
  /\ MayFinish(c)
  /\ MakesDirectory(call[c].payload)
  /\ directories' = directories \cup {call[c].payload}
  /\ call' = [call EXCEPT ![c] = [pc |-> "made", payload |-> @.payload]]
  /\ UNCHANGED <<drafts, placed, announced, cut, downloaded, service_id, chainVars, crashes>>

\* The draft is gone, or its directory is there or cannot be made: the call ends.
DirectoryRaises(c) ==
  /\ call[c].pc = "sent"
  /\ call' = [call EXCEPT ![c] = AfterCall(c)]
  /\ UNCHANGED <<fileVars, service_id, chainVars, crashes>>

\* Mutant: the draft is copied.
Rename_Copy(m) == UNCHANGED drafts /\ placed' = placed \cup {m}

\* os.rename
Rename(m) == drafts' = drafts \ {m} /\ placed' = placed \cup {m}

MoveDraft(c) ==
  /\ call[c].pc = "made"
  /\ Rename(call[c].payload)
  /\ call' = [call EXCEPT ![c] = [pc |-> "moved", payload |-> @.payload]]
  /\ UNCHANGED <<directories, announced, cut, downloaded, service_id, chainVars, crashes>>

\* DownloadFinished is emitted; what the call does then does not concern the file.
EmitFinished(c) ==
  /\ call[c].pc = "moved"
  /\ announced' = [announced EXCEPT ![call[c].payload] = @ + 1]
  /\ call' = [call EXCEPT ![c] = AfterCall(c)]
  /\ UNCHANGED <<drafts, directories, placed, cut, downloaded, service_id, chainVars, crashes>>

\* os.rename raises: the call ends, and its directory stays.
MoveRaises(c) ==
  /\ call[c].pc = "made"
  /\ call' = [call EXCEPT ![c] = AfterCall(c)]
  /\ UNCHANGED <<fileVars, service_id, chainVars, crashes>>

\* store() is called for a magnet of the chain, by a download or an upload; what it
\* receives is not the content, and only the directory remains.
StoreAttempt(m) ==
  /\ Strangers
  /\ \E i \in DOMAIN mined : mined[i] = m
  /\ directories' = directories \cup {m}
  /\ UNCHANGED <<call, drafts, placed, announced, cut, downloaded, service_id, chainVars, crashes>>

\* The Publication event of the node's own post made it search and download it, from a
\* peer that has it by now or from itself: DownloadFinished is emitted (again).
DownloadOwn(m) ==
  /\ Strangers
  /\ m \in placed
  /\ \E i \in DOMAIN mined : mined[i] = m
  /\ downloaded' = downloaded \cup {m}
  /\ UNCHANGED <<call, drafts, directories, placed, announced, cut, service_id, chainVars, crashes>>

-----------------------------------------------------------------------------
(* Announcing the node.                                                     *)

\* HiddenServiceController.start: Tor makes the address.
CreateHiddenService ==
  /\ service_id = NoAddress
  /\ service_id' = Address
  /\ UNCHANGED <<call, fileVars, chainVars, crashes>>

\* get_service_id returns; announce_peer builds the transaction data.
AnnouncePeer ==
  /\ call[Announcer].pc = "waiting"
  /\ service_id # NoAddress
  /\ call' = [call EXCEPT ![Announcer] = [pc |-> "price", payload |-> Registration(service_id)]]
  /\ UNCHANGED <<fileVars, service_id, chainVars, crashes>>

\* The node's answer: announce_peer returns.
FinishAnnounce ==
  /\ call[Announcer].pc = "sent"
  /\ call' = [call EXCEPT ![Announcer] = AfterCall(Announcer)]
  /\ UNCHANGED <<fileVars, service_id, chainVars, crashes>>

Crash ==
  /\ crashes < MaxCrashes
  /\ crashes' = crashes + 1
  /\ cut' = cut \cup { m \in placed : \E c \in Calls : call[c].pc = "moved" /\ call[c].payload = m }
  /\ call' = Started
  /\ service_id' = NoAddress
  /\ UNCHANGED <<drafts, directories, placed, announced, downloaded, chainVars>>

\* Past the node's answer: the call has the event loop to itself.
Busy(c) == call[c].pc \in {"made", "moved"}

Resting == \A c \in Calls : ~Busy(c)

Coroutines ==
  \/ \E m \in Magnets : CreateDraft(m) \/ StoreAttempt(m) \/ DownloadOwn(m)
  \/ \E c \in Calls, m \in Magnets : Begin(c, m)
  \/ \E c \in Callers : GasPrice(c) \/ TransactionCount(c) \/ NodeFails(c)
  \/ \E c \in Calls : MakeDirectory(c) \/ DirectoryRaises(c)
  \/ CreateHiddenService \/ AnnouncePeer \/ FinishAnnounce

Next ==
  \/ Resting /\ Coroutines
  \/ \E c \in Calls : MoveDraft(c) \/ MoveRaises(c) \/ EmitFinished(c)
  \/ \E c \in Callers : NodeTakes(c)
  \/ Mine
  \/ Crash

Spec == Init /\ [][Next]_vars

-----------------------------------------------------------------------------
\* Types, and the pool holds the account's transactions after the mined ones
\* without a gap: the nonce a call signs with is next or was next.
TypeOK ==
  /\ \A c \in Callers :
       /\ call[c].pc \in {"price", "nonce", "send", "sent"}
            \cup IF c = Announcer THEN {"waiting", "over"} ELSE {"idle", "made", "moved"}
       /\ call[c].pc = "send" => call[c].nonce <= Len(mined) + Cardinality(Pending) + 1
  /\ drafts \subseteq Magnets /\ placed \subseteq directories
  /\ directories \subseteq Magnets
  /\ announced \in [Magnets -> Nat]
  /\ cut \subseteq placed /\ downloaded \subseteq placed
  /\ Pending = (Len(mined) + 1) .. (Len(mined) + Cardinality(Pending))
  /\ service_id \in {NoAddress, Address}
  /\ mined \in Seq(Magnets \cup Registrations) /\ accepted \subseteq Magnets \cup Registrations

\* However often a draft is published, by calls that run at once or after a failure
\* or a crash, its file is in one place: never is there a second copy of it, and
\* publish() announces it at most once, and only in its place.  Once it is there it is
\* announced, but by a publish() that dies between os.rename and emit; that announcement
\* comes, if ever, when the node downloads its own post.  No event of either kind names
\* a file that is not there or not paid for.
AnnouncedOnce ==
  \A m \in Magnets :
    /\ announced[m] = IF \/ m \notin placed \/ m \in cut
                         \/ \E c \in Calls : call[c].pc = "moved" /\ call[c].payload = m
                      THEN 0 ELSE 1
    /\ ~(m \in drafts /\ m \in placed)
    /\ announced[m] > 0 \/ m \in downloaded => m \in placed \cap accepted

\* A file gets in place, and is distributed, only after the node accepted a
\* transaction that pays for it.
PlacedAccepted == placed \subseteq accepted

InPool(x) == { n \in Nonces : pool[n].payload = x }
OnChain(x) == { i \in DOMAIN mined : mined[i] = x }

\* A start of the node pays for at most one registration, and only of an address
\* that the hidden service has got: announce_peer waits for it, and is not run
\* again when the node's answer is late or lost.
RegistersOnce ==
  \A a \in NoAddress .. Address :
    LET x == Registration(a) IN
    /\ Cardinality(InPool(x)) + Cardinality(OnChain(x)) <= 1
    /\ x \in accepted => a # NoAddress /\ (a = Address => service_id = a)
=============================================================================
