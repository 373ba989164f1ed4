----------------------------- MODULE NodeProofs -----------------------------
(***************************************************************************)
(* Properties of a whole node, proved for any number of peers, magnets,     *)
(* handlers and crashes.                                                    *)
(*                                                                          *)
(* PostsHaveFiles speaks of the magnets in a queue, so the invariant says   *)
(* that the queue is a sequence of stored magnets; files are never deleted. *)
(*                                                                          *)
(* NoSecondTry speaks of one download, but whom it asks was decided by the  *)
(* search that goes on with the visited set of the one before.  Hunt says   *)
(* that the search for a magnet is in one place (Alone), so no other one    *)
(* misses who was refused; that who was refused is in its visited set, and  *)
(* its present peer is none of them (Spared); and, as a visited set names   *)
(* objects, that with room in the book nobody gets a second one (Listed).   *)
(***************************************************************************)
EXTENDS Node, PeeringProofs

IInv == finished_q \in Seq(stored) /\ posts \subseteq stored

LEMMA IInvSame ==
  ASSUME IInv, UNCHANGED <<stored, finished_q, posts>>
  PROVE  IInv'
  BY DEF IInv

LEMMA LoaderStepKeepsIInv ==
  ASSUME IInv, NEW w \in Loaders, LoaderStep(w)
  PROVE  IInv'
<1>1. CASE StartDownload(w) \/ DownloadFails(w) \/ DownloadRaises(w)
  BY <1>1, IInvSame DEF StartDownload, DownloadFails, DownloadRaises
<1>2. CASE DownloadDone(w)
  <2>1. PICK m : /\ stored' = stored \cup {m}
                 /\ finished_q' = Append(finished_q, m)
                 /\ posts' = posts
    BY <1>2 DEF DownloadDone
  <2>2. finished_q \in Seq(stored')
    BY <2>1, SeqMonotonic DEF IInv
  <2> QED
    BY <2>1, <2>2 DEF IInv
<1> QED
  BY <1>1, <1>2 DEF LoaderStep

LEMMA AppStepKeepsIInv ==
  ASSUME IInv, AppStep
  PROVE  IInv'
<1>1. /\ finished_q # <<>> /\ finished_q' = Tail(finished_q) /\ stored' = stored
      /\ posts' \subseteq posts \cup {Head(finished_q)}
  BY DEF AppStep, ProcessFinishedDownload
<1>2. Head(finished_q) \in stored /\ Tail(finished_q) \in Seq(stored)
  BY <1>1 DEF IInv
<1> QED
  BY <1>1, <1>2 DEF IInv

LEMMA StepKeepsIInv ==
  ASSUME IInv, [Next]_vars
  PROVE  IInv'
<1>1. CASE PeeringStep /\ UNCHANGED <<downloadVars, published, seen>>
  BY <1>1, IInvSame DEF downloadVars
<1>2. ASSUME NEW m \in Magnets, Post(m) \/ PublicationEvent(m)
      PROVE  IInv'
  BY <1>2, IInvSame DEF Post, PublicationEvent, ProcessNewPublication, downloadVars
<1>3. ASSUME NEW w \in Loaders, LoaderStep(w)
      PROVE  IInv'
  BY <1>3, LoaderStepKeepsIInv
<1>4. CASE AppStep
  BY <1>4, AppStepKeepsIInv
<1>5. CASE Restart
  BY <1>5 DEF Restart, DownloadCrash, IInv
<1>6. CASE UNCHANGED vars
  BY <1>6, IInvSame DEF vars, downloadVars
<1> QED
  BY <1>1, <1>2, <1>3, <1>4, <1>5, <1>6 DEF Next

\* A magnet is announced as downloaded, and has a post, only when its file is there,
\* however the searches, the downloads and the crashes interleave.
THEOREM FilesBeforePosts == Spec => []PostsHaveFiles
<1>1. Init => IInv
  BY DEF Init, DownloadInit, IInv
<1>2. IInv /\ [Next]_vars => IInv'
  BY StepKeepsIInv
<1>3. IInv => PostsHaveFiles
  BY DEF IInv, PostsHaveFiles, Elements
<1> QED
  BY <1>1, <1>2, <1>3, PTL DEF Spec

-----------------------------------------------------------------------------
(* One search for a magnet.                                                 *)

\* No two entries of a queue, or of another function, are about one magnet.
Once(s) == \A i, j \in DOMAIN s : s[i].magnet = s[j].magnet => i = j

\* The magnets they are about.
Of(s) == { s[i].magnet : i \in DOMAIN s }

\* The entries of t are among those of s, or x.
Part(t, s) == \A i \in DOMAIN t : \E j \in DOMAIN s : t[i] = s[j]
PartOr(t, s, x) == \A i \in DOMAIN t : t[i] = x \/ \E j \in DOMAIN s : t[i] = s[j]

\* The requests under way at the discovery handlers, and the downloads.
Running == [w \in { v \in Workers : Busy(v) } |-> handler[w].request]
Loading == [w \in { v \in Loaders : loader[v] # NoEvent } |-> loader[w]]

\* A magnet is waiting for a discovery, or searched for, or found, or downloaded, and
\* that once; its publication was seen.
Alone ==
  /\ Once(requests) /\ Once(Running) /\ Once(found) /\ Once(Loading)
  /\ Of(requests) \cap Of(Running) = {} /\ Of(requests) \cap Of(found) = {}
  /\ Of(requests) \cap Of(Loading) = {} /\ Of(Running) \cap Of(found) = {}
  /\ Of(Running) \cap Of(Loading) = {} /\ Of(found) \cap Of(Loading) = {}
  /\ Of(requests) \cup Of(Running) \cup Of(found) \cup Of(Loading) \subseteq seen

LEMMA TailOnce ==
  ASSUME NEW S, NEW s \in Seq(S), s # <<>>, NEW t, t = Tail(s), Once(s)
  PROVE  /\ Once(t) /\ Of(t) = Of(s) \ {Head(s).magnet} /\ Head(s).magnet \in Of(s)
         /\ Part(t, s)
<1>1. /\ 1 \in DOMAIN s /\ Head(s) = s[1]
      /\ \A i \in DOMAIN t : i + 1 \in DOMAIN s /\ i + 1 # 1 /\ t[i] = s[i + 1] /\ i \in Int
      /\ \A i \in DOMAIN s : i # 1 => i - 1 \in DOMAIN t /\ t[i - 1] = s[i]
  OBVIOUS
<1>2. Once(t)
  <2> SUFFICES ASSUME NEW i \in DOMAIN t, NEW j \in DOMAIN t, t[i].magnet = t[j].magnet
               PROVE  i = j
    BY DEF Once
  <2>1. i + 1 = j + 1
    BY <1>1 DEF Once
  <2> QED
    BY <1>1, <2>1
<1>3. \A i \in DOMAIN s : s[i].magnet = s[1].magnet => i = 1
  BY <1>1 DEF Once
<1>4. ASSUME NEW m \in Of(t) PROVE m \in Of(s) \ {s[1].magnet}
  <2>1. PICK i \in DOMAIN t : m = t[i].magnet
    BY DEF Of
  <2> QED
    BY <1>1, <1>3, <2>1 DEF Of
<1>5. ASSUME NEW m \in Of(s) \ {s[1].magnet} PROVE m \in Of(t)
  <2>1. PICK i \in DOMAIN s : m = s[i].magnet /\ i # 1
    BY DEF Of
  <2> QED
    BY <1>1, <2>1 DEF Of
<1>6. s[1].magnet \in Of(s) /\ Part(t, s)
  BY <1>1 DEF Of, Part
<1> QED
  BY <1>1, <1>2, <1>4, <1>5, <1>6

LEMMA AppendOnce ==
  ASSUME NEW S, NEW s \in Seq(S), NEW x \in S, NEW t, t = Append(s, x), Once(s), x.magnet \notin Of(s)
  PROVE  /\ Once(t) /\ Of(t) = Of(s) \cup {x.magnet} /\ PartOr(t, s, x)
<1>1. /\ DOMAIN t = DOMAIN s \cup {Len(s) + 1}
      /\ Len(s) + 1 \notin DOMAIN s
      /\ \A i \in DOMAIN s : t[i] = s[i]
      /\ t[Len(s) + 1] = x
  BY AppendFacts
<1>2. \A i \in DOMAIN s : s[i].magnet # x.magnet
  BY DEF Of
<1>3. Once(t)
  BY <1>1, <1>2 DEF Once
<1>4. Of(t) = Of(s) \cup {x.magnet} /\ PartOr(t, s, x)
  BY <1>1 DEF Of, PartOr
<1> QED
  BY <1>1, <1>3, <1>4

\* A handler gets its first request, loses its request, or goes on with it.
LEMMA EnterOnce ==
  ASSUME NEW f, NEW g, NEW w, DOMAIN g = DOMAIN f \cup {w}, w \notin DOMAIN f, Once(f),
         \A v \in DOMAIN f : g[v].magnet = f[v].magnet, g[w].magnet \notin Of(f)
  PROVE  Once(g) /\ Of(g) = Of(f) \cup {g[w].magnet}
  BY DEF Once, Of

LEMMA LeaveOnce ==
  ASSUME NEW f, NEW g, NEW w \in DOMAIN f, DOMAIN g = DOMAIN f \ {w}, Once(f),
         \A v \in DOMAIN g : g[v].magnet = f[v].magnet
  PROVE  Once(g) /\ Of(g) = Of(f) \ {f[w].magnet} /\ f[w].magnet \in Of(f)
  BY DEF Once, Of

LEMMA StayOnce ==
  ASSUME NEW f, NEW g, DOMAIN g = DOMAIN f, Once(f), \A v \in DOMAIN f : g[v].magnet = f[v].magnet
  PROVE  Once(g) /\ Of(g) = Of(f)
  BY DEF Once, Of

\* What a step of the peering service does to the searches.

Others(w) == \A v \in Workers \ {w} : handler'[v] = handler[v]

\* Handler w asks somebody for request r who was not asked for it.
NextPeer(w, r) ==
  /\ Busy(w)' /\ Others(w)
  /\ handler'[w].request.magnet = r.magnet
  /\ handler'[w].request.visited = r.visited \cup {handler'[w].peer}
  /\ handler'[w].peer \notin r.visited

Finding(w) == [magnet |-> handler[w].request.magnet, peer |-> handler[w].peer,
               visited |-> handler[w].request.visited]

SearchesStay ==
  /\ requests' = requests /\ found' = found
  /\ \A v \in Workers : /\ Busy(v)' <=> Busy(v)
                        /\ handler'[v].request = handler[v].request
                        /\ handler'[v].peer = handler[v].peer

SearchGoesOn(w) ==
  /\ Busy(w) /\ NextPeer(w, handler[w].request)
  /\ requests' = requests /\ found' = found

SearchEnded(w) ==
  /\ Busy(w) /\ ~Busy(w)' /\ Others(w) /\ requests' = requests
  /\ found' = found \/ found' = Append(found, Finding(w))

SearchBegins(w) ==
  /\ ~Busy(w) /\ requests # <<>> /\ requests' = Tail(requests) /\ found' = found
  /\ NextPeer(w, Head(requests)) \/ (~Busy(w)' /\ Others(w))

\* A search that goes on does so with somebody new, or ends.
LEMMA SearchOnMoves ==
  ASSUME Types, NEW o \in Seq(Peer), InBook \subseteq Objs(o), NEW a \in Nat, NEW w \in Workers,
         NEW r \in RequestType(Len(o), a), NEW todo \in SUBSET Objs(o),
         NEW round \in -1 .. max_depth, SearchOn(o, w, r, todo, round)
  PROVE  NextPeer(w, r) \/ (~Busy(w)' /\ Others(w))
<1>1. CASE \E h : Asks(o, a, r, InBook \cup todo, h) /\ handler' = [handler EXCEPT ![w] = h]
  <2>1. PICK h : Asks(o, a, r, InBook \cup todo, h) /\ handler' = [handler EXCEPT ![w] = h]
    BY <1>1
  <2>2. handler'[w] = h /\ Others(w)
    BY <2>1, HandlerUpdate DEF Others
  <2>3. /\ h.pc = "ask" /\ h.request.magnet = r.magnet
        /\ h.request.visited = r.visited \cup {h.peer} /\ h.peer \notin r.visited
    BY <2>1 DEF Asks
  <2> QED
    BY <2>2, <2>3 DEF NextPeer, Busy
<1>2. CASE Finish(w, r, 0)
  <2>1. handler' = [handler EXCEPT ![w] = IdleHandler] /\ IdleHandler.pc = "idle"
    BY <1>2 DEF Finish, IdleHandler
  <2> QED
    BY <2>1, HandlerUpdate DEF Others, Busy
<1> QED
  BY <1>1, <1>2, SearchOnFacts

LEMMA HandlerMoves ==
  ASSUME Types, NEW w \in Workers, HandlerStep(w)
  PROVE  SearchesStay \/ SearchGoesOn(w) \/ SearchEnded(w) \/ SearchBegins(w)
<1>1. ASSUME Busy(w), HeapGrows, UNCHANGED <<peers, peers_by_rating, requests, found>>,
             SearchOn(obj', w, handler[w].request, handler[w].todo, handler[w].round)
      PROVE  SearchGoesOn(w) \/ SearchEnded(w)
  <2>1. /\ handler[w].request \in RequestType(Len(obj), Len(answers))
        /\ handler[w].todo \in SUBSET Objs(obj) /\ handler[w].round \in -1 .. max_depth
        /\ Len(answers) \in Nat /\ Len(obj) \in Nat /\ Len(obj') \in Nat
        /\ Objs(obj) \subseteq Objs(obj')
    BY <1>1, BusyFacts DEF Busy, HeapGrows, Objs
  <2>2. PICK r \in RequestType(Len(obj'), Len(answers)) : r = handler[w].request
    BY <2>1 DEF RequestType, Objs
  <2>3. Book(obj', peers, peers_by_rating) /\ obj' \in Seq(Peer)
    BY <1>1, BookOfLaterHeap DEF Types, HeapGrows
  <2>4. InBook \subseteq Objs(obj')
    BY <2>3, InBookFacts
  <2>5. SearchOn(obj', w, r, handler[w].todo, handler[w].round) /\ handler[w].todo \in SUBSET Objs(obj')
    BY <1>1, <2>1, <2>2
  <2>6. NextPeer(w, r) \/ (~Busy(w)' /\ Others(w))
    BY <2>1, <2>3, <2>4, <2>5, SearchOnMoves
  <2> QED
    BY <1>1, <2>2, <2>6 DEF SearchGoesOn, SearchEnded
<1>2. ASSUME Busy(w), handler' = [handler EXCEPT ![w] = IdleHandler], requests' = requests,
             found' = found \/ found' = Append(found, Finding(w))
      PROVE  SearchEnded(w)
  <2>1. IdleHandler.pc = "idle"
    BY DEF IdleHandler
  <2> QED
    BY <1>2, <2>1, HandlerUpdate DEF SearchEnded, Busy, Others
<1>3. CASE StartDiscovery(w)
  <2>1. /\ ~Busy(w) /\ requests # <<>> /\ requests' = Tail(requests) /\ found' = found
        /\ SearchOn(obj, w, Head(requests), {}, -1)
    BY <1>3 DEF StartDiscovery, Busy
  <2>2. PICK r \in RequestType(Len(obj), Len(answers)) : r = Head(requests)
    BY <2>1 DEF Types
  <2>3. InBook \subseteq Objs(obj) /\ Len(answers) \in Nat /\ obj \in Seq(Peer)
    BY InBookFacts DEF Types
  <2>4. -1 \in -1 .. max_depth /\ {} \in SUBSET Objs(obj)
    BY PeeringAssumption
  <2>5. NextPeer(w, r) \/ (~Busy(w)' /\ Others(w))
    BY <2>1, <2>2, <2>3, <2>4, SearchOnMoves
  <2> QED
    BY <2>1, <2>2, <2>5 DEF SearchBegins
<1>4. CASE DiscoverAnswered(w) \/ Learn(w)
  <2>1. requests' = requests /\ found' = found
    BY <1>4 DEF DiscoverAnswered, Learn, busVars
  <2> QED
    BY <1>4, <2>1, NearSame DEF SearchesStay
<1>5. CASE PeerFails(w)
  <2>1. /\ Busy(w) /\ Rate(handler[w].peer, -2)
        /\ SearchOn(obj', w, handler[w].request, handler[w].todo, handler[w].round)
        /\ UNCHANGED <<peers, peers_by_rating, requests, found>>
    BY <1>5 DEF PeerFails, Busy
  <2>2. HeapGrows
    BY <2>1, BusyFacts, RateFacts DEF Busy
  <2> QED
    BY <1>1, <2>1, <2>2
<1>6. CASE DiscoverMalformed(w)
  <2>1. Busy(w) /\ handler' = [handler EXCEPT ![w] = IdleHandler] /\ requests' = requests /\ found' = found
    BY <1>6 DEF DiscoverMalformed, Finish, Busy
  <2> QED
    BY <1>2, <2>1
<1>7. CASE HasMagnet(w)
  <2>1. /\ Busy(w) /\ handler' = [handler EXCEPT ![w] = IdleHandler] /\ requests' = requests
        /\ found' = Append(found, Finding(w))
    BY <1>7 DEF HasMagnet, Finish, Busy, Finding
  <2> QED
    BY <1>2, <2>1
<1>8. CASE HasNoMagnet(w)
  <2>1. /\ Busy(w)
        /\ SearchOn(obj, w, handler[w].request, handler[w].todo, handler[w].round)
        /\ UNCHANGED <<obj, peers, peers_by_rating, requests, found>>
    BY <1>8 DEF HasNoMagnet, Busy, bookVars
  <2>2. SearchOn(obj', w, handler[w].request, handler[w].todo, handler[w].round) /\ HeapGrows
    BY <2>1, SameHeap
  <2> QED
    BY <1>1, <2>1, <2>2
<1> QED
  BY <1>3, <1>4, <1>5, <1>6, <1>7, <1>8 DEF HandlerStep

LEMMA PeeringMoves ==
  ASSUME Types, PeeringStep
  PROVE  SearchesStay \/ \E w \in Workers : SearchGoesOn(w) \/ SearchEnded(w) \/ SearchBegins(w)
<1>1. ASSUME NEW s \in Sids, HandleNewPeer(s) PROVE SearchesStay
  BY <1>1 DEF HandleNewPeer, busVars, SearchesStay, Busy
<1>2. CASE HandlePeer \/ StorePeer \/ RestorePeers
  BY <1>2 DEF HandlePeer, StorePeer, RestorePeers, SearchesStay, Busy
<1> QED
  BY <1>1, <1>2, HandlerMoves DEF PeeringStep

-----------------------------------------------------------------------------
(* Nobody a download failed from is asked again.                            *)

\* The peers that failed for the magnet of x: all of them were visited, and the one
\* that x is about is another.
Kept(x) == \A t \in refused : t[1] = x.magnet => t[2] \in x.visited
Apart(x) == Kept(x) /\ \A t \in refused : t[1] = x.magnet => t[2] # x.peer

Spared ==
  /\ \A t \in refused : t[1] \in seen
  /\ \A i \in DOMAIN requests : Kept(requests[i])
  /\ \A w \in Workers : Busy(w) => Apart(Finding(w))
  /\ \A i \in DOMAIN found : Apart(found[i])
  /\ \A w \in Loaders : loader[w] # NoEvent => Apart(loader[w])

\* The four stages of a search have different magnets, all of them seen.
Stages(a, b, c, d, s) ==
  /\ a \cap b = {} /\ a \cap c = {} /\ a \cap d = {}
  /\ b \cap c = {} /\ b \cap d = {} /\ c \cap d = {}
  /\ a \cup b \cup c \cup d \subseteq s

LEMMA AloneStages ==
  Alone <=> /\ Once(requests) /\ Once(Running) /\ Once(found) /\ Once(Loading)
            /\ Stages(Of(requests), Of(Running), Of(found), Of(Loading), seen)
  BY DEF Alone, Stages

\* The handlers before and after: the magnets of all but w stay.
LEMMA RunningStays ==
  ASSUME Alone, \A v \in Workers : (Busy(v)' <=> Busy(v)) /\ (Busy(v) => handler'[v].request.magnet = handler[v].request.magnet)
  PROVE  Once(Running') /\ Of(Running') = Of(Running)
<1>1. /\ DOMAIN Running' = DOMAIN Running
      /\ \A v \in DOMAIN Running : Running'[v].magnet = Running[v].magnet
  BY DEF Running
<1> QED
  BY <1>1, StayOnce DEF Alone

LEMMA RunningLeaves ==
  ASSUME Alone, NEW w \in Workers, Busy(w), ~Busy(w)', Others(w)
  PROVE  /\ Once(Running') /\ Of(Running') = Of(Running) \ {handler[w].request.magnet}
         /\ handler[w].request.magnet \in Of(Running)
<1>1. /\ w \in DOMAIN Running /\ DOMAIN Running' = DOMAIN Running \ {w}
      /\ \A v \in DOMAIN Running' : Running'[v].magnet = Running[v].magnet
      /\ Running[w].magnet = handler[w].request.magnet
  BY DEF Running, Others, Busy
<1>2. Once(Running)
  BY DEF Alone
<1> QED
  BY <1>1, <1>2, LeaveOnce

LEMMA RunningEnters ==
  ASSUME Alone, NEW w \in Workers, ~Busy(w), Busy(w)', Others(w),
         handler'[w].request.magnet \notin Of(Running)
  PROVE  Once(Running') /\ Of(Running') = Of(Running) \cup {handler'[w].request.magnet}
<1>1. /\ w \notin DOMAIN Running /\ DOMAIN Running' = DOMAIN Running \cup {w}
      /\ \A v \in DOMAIN Running : Running'[v].magnet = Running[v].magnet
      /\ Running'[w].magnet = handler'[w].request.magnet
  BY DEF Running, Others, Busy
<1>2. Once(Running)
  BY DEF Alone
<1> QED
  BY <1>1, <1>2, EnterOnce

\* A search starts, goes on or ends at a handler: the others are where they were.
LEMMA SearchesKeepAlone ==
  ASSUME Types, Alone, PeeringStep, UNCHANGED <<downloadVars, seen>>
  PROVE  Alone'
<1>1. Loading' = Loading /\ seen' = seen
  BY DEF Loading, downloadVars
<1>2. CASE SearchesStay
  <2>1. Once(Running') /\ Of(Running') = Of(Running) /\ requests' = requests /\ found' = found
    BY <1>2, RunningStays DEF SearchesStay
  <2> QED
    BY <1>1, <2>1 DEF Alone
<1>3. ASSUME NEW w \in Workers, SearchGoesOn(w)
      PROVE  Alone'
  <2>1. Once(Running') /\ Of(Running') = Of(Running) /\ requests' = requests /\ found' = found
    <3>1. \A v \in Workers : (Busy(v)' <=> Busy(v)) /\ (Busy(v) => handler'[v].request.magnet = handler[v].request.magnet)
      BY <1>3 DEF SearchGoesOn, NextPeer, Others, Busy
    <3> QED
      BY <1>3, <3>1, RunningStays DEF SearchGoesOn
  <2> QED
    BY <1>1, <2>1 DEF Alone
<1>4. ASSUME NEW w \in Workers, SearchEnded(w)
      PROVE  Alone'
  <2> DEFINE m == handler[w].request.magnet
  <2>1. /\ Once(Running') /\ Of(Running') = Of(Running) \ {m} /\ m \in Of(Running)
        /\ requests' = requests
    BY <1>4, RunningLeaves DEF SearchEnded
  <2>2. Once(found') /\ (Of(found') = Of(found) \/ Of(found') = Of(found) \cup {m})
    <3>1. CASE found' = found
      BY <3>1 DEF Alone
    <3>2. CASE found' = Append(found, Finding(w))
      <4>1. /\ Finding(w).magnet = m /\ m \notin Of(found) /\ Once(found)
            /\ Busy(w)
        BY <1>4, <2>1 DEF Finding, Alone, SearchEnded
      <4>2. \E T : found \in Seq(T) /\ Finding(w) \in T
        <5>1. handler[w].peer \in Objs(obj) /\ handler[w].peer \in handler[w].request.visited
              /\ handler[w].request \in RequestType(Len(obj), Len(answers))
          BY <4>1, BusyFacts DEF Busy
        <5>2. Finding(w) \in FoundType(Len(obj))
          BY <5>1 DEF Finding, FoundType, RequestType, Objs
        <5> QED
          BY <5>2 DEF Types
      <4>3. PICK T : found \in Seq(T) /\ Finding(w) \in T
        BY <4>2
      <4> HIDE DEF m
      <4> QED
        BY <3>2, <4>1, <4>3, AppendOnce
    <3> QED
      BY <1>4, <3>1, <3>2 DEF SearchEnded
  <2> HIDE DEF m
  <2>3. Stages(Of(requests'), Of(Running'), Of(found'), Of(Loading'), seen')
    BY <1>1, <2>1, <2>2 DEF Stages, Alone
  <2> QED
    BY <1>1, <2>1, <2>2, <2>3 DEF Stages, Alone
<1>5. ASSUME NEW w \in Workers, SearchBegins(w)
      PROVE  Alone'
  <2> DEFINE m == Head(requests).magnet
  <2>1. /\ ~Busy(w) /\ requests # <<>> /\ requests' = Tail(requests) /\ found' = found
        /\ NextPeer(w, Head(requests)) \/ (~Busy(w)' /\ Others(w))
    BY <1>5 DEF SearchBegins
  <2>2. Once(requests') /\ Of(requests') = Of(requests) \ {m} /\ m \in Of(requests)
    <3>1. Once(requests) /\ \E T : requests \in Seq(T)
      BY DEF Types, Alone
    <3> QED
      BY <2>1, <3>1, TailOnce
  <2>3. Once(Running') /\ (Of(Running') = Of(Running) \/ Of(Running') = Of(Running) \cup {m})
    <3>1. CASE NextPeer(w, Head(requests))
      <4>1. Busy(w)' /\ Others(w) /\ handler'[w].request.magnet = m /\ m \notin Of(Running)
        BY <2>2, <3>1 DEF NextPeer, Alone
      <4> QED
        BY <2>1, <4>1, RunningEnters
    <3>2. CASE ~Busy(w)' /\ Others(w)
      <4>1. \A v \in Workers : (Busy(v)' <=> Busy(v)) /\ (Busy(v) => handler'[v].request.magnet = handler[v].request.magnet)
        BY <2>1, <3>2 DEF Others, Busy
      <4> QED
        BY <4>1, RunningStays
    <3> QED
      BY <2>1, <3>1, <3>2
  <2> HIDE DEF m
  <2>4. Stages(Of(requests'), Of(Running'), Of(found'), Of(Loading'), seen')
    BY <1>1, <2>1, <2>2, <2>3 DEF Stages, Alone
  <2> QED
    BY <1>1, <2>1, <2>2, <2>3, <2>4 DEF Stages, Alone
<1> QED
  BY <1>2, <1>3, <1>4, <1>5, PeeringMoves

LEMMA SearchesKeepSpared ==
  ASSUME Types, Spared, PeeringStep, UNCHANGED <<downloadVars, seen>>
  PROVE  Spared'
<1>1. refused' = refused /\ seen' = seen /\ loader' = loader
  BY DEF downloadVars
<1>2. \A x : (Kept(x)' <=> Kept(x)) /\ (Apart(x)' <=> Apart(x))
  BY <1>1 DEF Kept, Apart
<1>3. \A w \in Loaders : (loader[w] # NoEvent)' => Apart(loader[w])'
  BY <1>1 DEF Spared, Kept, Apart
<1>4. ASSUME NEW w \in Workers, NEW r, NextPeer(w, r), Kept(r)
      PROVE  Apart(Finding(w))'
  BY <1>1, <1>4 DEF Apart, Kept, Finding, NextPeer
<1>5. ASSUME NEW w \in Workers, Others(w), Busy(w)' => Apart(Finding(w))'
      PROVE  \A v \in Workers : Busy(v)' => Apart(Finding(v))'
  <2> SUFFICES ASSUME NEW v \in Workers, Busy(v)', v # w PROVE Apart(Finding(v))'
    BY <1>5
  <2>1. handler'[v] = handler[v]
    BY <1>5 DEF Others
  <2>2. Busy(v) /\ Apart(Finding(v))
    BY <2>1 DEF Busy, Spared
  <2> QED
    BY <1>1, <2>1, <2>2 DEF Apart, Kept, Finding
<1>6. ASSUME requests' = requests, found' = found, \A v \in Workers : Busy(v)' => Apart(Finding(v))'
      PROVE  Spared'
  BY <1>1, <1>2, <1>3, <1>6 DEF Spared, Kept, Apart
<1>7. CASE SearchesStay
  <2>1. \A v \in Workers : Busy(v)' => Apart(Finding(v))'
    BY <1>1, <1>7 DEF SearchesStay, Spared, Apart, Kept, Finding
  <2> QED
    BY <1>6, <1>7, <2>1 DEF SearchesStay
<1>8. ASSUME NEW w \in Workers, SearchGoesOn(w)
      PROVE  Spared'
  <2>1. Kept(handler[w].request)
    BY <1>8 DEF SearchGoesOn, Spared, Apart, Kept, Finding
  <2>2. Apart(Finding(w))' /\ Others(w)
    BY <1>4, <1>8, <2>1 DEF SearchGoesOn, NextPeer
  <2>3. \A v \in Workers : Busy(v)' => Apart(Finding(v))'
    BY <1>5, <2>2
  <2> QED
    BY <1>6, <1>8, <2>3 DEF SearchGoesOn
<1>9. ASSUME NEW w \in Workers, SearchEnded(w)
      PROVE  Spared'
  <2>1. \A v \in Workers : Busy(v)' => Apart(Finding(v))'
    BY <1>5, <1>9 DEF SearchEnded
  <2>2. \A i \in DOMAIN found' : Apart(found'[i])
    <3>1. CASE found' = found
      BY <3>1 DEF Spared
    <3>2. CASE found' = Append(found, Finding(w))
      <4>1. Apart(Finding(w))
        BY <1>9 DEF SearchEnded, Spared
      <4>2. \A i \in DOMAIN found' : found'[i] = Finding(w) \/ \E j \in DOMAIN found : found'[i] = found[j]
        <5> DEFINE x == Finding(w)
        <5>1. \E T : found \in Seq(T)
          BY DEF Types
        <5> HIDE DEF x
        <5>2. \A i \in DOMAIN Append(found, x) : Append(found, x)[i] = x \/ \E j \in DOMAIN found : Append(found, x)[i] = found[j]
          BY <5>1
        <5> QED
          BY <3>2, <5>2 DEF x
      <4> QED
        BY <4>1, <4>2 DEF Spared
    <3> QED
      BY <1>9, <3>1, <3>2 DEF SearchEnded
  <2>3. requests' = requests
    BY <1>9 DEF SearchEnded
  <2> QED
    BY <1>1, <1>2, <1>3, <2>1, <2>2, <2>3 DEF Spared
<1>10. ASSUME NEW w \in Workers, SearchBegins(w)
       PROVE  Spared'
  <2>1. /\ requests # <<>> /\ requests' = Tail(requests) /\ found' = found
        /\ NextPeer(w, Head(requests)) \/ (~Busy(w)' /\ Others(w))
    BY <1>10 DEF SearchBegins
  <2>2. /\ \A i \in DOMAIN requests' : \E j \in DOMAIN requests : requests'[i] = requests[j]
        /\ \E j \in DOMAIN requests : Head(requests) = requests[j]
    <3>1. \E T : requests \in Seq(T)
      BY DEF Types
    <3>2. \A i \in DOMAIN Tail(requests) : i + 1 \in DOMAIN requests /\ Tail(requests)[i] = requests[i + 1]
      BY <2>1, <3>1
    <3>3. 1 \in DOMAIN requests /\ Head(requests) = requests[1]
      BY <2>1, <3>1
    <3> QED
      BY <2>1, <3>2, <3>3
  <2>3. Kept(Head(requests)) /\ \A i \in DOMAIN requests' : Kept(requests'[i])
    BY <2>2 DEF Spared
  <2>4. Others(w) /\ (Busy(w)' => Apart(Finding(w))')
    BY <1>4, <2>1, <2>3 DEF NextPeer
  <2>5. \A v \in Workers : Busy(v)' => Apart(Finding(v))'
    BY <1>5, <2>4
  <2> QED
    BY <1>1, <1>2, <1>3, <2>1, <2>3, <2>5 DEF Spared
<1> QED
  BY <1>7, <1>8, <1>9, <1>10, PeeringMoves

\* Whoever a download has to do with is in the book.
Loads ==
  /\ DOMAIN loader = Loaders
  /\ \A w \in Loaders : loader[w] # NoEvent =>
       /\ loader[w].magnet \in Magnets /\ loader[w].peer \in loader[w].visited
       /\ loader[w].visited \subseteq InBook

Hunt == Types /\ Open /\ crashes \in Nat /\ Listed /\ Loads /\ Alone /\ Spared

LEMMA Asked ==
  ASSUME Types, Alone, NEW m \in Magnets, NEW visited \in SUBSET (1 .. Len(obj)),
         EmitRequest(m, visited), m \notin Of(requests)
  PROVE  /\ Once(requests') /\ Of(requests') = Of(requests) \cup {m}
         /\ \A i \in DOMAIN requests' :
              \/ requests'[i].magnet = m /\ requests'[i].visited = visited
              \/ \E j \in DOMAIN requests : requests'[i] = requests[j]
<1> DEFINE r == [id |-> Len(answers) + 1, magnet |-> m, visited |-> visited]
<1>1. Len(answers) \in Nat /\ Len(answers) + 1 \in 1 .. Len(answers) + 1
  BY DEF Types
<1>2. r \in RequestType(Len(obj), Len(answers) + 1)
  BY <1>1 DEF RequestType
<1>3. requests \in Seq(RequestType(Len(obj), Len(answers) + 1))
  <2>1. RequestType(Len(obj), Len(answers)) \subseteq RequestType(Len(obj), Len(answers) + 1)
    BY <1>1 DEF RequestType
  <2> QED
    BY <2>1, SeqMonotonic DEF Types
<1>4. requests' = Append(requests, r) /\ r.magnet = m /\ r.visited = visited /\ Once(requests)
  BY DEF EmitRequest, Alone
<1> HIDE DEF r
<1>5. Once(requests') /\ Of(requests') = Of(requests) \cup {m} /\ PartOr(requests', requests, r)
  <2>1. PICK T : requests \in Seq(T) /\ r \in T
    BY <1>2, <1>3
  <2>2. r.magnet \notin Of(requests) /\ Once(requests) /\ requests' = Append(requests, r)
    BY <1>4
  <2>3. Once(requests') /\ Of(requests') = Of(requests) \cup {r.magnet} /\ PartOr(requests', requests, r)
    BY <2>1, <2>2, AppendOnce
  <2> QED
    BY <1>4, <2>3
<1> QED
  BY <1>4, <1>5 DEF PartOr

\* A handler of the downloads is done with what it had.
LEMMA LoadingLeaves ==
  ASSUME Alone, Loads, NEW w \in Loaders, loader[w] # NoEvent, EndHandler(w)
  PROVE  /\ Once(Loading') /\ Of(Loading') = Of(Loading) \ {loader[w].magnet}
         /\ loader[w].magnet \in Of(Loading)
         /\ DOMAIN loader' = Loaders
         /\ \A v \in Loaders : loader'[v] # NoEvent => v # w /\ loader'[v] = loader[v]
<1>1. /\ DOMAIN loader' = Loaders /\ loader'[w] = NoEvent
      /\ \A v \in Loaders \ {w} : loader'[v] = loader[v]
  BY DEF EndHandler, Loads
<1>2. /\ w \in DOMAIN Loading /\ DOMAIN Loading' = DOMAIN Loading \ {w}
      /\ \A v \in DOMAIN Loading' : Loading'[v].magnet = Loading[v].magnet
      /\ Loading[w].magnet = loader[w].magnet
  BY <1>1 DEF Loading
<1>3. Once(Loading)
  BY DEF Alone
<1> QED
  BY <1>1, <1>2, <1>3, LeaveOnce

LEMMA PublicationKeeps ==
  ASSUME Hunt, NEW m \in Magnets, PublicationEvent(m)
  PROVE  Hunt'
<1>1. /\ EmitRequest(m, {}) /\ m \notin seen /\ seen' = seen \cup {m}
      /\ UNCHANGED <<bookVars, store_q, known_q, handler, db_peers, crashes, found, downloadVars>>
  BY DEF PublicationEvent, ProcessNewPublication, peeringOwn
<1>2. found' \in Seq(FoundType(Len(obj))) /\ found' = found /\ {} \in SUBSET (1 .. Len(obj))
  BY <1>1 DEF Hunt, Types
<1>3. Types' /\ Open' /\ Listed' /\ crashes' \in Nat
  <2>1. \A i \in DOMAIN found' : found'[i].visited \subseteq InBook
    BY <1>2 DEF Hunt, Listed
  <2> QED
    BY <1>1, <1>2, <2>1, AskKeeps DEF Hunt
<1>4. loader' = loader /\ refused' = refused /\ InBook' = InBook /\ handler' = handler
  BY <1>1 DEF downloadVars, bookVars, InBook
<1>5. Loads'
  BY <1>4 DEF Hunt, Loads
<1>6. m \notin Of(requests)
  BY <1>1 DEF Hunt, Alone
<1>7. /\ Once(requests') /\ Of(requests') = Of(requests) \cup {m}
      /\ \A i \in DOMAIN requests' :
           \/ requests'[i].magnet = m /\ requests'[i].visited = {}
           \/ \E j \in DOMAIN requests : requests'[i] = requests[j]
  BY <1>1, <1>2, <1>6, Asked DEF Hunt
<1>8. Running' = Running /\ Loading' = Loading
  BY <1>4 DEF Running, Loading, Busy
<1>9. Alone'
  <2>1. Stages(Of(requests'), Of(Running'), Of(found'), Of(Loading'), seen')
    BY <1>1, <1>2, <1>7, <1>8 DEF Stages, Alone, Hunt
  <2> QED
    BY <1>2, <1>7, <1>8, <2>1 DEF Stages, Alone, Hunt
<1>10. Spared'
  <2>1. \A t \in refused : t[1] \in seen /\ t[1] # m
    BY <1>1 DEF Hunt, Spared
  <2>2. \A i \in DOMAIN requests' : Kept(requests'[i])
    BY <1>7, <2>1 DEF Hunt, Spared, Kept
  <2> QED
    BY <1>1, <1>2, <1>4, <2>1, <2>2 DEF Hunt, Spared, Kept, Apart, Finding, Busy
<1> QED
  BY <1>3, <1>5, <1>9, <1>10 DEF Hunt

LEMMA StartDownloadKeeps ==
  ASSUME Hunt, NEW w \in Loaders, StartDownload(w), UNCHANGED <<peeringOwn, seen>>
  PROVE  Hunt'
<1>1. /\ loader[w] = NoEvent /\ found # <<>> /\ found' = Tail(found)
      /\ loader' = [loader EXCEPT ![w] = Head(found)]
      /\ UNCHANGED <<bookVars, requests, store_q, known_q, answers, handler, db_peers, crashes, refused>>
  BY DEF StartDownload, peeringOwn
<1>2. /\ Head(found).magnet \in Magnets /\ found' \in Seq(FoundType(Len(obj)))
      /\ Head(found).visited \subseteq InBook /\ Head(found).peer \in Head(found).visited
      /\ \A i \in DOMAIN found' : found'[i].visited \subseteq InBook
  <2>1. Head(found) \in FoundType(Len(obj))
    BY <1>1 DEF Hunt, Types
  <2> QED
    BY <1>1, <2>1, FoundFacts DEF Hunt, FoundType
<1>3. Types' /\ Open' /\ Listed' /\ crashes' \in Nat
  BY <1>1, <1>2, TakeKeeps DEF Hunt
<1>4. /\ DOMAIN loader' = Loaders /\ loader'[w] = Head(found)
      /\ \A v \in Loaders \ {w} : loader'[v] = loader[v]
  BY <1>1 DEF Hunt, Loads
<1>5. InBook' = InBook /\ Running' = Running /\ requests' = requests /\ seen' = seen
  BY <1>1 DEF bookVars, InBook, Running, Busy
<1>6. Loads'
  BY <1>2, <1>4, <1>5 DEF Hunt, Loads
<1>7. /\ Once(found') /\ Of(found') = Of(found) \ {Head(found).magnet}
      /\ Head(found).magnet \in Of(found)
      /\ \A i \in DOMAIN found' : \E j \in DOMAIN found : found'[i] = found[j]
      /\ \E j \in DOMAIN found : Head(found) = found[j]
  <2>1. (\E T : found \in Seq(T)) /\ Once(found)
    BY DEF Hunt, Types, Alone
  <2>2. \E j \in DOMAIN found : Head(found) = found[j]
    <3>1. 1 \in DOMAIN found /\ Head(found) = found[1]
      BY <1>1, <2>1
    <3> QED
      BY <3>1
  <2>3. /\ Once(found') /\ Of(found') = Of(found) \ {Head(found).magnet}
        /\ Head(found).magnet \in Of(found) /\ Part(found', found)
    BY <1>1, <2>1, TailOnce
  <2> QED
    BY <2>2, <2>3 DEF Part
<1>8. Once(Loading') /\ Of(Loading') = Of(Loading) \cup {Head(found).magnet}
  <2>1. Head(found) # NoEvent
    <3>1. Head(found) \in FoundType(Len(obj)) /\ NoEvent.peer = 0
      BY <1>1 DEF Hunt, Types, NoEvent
    <3>2. \A x \in FoundType(Len(obj)) : x.peer # 0
      BY DEF FoundType
    <3> QED
      BY <3>1, <3>2
  <2>2. Head(found).magnet \notin Of(Loading) /\ Once(Loading)
    BY <1>7 DEF Hunt, Alone
  <2>3. /\ w \notin DOMAIN Loading /\ DOMAIN Loading' = DOMAIN Loading \cup {w}
        /\ \A v \in DOMAIN Loading : Loading'[v].magnet = Loading[v].magnet
        /\ Loading'[w].magnet = Head(found).magnet
    BY <1>1, <1>4, <2>1 DEF Loading
  <2> QED
    BY <2>2, <2>3, EnterOnce
<1>9. Alone'
  <2>1. Stages(Of(requests'), Of(Running'), Of(found'), Of(Loading'), seen')
    BY <1>5, <1>7, <1>8 DEF Stages, Alone, Hunt
  <2> QED
    BY <1>5, <1>7, <1>8, <2>1 DEF Stages, Alone, Hunt
<1>10. Spared'
  <2>1. Apart(Head(found)) /\ \A i \in DOMAIN found' : Apart(found'[i])
    BY <1>7 DEF Hunt, Spared
  <2>2. \A v \in Loaders : loader'[v] # NoEvent => Apart(loader'[v])
    BY <1>4, <2>1 DEF Hunt, Spared
  <2> QED
    BY <1>1, <1>5, <2>1, <2>2 DEF Hunt, Spared, Kept, Apart, Finding, Busy
<1> QED
  BY <1>3, <1>6, <1>9, <1>10 DEF Hunt

\* A download ends, well or in an exception, and nobody asks again.
LEMMA EndKeeps ==
  ASSUME Hunt, NEW w \in Loaders, loader[w] # NoEvent, EndHandler(w),
         UNCHANGED <<peeringOwn, busVars, refused, seen>>
  PROVE  Hunt'
<1>1. UNCHANGED <<bookVars, requests, found, store_q, known_q, answers, handler, db_peers, crashes>>
  BY DEF peeringOwn, busVars
<1>2. Types' /\ Open' /\ Listed' /\ crashes' \in Nat
  <2>1. found' \in Seq(FoundType(Len(obj))) /\ \A i \in DOMAIN found' : found'[i].visited \subseteq InBook
    BY <1>1 DEF Hunt, Types, Listed
  <2> QED
    BY <1>1, <2>1, TakeKeeps DEF Hunt
<1>3. /\ Once(Loading') /\ Of(Loading') = Of(Loading) \ {loader[w].magnet}
      /\ DOMAIN loader' = Loaders
      /\ \A v \in Loaders : loader'[v] # NoEvent => loader'[v] = loader[v]
  BY LoadingLeaves DEF Hunt
<1>4. InBook' = InBook /\ Running' = Running
  BY <1>1 DEF bookVars, InBook, Running, Busy
<1>5. Loads'
  BY <1>3, <1>4 DEF Hunt, Loads
<1>6. Alone'
  BY <1>1, <1>3, <1>4 DEF Hunt, Alone
<1>7. Spared'
  BY <1>1, <1>3 DEF Hunt, Spared, Kept, Apart, Finding, Busy
<1> QED
  BY <1>2, <1>5, <1>6, <1>7 DEF Hunt

LEMMA DownloadFailsKeeps ==
  ASSUME Hunt, NEW w \in Loaders, DownloadFails(w), UNCHANGED <<peeringOwn, seen>>
  PROVE  Hunt'
<1> DEFINE m == loader[w].magnet
           visited == loader[w].visited
<1>1. /\ loader[w] # NoEvent /\ EmitRequest(m, visited) /\ EndHandler(w)
      /\ refused' = refused \cup {<<m, loader[w].peer>>}
      /\ UNCHANGED <<bookVars, store_q, known_q, handler, db_peers, crashes, found, seen>>
  BY DEF DownloadFails, peeringOwn
<1>2. /\ m \in Magnets /\ loader[w].peer \in visited /\ visited \subseteq InBook
      /\ Apart(loader[w])
  BY <1>1 DEF Hunt, Loads, Spared
<1>3. visited \in SUBSET (1 .. Len(obj))
  BY <1>2, InBookFacts DEF Hunt, Types, Objs
<1>4. /\ Once(Loading') /\ Of(Loading') = Of(Loading) \ {m} /\ m \in Of(Loading)
      /\ DOMAIN loader' = Loaders
      /\ \A v \in Loaders : loader'[v] # NoEvent => v # w /\ loader'[v] = loader[v]
  BY <1>1, LoadingLeaves DEF Hunt
<1>5. m \notin Of(requests) /\ m \notin Of(Running) /\ m \notin Of(found) /\ m \in seen
  BY <1>4 DEF Hunt, Alone
<1> HIDE DEF m, visited
<1>6. Types' /\ Open' /\ Listed' /\ crashes' \in Nat
  <2>1. found' \in Seq(FoundType(Len(obj))) /\ \A i \in DOMAIN found' : found'[i].visited \subseteq InBook
    BY <1>1 DEF Hunt, Types, Listed
  <2> QED
    BY <1>1, <1>2, <1>3, <2>1, AskKeeps DEF Hunt
<1>7. InBook' = InBook /\ Running' = Running
  BY <1>1 DEF bookVars, InBook, Running, Busy
<1>8. Loads'
  BY <1>4, <1>7 DEF Hunt, Loads
<1>9. /\ Once(requests') /\ Of(requests') = Of(requests) \cup {m}
      /\ \A i \in DOMAIN requests' :
           \/ requests'[i].magnet = m /\ requests'[i].visited = visited
           \/ \E j \in DOMAIN requests : requests'[i] = requests[j]
  BY <1>1, <1>2, <1>3, <1>5, Asked DEF Hunt
<1>10. Alone'
  <2>1. Stages(Of(requests'), Of(Running'), Of(found'), Of(Loading'), seen')
    BY <1>1, <1>4, <1>5, <1>7, <1>9 DEF Stages, Alone, Hunt
  <2> QED
    BY <1>1, <1>4, <1>7, <1>9, <2>1 DEF Stages, Alone, Hunt
<1> DEFINE KeptThen(x) == \A t \in refused' : t[1] = x.magnet => t[2] \in x.visited
           ApartThen(x) == KeptThen(x) /\ \A t \in refused' : t[1] = x.magnet => t[2] # x.peer
<1>11. ASSUME NEW x, x.magnet # m
       PROVE  (Kept(x) => KeptThen(x)) /\ (Apart(x) => ApartThen(x))
  BY <1>1, <1>11 DEF Kept, Apart
<1> HIDE DEF KeptThen, ApartThen
<1>12. Spared'
  <2>1. \A t \in refused' : t[1] \in seen'
    BY <1>1, <1>5 DEF Hunt, Spared
  <2>2. ASSUME NEW i \in DOMAIN requests' PROVE KeptThen(requests'[i])
    <3>1. CASE requests'[i].magnet = m /\ requests'[i].visited = visited
      <4> SUFFICES ASSUME NEW t \in refused', t[1] = m PROVE t[2] \in visited
        BY <3>1 DEF KeptThen
      <4>1. CASE t \in refused
        BY <1>2, <4>1 DEF Apart, Kept, m, visited
      <4>2. CASE t = <<m, loader[w].peer>>
        BY <1>2, <4>2
      <4> QED
        BY <1>1, <4>1, <4>2
    <3>2. CASE \E j \in DOMAIN requests : requests'[i] = requests[j]
      <4>1. PICK j \in DOMAIN requests : requests'[i] = requests[j]
        BY <3>2
      <4>2. Kept(requests[j]) /\ requests[j].magnet # m
        BY <1>5 DEF Of, Hunt, Spared
      <4>3. Kept(requests'[i]) /\ requests'[i].magnet # m
        BY <4>1, <4>2
      <4> QED
        BY <1>11, <4>3
    <3> QED
      BY <1>9, <3>1, <3>2
  <2>3. ASSUME NEW v \in Workers, Busy(v)' PROVE ApartThen(Finding(v)')
    <3>1. Busy(v) /\ handler'[v] = handler[v]
      BY <1>1, <2>3 DEF Busy
    <3>2. handler[v].request.magnet # m /\ Apart(Finding(v))
      BY <1>5, <3>1 DEF Of, Running, Hunt, Spared
    <3>3. Finding(v)' = Finding(v) /\ Finding(v).magnet # m
      BY <3>1, <3>2 DEF Finding
    <3> QED
      BY <1>11, <3>2, <3>3
  <2>4. ASSUME NEW i \in DOMAIN found' PROVE ApartThen(found'[i])
    <3>1. found' = found /\ found[i].magnet # m /\ Apart(found[i])
      BY <1>1, <1>5, <2>4 DEF Of, Hunt, Spared
    <3> QED
      BY <1>11, <3>1
  <2>5. ASSUME NEW v \in Loaders, loader'[v] # NoEvent PROVE ApartThen(loader'[v])
    <3>1. v # w /\ loader'[v] = loader[v]
      BY <1>4, <2>5
    <3>2. loader[v].magnet # m /\ Apart(loader[v])
      <4>1. Apart(loader[v])
        BY <2>5, <3>1 DEF Hunt, Spared
      <4>2. v \in DOMAIN Loading /\ w \in DOMAIN Loading /\ Loading[v] = loader[v] /\ Loading[w] = loader[w]
        BY <1>1, <2>5, <3>1 DEF Loading
      <4>3. Loading[v].magnet # Loading[w].magnet
        BY <3>1, <4>2 DEF Hunt, Alone, Once
      <4> QED
        BY <4>1, <4>2, <4>3 DEF m
    <3> QED
      BY <1>11, <3>1, <3>2
  <2>6. NoEvent' = NoEvent
    BY DEF NoEvent
  <2> QED
    BY <2>1, <2>2, <2>3, <2>4, <2>5, <2>6 DEF Spared, Kept, Apart, KeptThen, ApartThen
<1> QED
  BY <1>6, <1>8, <1>10, <1>12 DEF Hunt

\* Nothing that the searches depend on changes.
LEMMA HuntSame ==
  ASSUME Hunt, UNCHANGED <<peeringOwn, busVars, loader, refused, seen>>
  PROVE  Hunt'
<1>1. UNCHANGED <<bookVars, requests, found, store_q, known_q, answers, handler, db_peers, crashes>>
  BY DEF peeringOwn, busVars
<1>2. Types' /\ Open' /\ Listed' /\ crashes' \in Nat
  <2>1. found' \in Seq(FoundType(Len(obj))) /\ \A i \in DOMAIN found' : found'[i].visited \subseteq InBook
    BY <1>1 DEF Hunt, Types, Listed
  <2> QED
    BY <1>1, <2>1, TakeKeeps DEF Hunt
<1>3. InBook' = InBook /\ Running' = Running /\ Loading' = Loading
  BY <1>1 DEF bookVars, InBook, Running, Busy, Loading
<1>4. Loads' /\ Alone'
  BY <1>1, <1>3 DEF Hunt, Loads, Alone
<1>5. Spared'
  BY <1>1 DEF Hunt, Spared, Kept, Apart, Finding, Busy
<1> QED
  BY <1>2, <1>4, <1>5 DEF Hunt

\* A process that starts has no searches.
LEMMA NothingHunted ==
  ASSUME Types, Open, crashes \in Nat, Listed, requests = <<>>, found = <<>>,
         \A w \in Workers : handler[w] = IdleHandler,
         loader = [w \in Loaders |-> NoEvent], refused = {}, seen = {}
  PROVE  Hunt
<1>1. Loads
  BY DEF Loads
<1>2. \A w \in Workers : ~Busy(w)
  BY DEF Busy, IdleHandler
<1>3. /\ DOMAIN requests = {} /\ DOMAIN found = {} /\ DOMAIN Running = {} /\ DOMAIN Loading = {}
  BY <1>2 DEF Running, Loading
<1>4. Alone
  <2>1. \A s : DOMAIN s = {} => Once(s) /\ Of(s) = {}
    BY DEF Once, Of
  <2> HIDE DEF Running, Loading
  <2>2. /\ Once(requests) /\ Once(Running) /\ Once(found) /\ Once(Loading)
        /\ Of(requests) = {} /\ Of(Running) = {} /\ Of(found) = {} /\ Of(Loading) = {}
    BY <1>3, <2>1
  <2> QED
    BY <2>2 DEF Alone
<1>5. Spared
  BY <1>2, <1>3 DEF Spared, Kept, Apart
<1> QED
  BY <1>1, <1>4, <1>5 DEF Hunt

LEMMA StartIsHunt ==
  ASSUME Init
  PROVE  Hunt
<1>1. /\ requests = <<>> /\ found = <<>> /\ handler = [w \in Workers |-> IdleHandler]
      /\ loader = [w \in Loaders |-> NoEvent] /\ refused = {} /\ seen = {}
  BY DEF Init, PeeringInit, BusInit, DownloadInit
<1>2. Types /\ Open /\ crashes \in Nat /\ Listed
  BY PeeringStarts DEF Init
<1> QED
  BY <1>1, <1>2, NothingHunted

LEMMA RestartKeeps ==
  ASSUME Hunt, Restart
  PROVE  Hunt'
<1>1. /\ requests' = <<>> /\ found' = <<>> /\ handler' = [w \in Workers |-> IdleHandler]
      /\ loader' = [w \in Loaders |-> NoEvent] /\ refused' = {} /\ seen' = {}
  BY DEF Restart, Crash, DownloadCrash
<1>2. Types' /\ Open' /\ crashes' \in Nat /\ Listed'
  BY CrashKeeps DEF Restart, Hunt
<1>3. \A w \in Workers : handler'[w] = IdleHandler
  BY <1>1
<1>4. \A w \in Workers : ~Busy(w)'
  BY <1>3 DEF Busy, IdleHandler
<1>5. Loads'
  BY <1>1 DEF Loads
<1>6. DOMAIN requests' = {} /\ DOMAIN found' = {} /\ DOMAIN Running' = {} /\ DOMAIN Loading' = {}
  BY <1>1, <1>4 DEF Running, Loading
<1>7. Alone'
  <2>1. \A s : DOMAIN s = {} => Once(s) /\ Of(s) = {}
    BY DEF Once, Of
  <2>2. /\ Once(requests') /\ Once(Running') /\ Once(found') /\ Once(Loading')
        /\ Of(requests') = {} /\ Of(Running') = {} /\ Of(found') = {} /\ Of(Loading') = {}
    BY <1>6, <2>1
  <2> QED
    BY <2>2 DEF Alone
<1>8. Spared'
  BY <1>1, <1>4, <1>6 DEF Spared, Kept, Apart
<1> QED
  BY <1>2, <1>5, <1>7, <1>8 DEF Hunt

LEMMA StepKeepsHunt ==
  ASSUME Room, Hunt, [Next]_vars
  PROVE  Hunt'
<1>1. CASE PeeringStep /\ UNCHANGED <<downloadVars, published, seen>>
  <2>1. Types' /\ Open' /\ Listed' /\ crashes' \in Nat
    BY <1>1, PeeringStepKeeps DEF Steps, Hunt
  <2>2. Alone' /\ Spared'
    BY <1>1, SearchesKeepAlone, SearchesKeepSpared DEF Hunt
  <2>3. InBook \subseteq InBook' /\ loader' = loader
    BY <1>1, StepGrows DEF Hunt, downloadVars
  <2>4. Loads'
    BY <2>3 DEF Hunt, Loads
  <2> QED
    BY <2>1, <2>2, <2>4 DEF Hunt
<1>2. ASSUME NEW m \in Magnets, Post(m) \/ PublicationEvent(m)
      PROVE  Hunt'
  <2>1. CASE Post(m)
    BY <2>1, HuntSame DEF Post, peeringVars, peeringOwn, downloadVars
  <2> QED
    BY <1>2, <2>1, PublicationKeeps
<1>3. ASSUME NEW w \in Loaders, LoaderStep(w)
      PROVE  Hunt'
  <2>1. UNCHANGED <<peeringOwn, seen>>
    BY <1>3 DEF LoaderStep
  <2>2. CASE DownloadDone(w) \/ DownloadRaises(w)
    BY <2>1, <2>2, EndKeeps DEF DownloadDone, DownloadRaises
  <2> QED
    BY <1>3, <2>1, <2>2, StartDownloadKeeps, DownloadFailsKeeps DEF LoaderStep
<1>4. CASE AppStep
  BY <1>4, HuntSame DEF AppStep, ProcessFinishedDownload
<1>5. CASE Restart
  BY <1>5, RestartKeeps
<1>6. CASE UNCHANGED vars
  BY <1>6, HuntSame DEF vars, peeringVars, peeringOwn, downloadVars
<1> QED
  BY <1>1, <1>2, <1>3, <1>4, <1>5, <1>6 DEF Next

LEMMA HuntSpares ==
  ASSUME Hunt
  PROVE  NoSecondTry
<1> SUFFICES ASSUME NEW w \in Loaders, loader[w] # NoEvent,
                    NEW t \in refused, t[1] = loader[w].magnet
             PROVE  obj[t[2]].sid # obj[loader[w].peer].sid
  BY DEF NoSecondTry
<1>1. t[2] \in loader[w].visited /\ t[2] # loader[w].peer
  BY DEF Hunt, Spared, Apart, Kept
<1>2. t[2] \in InBook /\ loader[w].peer \in InBook
  BY <1>1 DEF Hunt, Loads
<1> QED
  BY <1>1, <1>2, InBookFacts DEF Hunt, Types

\* With a book that has room for everybody, a publication whose download failed is
\* never downloaded from the same service again, under whatever object, until the
\* process starts anew.
THEOREM FailedPeersAreSpared == Room /\ Spec => []NoSecondTry
<1> SUFFICES ASSUME Room PROVE Spec => []NoSecondTry
  OBVIOUS
<1>1. Init => Hunt
  BY StartIsHunt
<1>2. Hunt /\ [Next]_vars => Hunt'
  BY StepKeepsHunt
<1>3. Hunt => NoSecondTry
  BY HuntSpares
<1> QED
  BY <1>1, <1>2, <1>3, PTL DEF Spec
=============================================================================
