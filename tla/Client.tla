------------------------------- MODULE Client -------------------------------
(***************************************************************************)
(* SarafanClient (sarafan/client.py), for programs that use the network     *)
(* without a node: its collection of peers, one call of download() and one  *)
(* of upload() that run at once.                                            *)
(*                                                                          *)
(* download() asks all peers of the collection at the same time whether     *)
(* they have the magnet and then goes through the answers, nearest peer     *)
(* first.  It has a loop for more rounds, with the peers it heard of, but   *)
(* no call gets there: at the end of a round it closes clients that have no *)
(* close().  Nor does it return: what _store (see Storage) and the peer's   *)
(* client raise is of other classes than the except clause names.           *)
(***************************************************************************)
EXTENDS PeerBook

CONSTANTS
  Distance,         \* Distance[sid] to the magnet
  Holders,          \* service ids of peers that answer, have the magnet and deliver it
  Liars,            \* service ids of peers that may be taken to have it and do not deliver
  peers_count, min_peers_count,   \* arguments of upload()
  MaxObjects        \* bound: Peer objects made

ClientAssumption ==
  /\ Distance \in [Sids -> Nat]
  /\ \A s, t \in Sids : Distance[s] = Distance[t] => s = t
  /\ Holders \subseteq Sids /\ Liars \subseteq Sids \ Holders
  /\ peers_count \in Nat \ {0} /\ min_peers_count \in Nat
  /\ MaxObjects \in Nat

VARIABLES
  download,    \* the locals of download(): where it stands, current_list, results,
               \*   the peer it downloads from, and how it ended
  discovery,   \* its discovery tasks, by peer
  in_place,    \* is the content in place?
  upload       \* the locals of upload()

vars == <<bookVars, download, discovery, in_place, upload>>

NotCalled == [pc |-> "idle", list |-> <<>>]

Init ==
  /\ BookInit
  /\ download = NotCalled
  /\ discovery = <<>>
  /\ in_place = FALSE
  /\ upload = NotCalled

\* PeerCollection.add for a service id that is not known.
Add(s) ==
  /\ ~Known(s)
  /\ Len(obj) < MaxObjects
  /\ obj' = Append(obj, [sid |-> s, exp |-> Initial])
  /\ AddPeer(obj', Len(obj) + 1)
  /\ UNCHANGED <<download, discovery, in_place, upload>>

\* PeerCollection.nearest
Nearest ==
  CHOOSE l \in [DOMAIN peers_by_rating -> InBook] :
    \A i, j \in DOMAIN l : i < j => Distance[obj[l[i]].sid] < Distance[obj[l[j]].sid]

SidOf(i) == obj[i].sid

-----------------------------------------------------------------------------
(* download().                                                              *)

Ended(call, result) == [call EXCEPT !.pc = "ended", !.result = result]

\* Up to gather() over the tasks of has_magnet.
StartDownload ==
  /\ download.pc = "idle"
  /\ download' = [pc |-> IF Nearest = <<>> THEN "ended" ELSE "asking", list |-> Nearest,
                  results |-> [i \in DOMAIN Nearest |-> "running"], from |-> 0,
                  result |-> IF Nearest = <<>> THEN "Content not found" ELSE "none"]
  /\ UNCHANGED <<bookVars, discovery, in_place, upload>>

\* What has_magnet() of a peer may end in.  An exception counts as True.
HasMagnetResults(s) ==
  IF s \in Holders THEN {"True"} ELSE {"False"} \cup IF s \in Liars THEN {"True", "raised"} ELSE {}

HasMagnetEnds(i) ==
  /\ download.pc = "asking"
  /\ i \in DOMAIN download.results /\ download.results[i] = "running"
  /\ \E r \in HasMagnetResults(SidOf(download.list[i])) :
       download' = [download EXCEPT !.results[i] = r]
  /\ UNCHANGED <<bookVars, discovery, in_place, upload>>

\* Mutant: the answers are taken in the order in which they came.
FirstClaim_Any(claims) == CHOOSE i \in claims : \A j \in claims : j <= i

FirstClaim(claims) == CHOOSE i \in claims : \A j \in claims : i <= j

\* The loop over results: a task discover() for each False, and the download from
\* the first peer with something else.
Gathered ==
  /\ download.pc = "asking"
  /\ \A i \in DOMAIN download.results : download.results[i] # "running"
  /\ LET claims == { i \in DOMAIN download.results : download.results[i] # "False" }
         upto == IF claims = {} THEN Len(download.list) ELSE FirstClaim(claims) - 1
     IN /\ discovery' = [i \in 1 .. upto |-> "running"]
        /\ download' = IF claims = {} THEN [download EXCEPT !.pc = "discovering"]
                       ELSE [download EXCEPT !.pc = "downloading", !.from = upto + 1]
  /\ UNCHANGED <<bookVars, in_place, upload>>

\* client.download(magnet, self._store) succeeds, and the finally clause of _store
\* raises.  The discovery tasks go on.
ContentArrives ==
  /\ download.pc = "downloading"
  /\ SidOf(download.list[download.from]) \in Holders
  /\ in_place' = TRUE
  /\ download' = Ended(download, "FileNotFoundError")
  /\ UNCHANGED <<bookVars, discovery, upload>>

\* client.download(magnet, self._store) raises: DownloadError and InvalidChecksum of
\* peering/client.py, which are no DownloadError of this module.
DownloadFails ==
  /\ download.pc = "downloading"
  /\ SidOf(download.list[download.from]) \in Liars
  /\ download' = Ended(download, "DownloadError")
  /\ UNCHANGED <<bookVars, discovery, in_place, upload>>

\* A discovery task ends: with a result, with InvalidPeerResponse or with another
\* exception.  It may outlive the call.
DiscoverEnds(i) ==
  /\ i \in DOMAIN discovery /\ discovery[i] = "running"
  /\ \E r \in {"result", "invalid", "strange"} : discovery' = [discovery EXCEPT ![i] = r]
  /\ UNCHANGED <<bookVars, download, in_place, upload>>

\* The peers whose discovery failed.
Invalid == { i \in DOMAIN discovery : discovery[i] = "invalid" }

\* The discovery results are in: rating /= 2 for invalid answers, and client.close()
\* raises.
EndRound ==
  /\ download.pc = "discovering"
  /\ \A i \in DOMAIN discovery : discovery[i] # "running"
  /\ obj' = [o \in DOMAIN obj |->
               IF \E i \in Invalid : download.list[i] = o
               THEN [obj[o] EXCEPT !.exp = Scaled(@, -1)] ELSE obj[o]]
  /\ download' = Ended(download, "AttributeError")
  /\ UNCHANGED <<peers, peers_by_rating, discovery, in_place, upload>>

DownloadStep ==
  \/ Gathered \/ ContentArrives \/ DownloadFails \/ EndRound
  \/ \E i \in 1 .. MaxObjects : HasMagnetEnds(i) \/ DiscoverEnds(i)

-----------------------------------------------------------------------------
(* upload().                                                                *)

\* Mutant: the minimum is not checked.
UploadResult_Any(n) == "returned"

\* After the loop.
UploadResult(n) == IF n < min_peers_count THEN "Exception" ELSE "returned"

\* Up to the first client.upload(), or to the end if there is no peer.
StartUpload ==
  /\ upload.pc = "idle"
  /\ upload' = [pc |-> IF Nearest = <<>> THEN "ended" ELSE "uploading", list |-> Nearest,
                success_count |-> 0, result |-> IF Nearest = <<>> THEN UploadResult(0) ELSE "none"]
  /\ UNCHANGED <<bookVars, download, discovery, in_place>>

\* A peer took the content.
PeerTakes ==
  /\ upload.pc = "uploading"
  /\ LET n == upload.success_count + 1
         counted == [upload EXCEPT !.success_count = n]
     IN upload' = IF n >= peers_count \/ n = Len(upload.list)
                  THEN Ended(counted, UploadResult(n)) ELSE counted
  /\ UNCHANGED <<bookVars, download, discovery, in_place>>

\* client.upload() raises something, and never this module's UploadError.
PeerRefuses ==
  /\ upload.pc = "uploading"
  /\ upload' = Ended(upload, "raised")
  /\ UNCHANGED <<bookVars, download, discovery, in_place>>

Next ==
  \/ \E s \in Sids : Add(s)
  \/ StartDownload \/ DownloadStep
  \/ StartUpload \/ PeerTakes \/ PeerRefuses

\* Every request ends with an answer or with its session's timeout.
Fairness == WF_vars(DownloadStep)

Spec == Init /\ [][Next]_vars /\ Fairness

-----------------------------------------------------------------------------
\* However the answers of has_magnet come in, content is requested from a peer only
\* after every nearer one of the collection denied having it, and each of these is
\* asked for further peers meanwhile.
NearestClaimant ==
  download.pc = "downloading" =>
    \A i \in DOMAIN download.list :
      Distance[SidOf(download.list[i])] < Distance[SidOf(download.list[download.from])] =>
        download.results[i] = "False" /\ i \in DOMAIN discovery

\* An upload that returns has left the content with at least min_peers_count
\* services, different ones and the nearest of the list.
UploadQuorum ==
  upload.pc = "ended" /\ upload.result = "returned" =>
    /\ upload.success_count \in min_peers_count .. peers_count
    /\ \A i \in 1 .. upload.success_count, j \in DOMAIN upload.list :
         i < j => Distance[SidOf(upload.list[i])] < Distance[SidOf(upload.list[j])]

\* A peer that delivers is in the list, and none before it pretends to.
HolderFirst ==
  \E i \in DOMAIN download.list :
    /\ SidOf(download.list[i]) \in Holders
    /\ \A j \in 1 .. (i - 1) : SidOf(download.list[j]) \notin Liars

\* The content of a known peer arrives, although the call that fetched it raises.
HolderSuffices == download.pc = "asking" /\ HolderFirst ~> in_place
=============================================================================
