------------------------------ MODULE Download ------------------------------
(***************************************************************************)
(* DownloadService (sarafan/download.py) and the handler of Application     *)
(* (sarafan/app.py) that turns a downloaded bundle into a post.  Both talk  *)
(* to PeeringService over the bus only.                                     *)
(***************************************************************************)
EXTENDS Bus

CONSTANTS
  Loaders,            \* finished_discovery_handlers that may run at the same time
  DownloadMayRaise,   \* may a download end in an exception the handler lets through?
  BundleMayFail,      \* may a stored bundle be one that cannot be read?
  MaxAnswers          \* bound: DiscoveryRequests emitted, retries included

ASSUME DownloadAssumption ==
  /\ DownloadMayRaise \in BOOLEAN
  /\ BundleMayFail \in BOOLEAN
  /\ MaxAnswers \in Nat

VARIABLES
  loader,       \* the DiscoveryFinished event each running handler works on, or NoEvent
  stored,       \* magnets of the files in the content directory
  finished_q,   \* DownloadFinished events for Application
  posts,        \* magnets of table sarafan_posts
  refused       \* history: <<magnet, peer>> of the downloads that failed

downloadVars == <<loader, stored, finished_q, posts, refused>>

NoEvent == [magnet |-> "none", peer |-> 0, visited |-> {}]

DownloadInit ==
  /\ loader = [w \in Loaders |-> NoEvent]
  /\ stored = {}
  /\ finished_q = <<>>
  /\ posts = {}
  /\ refused = {}

\* process_new_publications (and process_download_request, whose event nobody
\* emits): the discovery starts with an empty state.
ProcessNewPublication(m) ==
  /\ EmitRequest(m, {})
  /\ UNCHANGED <<found, store_q, known_q, downloadVars>>

\* finished_discovery_handler up to the await of client.download().
StartDownload(w) ==
  /\ loader[w] = NoEvent
  /\ found # <<>>
  /\ loader' = [loader EXCEPT ![w] = Head(found)]
  /\ found' = Tail(found)
  /\ UNCHANGED <<requests, store_q, known_q, answers, stored, finished_q, posts, refused>>

EndHandler(w) == loader' = [loader EXCEPT ![w] = NoEvent]

\* Mutant: the download is announced before the content is in place.
DownloadDone_Early(w) ==
  /\ loader[w] # NoEvent
  /\ finished_q' = Append(finished_q, loader[w].magnet)
  /\ EndHandler(w)
  /\ UNCHANGED <<busVars, stored, posts, refused>>

\* The content had the right checksum and is in place.
DownloadDone(w) ==
  /\ loader[w] # NoEvent
  /\ stored' = stored \cup {loader[w].magnet}
  /\ finished_q' = Append(finished_q, loader[w].magnet)
  /\ EndHandler(w)
  /\ UNCHANGED <<busVars, posts, refused>>

\* Mutant: the retry starts from nothing.
DownloadFails_ForgetsState(w) ==
  /\ loader[w] # NoEvent
  /\ Len(answers) < MaxAnswers
  /\ EmitRequest(loader[w].magnet, {})
  /\ refused' = refused \cup {<<loader[w].magnet, loader[w].peer>>}
  /\ EndHandler(w)
  /\ UNCHANGED <<found, store_q, known_q, stored, finished_q, posts>>

\* Mutant: the download is tried again from the same peer.
DownloadFails_SamePeer(w) ==
  /\ loader[w] # NoEvent
  /\ found' = Append(found, loader[w])
  /\ refused' = refused \cup {<<loader[w].magnet, loader[w].peer>>}
  /\ EndHandler(w)
  /\ UNCHANGED <<requests, store_q, known_q, answers, stored, finished_q, posts>>

\* Mutant: no retry.
DownloadFails_GivesUp(w) ==
  /\ loader[w] # NoEvent
  /\ refused' = refused \cup {<<loader[w].magnet, loader[w].peer>>}
  /\ EndHandler(w)
  /\ UNCHANGED <<busVars, stored, finished_q, posts>>

\* InvalidChecksum or DownloadError: search on, with the state of the event.
DownloadFails(w) ==
  /\ loader[w] # NoEvent
  /\ Len(answers) < MaxAnswers
  /\ EmitRequest(loader[w].magnet, loader[w].visited)
  /\ refused' = refused \cup {<<loader[w].magnet, loader[w].peer>>}
  /\ EndHandler(w)
  /\ UNCHANGED <<found, store_q, known_q, stored, finished_q, posts>>

\* asyncio.TimeoutError or OSError pass both except clauses.
DownloadRaises(w) ==
  /\ DownloadMayRaise
  /\ loader[w] # NoEvent
  /\ EndHandler(w)
  /\ UNCHANGED <<busVars, stored, finished_q, posts, refused>>

\* Application.process_finished_downloads: the bundle is rendered, unpacked and
\* stored as a post, or raises.
ProcessFinishedDownload ==
  /\ finished_q # <<>>
  /\ finished_q' = Tail(finished_q)
  /\ \/ posts' = posts \cup {Head(finished_q)}
     \/ BundleMayFail /\ UNCHANGED posts
  /\ UNCHANGED <<busVars, loader, stored, refused>>

\* What a crash leaves: the files and the table.
DownloadCrash ==
  /\ loader' = [w \in Loaders |-> NoEvent]
  /\ finished_q' = <<>>
  /\ refused' = {}
  /\ UNCHANGED <<stored, posts>>
=============================================================================
