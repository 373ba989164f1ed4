------------------------------ MODULE Storage -------------------------------
(***************************************************************************)
(* StorageService.store (sarafan/storage/service.py): a content file is     *)
(* written chunk by chunk under a temporary name, its checksum is compared  *)
(* with the magnet, and only then it is moved to its place.  Downloads and  *)
(* uploads call it concurrently; the coroutine suspends at every chunk and  *)
(* nowhere else.  SarafanClient._store (sarafan/client.py), for programs    *)
(* that use the content path without a node, is the same but for two        *)
(* things: it makes no directory, and its finally clause raises where the   *)
(* temporary name is gone, as it is after the move.                         *)
(*                                                                          *)
(* The file system maps names to files.  A name is a magnet with a suffix,  *)
(* InPlace for the content file itself; an open file stays the same file    *)
(* whatever happens to its name.  A file is a sequence of Size chunks, each *)
(* of them the right one, a wrong one or missing; the checksum of a stream   *)
(* is the magnet if it has all the right chunks.                            *)
(***************************************************************************)
EXTENDS Naturals, FiniteSets

CONSTANTS
  Magnets,
  Stores,       \* calls of store() that may run at the same time, of the node or a client
  Suffixes,     \* what random.randint(10000, 99999) draws from
  Size,         \* chunks of a content file
  Files,        \* bound: file identities
  MaxCrashes    \* bound: crashes of the process

ASSUME StorageAssumption ==
  /\ 0 \notin Suffixes /\ "no file" \notin Files
  /\ Size \in Nat \ {0}
  /\ MaxCrashes \in Nat

InPlace == 0
NoFile == "no file"
Names == Magnets \X (Suffixes \cup {InPlace})

VARIABLES
  directories, \* magnets whose directory is there
  names,      \* the directory: name -> file or NoFile
  content,    \* file -> its chunks
  store,      \* the locals of every call of store()
  clashed,    \* history: magnets two of whose running calls drew the same number
  leftovers,  \* history: temporary names that were in use at a crash
  crashes

vars == <<directories, names, content, store, clashed, leftovers, crashes>>

Idle == [pc |-> "idle", result |-> "none"]
Ended(result) == [pc |-> "idle", result |-> result]

Empty == [k \in 1 .. Size |-> "missing"]
Right == [k \in 1 .. Size |-> "right"]

Kinds == {"node", "client"}

Init ==
  /\ directories = {}
  /\ names = [n \in Names |-> NoFile]
  /\ content = [f \in Files |-> Empty]
  /\ store = [c \in Stores |-> Idle]
  /\ clashed = {}
  /\ leftovers = {}
  /\ crashes = 0

Running == { c \in Stores : store[c].pc = "writing" }

Free == Files \ ({ names[n] : n \in Names } \cup { store[c].file : c \in Running })

\* Up to the first await: make the directory (the node), draw a name,
\* open(..., 'wb').  A file of that name is truncated, not replaced.
Open(c, m, kind) ==
  /\ store[c].pc = "idle"
  /\ kind = "client" => m \in directories
  /\ directories' = directories \cup {m}
  /\ \E s \in Suffixes :
       /\ clashed' = clashed \cup { n \in {m} : \E d \in Running : store[d].name = <<m, s>> }
       /\ \E f \in IF names[<<m, s>>] = NoFile THEN Free ELSE {names[<<m, s>>]} :
            /\ names' = [names EXCEPT ![<<m, s>>] = f]
            /\ content' = [content EXCEPT ![f] = Empty]
            /\ store' = [store EXCEPT ![c] =
                 [pc |-> "writing", result |-> "none", kind |-> kind, name |-> <<m, s>>, file |-> f,
                  written |-> 0, checksum |-> TRUE]]
  /\ UNCHANGED <<leftovers, crashes>>

\* The client's open raises where the directory is missing, and so does its unlink.
OpenFails(c, m, kind) ==
  /\ store[c].pc = "idle"
  /\ kind = "client" /\ m \notin directories
  /\ store' = [store EXCEPT ![c] = Ended("error")]
  /\ UNCHANGED <<directories, names, content, clashed, leftovers, crashes>>

\* The next chunk of the stream: fd.write, check.update.
Chunk(c) ==
  /\ store[c].pc = "writing"
  /\ store[c].written < Size
  /\ \E chunk \in {"right", "wrong"} :
       /\ content' = [content EXCEPT ![store[c].file][store[c].written + 1] = chunk]
       /\ store' = [store EXCEPT ![c].written = @ + 1,
                                 ![c].checksum = @ /\ chunk = "right"]
  /\ UNCHANGED <<directories, names, clashed, leftovers, crashes>>

\* Mutant: the finally clause is missing.
Unlinked_Never(dir, c) == dir

\* Mutant: a failed store removes the file in place, too.
Unlinked_InPlace(dir, c) ==
  [dir EXCEPT ![store[c].name] = NoFile,
              ![<<store[c].name[1], InPlace>>] = IF dir = names THEN NoFile ELSE @]

\* The finally clause: os.unlink of the temporary name, which may be gone.
Unlinked(dir, c) == [dir EXCEPT ![store[c].name] = NoFile]

\* shutil.move
Moved(c) == [names EXCEPT ![store[c].name] = NoFile,
                          ![<<store[c].name[1], InPlace>>] = names[store[c].name]]

\* Mutant: the checksum is not compared.
Matches_Always(c) == TRUE

Matches(c) == store[c].checksum /\ store[c].written = Size

\* What the caller is told after the move: the finally clause finds the temporary
\* name gone, which only the node's ignores.
MoveResult(c) == IF store[c].kind = "node" THEN "stored" ELSE "error"

\* The stream ended and the checksum is right.  The name to move may be gone,
\* which shutil.move reports as an OSError.
Move(c) ==
  /\ store[c].pc = "writing"
  /\ Matches(c)
  /\ IF names[store[c].name] # NoFile
     THEN /\ names' = Unlinked(Moved(c), c)
          /\ store' = [store EXCEPT ![c] = Ended(MoveResult(c))]
     ELSE /\ store' = [store EXCEPT ![c] = Ended("error")]
          /\ UNCHANGED names
  /\ UNCHANGED <<directories, content, clashed, leftovers, crashes>>

\* What the caller is told otherwise: an exception of the client's finally clause, where
\* the temporary name is gone, takes the place of the one that ended the call.
Raised(c, result) ==
  IF store[c].kind = "client" /\ names[store[c].name] = NoFile THEN "error" ELSE result

\* The stream ended and the checksum is wrong: InvalidChecksum.
Reject(c) ==
  /\ store[c].pc = "writing"
  /\ ~Matches(c)
  /\ names' = Unlinked(names, c)
  /\ store' = [store EXCEPT ![c] = Ended(Raised(c, "invalid"))]
  /\ UNCHANGED <<directories, content, clashed, leftovers, crashes>>

\* The stream raised: connection lost, timeout, the request cancelled.
Abort(c) ==
  /\ store[c].pc = "writing"
  /\ names' = Unlinked(names, c)
  /\ store' = [store EXCEPT ![c] = Ended(Raised(c, "aborted"))]
  /\ UNCHANGED <<directories, content, clashed, leftovers, crashes>>

\* The process dies; no finally clause runs.
Crash ==
  /\ crashes < MaxCrashes
  /\ crashes' = crashes + 1
  /\ leftovers' = leftovers \cup { store[c].name : c \in Running }
  /\ store' = [c \in Stores |-> Idle]
  /\ UNCHANGED <<directories, names, content, clashed>>

Next ==
  \/ \E c \in Stores, m \in Magnets, kind \in Kinds :
       Open(c, m, kind) \/ OpenFails(c, m, kind)
  \/ \E c \in Stores : Chunk(c) \/ Move(c) \/ Reject(c) \/ Abort(c)
  \/ Crash

Spec == Init /\ [][Next]_vars

-----------------------------------------------------------------------------
Call ==
  [pc : {"idle"}, result : {"none", "stored", "error", "invalid", "aborted"}]
    \cup [pc : {"writing"}, result : {"none"}, kind : Kinds, name : Magnets \X Suffixes, file : Files,
          written : 0 .. Size, checksum : BOOLEAN]

\* Types of the directory, the files and the calls; where no numbers clashed, a call
\* finds its file under the name it gave it.
TypeOK ==
  /\ \A n \in Names : names[n] # NoFile => n[1] \in directories
  /\ names \in [Names -> Files \cup {NoFile}]
  /\ content \in [Files -> [1 .. Size -> {"right", "wrong", "missing"}]]
  /\ store \in [Stores -> Call]
  /\ \A c \in Running :
       store[c].name[1] \notin clashed => names[store[c].name] = store[c].file
  /\ clashed \subseteq Magnets
  /\ leftovers \subseteq Magnets \X Suffixes
  /\ crashes \in 0 .. MaxCrashes

\* "File will be downloaded in file with suffix first. Match file checksum before
\* move to the requested destination" (peering/client.py:177): a file in place,
\* which the node serves to others, is complete and right at every moment.  One of
\* 90000 numbers makes that probable only: the exception are magnets of which two
\* calls that ran at once drew the same one, and they do the other magnets no harm.
InPlaceIntact ==
  \A m \in Magnets \ clashed : names[<<m, InPlace>>] # NoFile =>
    content[names[<<m, InPlace>>]] = Right

\* Every temporary file belongs to a call that runs, or was left by a crash.
NoLitter ==
  \A n \in Magnets \X Suffixes :
    names[n] # NoFile => n \in leftovers \/ \E c \in Running : store[c].name = n

\* A file in place stays in place: no failed, aborted or crashed store of the same
\* magnet takes it away.
StaysInPlace ==
  [][\A m \in Magnets : names[<<m, InPlace>>] # NoFile => names'[<<m, InPlace>>] # NoFile]_vars

\* What is served under a magnet, be it complete or not.
Served(m) ==
  IF names[<<m, InPlace>>] = NoFile THEN <<>> ELSE content[names[<<m, InPlace>>]]

Anything == <<"anything">>

\* All of the above for whoever uses the store: it works as if a content came to its
\* place at once, whatever calls, aborts and crashes there are in between, until two
\* calls for a magnet draw the same number.
Abstract == INSTANCE ContentStore WITH
  Absent <- <<>>,
  Whole <- Right,
  Any <- Anything,
  contents <- [m \in Magnets |-> IF m \in clashed THEN Anything ELSE Served(m)],
  answer <- [c \in Stores |-> store[c].result]

ActsAsContentStore == Abstract!Spec
=============================================================================
