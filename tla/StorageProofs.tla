--------------------------- MODULE StorageProofs ----------------------------
(***************************************************************************)
(* Proofs about Storage, for any number of magnets, calls, files, chunks    *)
(* and crashes, whatever numbers the calls draw: what is in place is whole,  *)
(* temporary files belong to somebody, and the store acts as the abstract    *)
(* ContentStore.  Calls whose numbers clash spoil their own magnet only, for *)
(* all files that a name or a call has belong to one magnet.                 *)
(***************************************************************************)
EXTENDS Storage, TLAPS

TempNames == Magnets \X Suffixes

\* A file has one name.
OneName ==
  \A n, o \in Names : names[n] = names[o] => n = o \/ names[n] = NoFile

\* Calls that run write under different names, or their numbers clashed.
OwnNames ==
  \A c, d \in Running :
    store[c].name = store[d].name => c = d \/ store[c].name[1] \in clashed

\* Whoever has a file in common, names or calls, has its magnet in common.
FileOfMagnet ==
  \A c \in Running :
    /\ \A n \in Names : names[n] = store[c].file => n[1] = store[c].name[1]
    /\ \A d \in Running : store[d].file = store[c].file => store[d].name[1] = store[c].name[1]

\* Where no numbers clashed the checksum is right as long as the chunks written are.
ChecksumRight ==
  \A c \in Running : store[c].name[1] \notin clashed /\ store[c].checksum =>
    \A k \in 1 .. store[c].written : content[store[c].file][k] = "right"

\* A call has made its directory.
InDirectory == \A c \in Running : store[c].name[1] \in directories

IInv ==
  /\ TypeOK /\ InPlaceIntact /\ NoLitter
  /\ OneName /\ OwnNames /\ FileOfMagnet /\ ChecksumRight /\ InDirectory

-----------------------------------------------------------------------------
LEMMA NameFacts ==
  /\ TempNames \subseteq Names
  /\ \A m \in Magnets : <<m, InPlace>> \in Names \ TempNames
  /\ \A n \in Names \ TempNames : \E m \in Magnets : n = <<m, InPlace>>
<1>1. TempNames \subseteq Names
  BY DEF TempNames, Names
<1>2. \A m \in Magnets : <<m, InPlace>> \in Names /\ <<m, InPlace>> \notin TempNames
  BY StorageAssumption DEF TempNames, Names, InPlace
<1>3. ASSUME NEW n \in Names, n \notin TempNames PROVE \E m \in Magnets : n = <<m, InPlace>>
  <2>1. PICK m \in Magnets, s \in Suffixes \cup {InPlace} : n = <<m, s>>
    BY DEF Names
  <2>2. s \notin Suffixes
    BY <1>3, <2>1 DEF TempNames
  <2> QED
    BY <2>1, <2>2
<1> QED
  BY <1>1, <1>2, <1>3

LEMMA FileFacts == NoFile \notin Files
BY StorageAssumption DEF NoFile

LEMMA NumberFacts == Size \in Nat \ {0} /\ MaxCrashes \in Nat /\ 0 \notin Suffixes
BY StorageAssumption

\* The locals of a call that runs.
LEMMA RunningFacts ==
  ASSUME TypeOK, NEW c \in Running
  PROVE  /\ c \in Stores
         /\ store[c] \in [pc : {"writing"}, result : {"none"}, kind : Kinds, name : TempNames,
                          file : Files, written : 0 .. Size, checksum : BOOLEAN]
         /\ store[c].name \in TempNames /\ store[c].name[1] \in Magnets
         /\ store[c].file \in Files
         /\ store[c].written \in 0 .. Size
         /\ store[c].name[1] \notin clashed => names[store[c].name] = store[c].file
<1>1. /\ c \in Stores
      /\ store[c] \in [pc : {"writing"}, result : {"none"}, kind : Kinds, name : TempNames,
                       file : Files, written : 0 .. Size, checksum : BOOLEAN]
      /\ store[c].name[1] \notin clashed => names[store[c].name] = store[c].file
  BY DEF TypeOK, Running, Call, TempNames
<1> QED
  BY <1>1 DEF TempNames

\* The file of a call that runs has no name but the call's, and no two calls share one,
\* unless their numbers clashed.
LEMMA OwnFile ==
  ASSUME IInv, NEW c \in Running, store[c].name[1] \notin clashed
  PROVE  /\ \A n \in Names : names[n] = store[c].file => n = store[c].name
         /\ \A d \in Running : store[d].file = store[c].file => d = c
<1>1. names[store[c].name] = store[c].file /\ store[c].name \in Names /\ store[c].file # NoFile
  BY RunningFacts, NameFacts, FileFacts DEF IInv
<1>2. \A n \in Names : names[n] = store[c].file => n = store[c].name
  BY <1>1 DEF IInv, OneName
<1>3. ASSUME NEW d \in Running, store[d].file = store[c].file PROVE d = c
  <2>1. store[d].name[1] = store[c].name[1]
    BY <1>3 DEF IInv, FileOfMagnet
  <2>2. store[d].name \in Names /\ names[store[d].name] = store[c].file
    BY <1>3, <2>1, RunningFacts, NameFacts DEF IInv
  <2>3. store[d].name = store[c].name
    BY <1>2, <2>2
  <2> QED
    BY <2>3 DEF IInv, OwnNames
<1> QED
  BY <1>2, <1>3

LEMMA InitInv == Init => IInv
<1> SUFFICES ASSUME Init PROVE IInv
  OBVIOUS
<1>1. Running = {}
  BY DEF Init, Running, Idle
<1>2. \A n \in Names : names[n] = NoFile
  BY DEF Init
<1>3. TypeOK
  <2>1. store \in [Stores -> Call]
    BY DEF Init, Idle, Call
  <2>2. content \in [Files -> [1 .. Size -> {"right", "wrong", "missing"}]]
    BY DEF Init, Empty
  <2>3. names \in [Names -> Files \cup {NoFile}]
    BY DEF Init
  <2>4. clashed = {} /\ leftovers = {} /\ crashes = 0 /\ 0 \in 0 .. MaxCrashes
    BY NumberFacts DEF Init
  <2> QED
    BY <1>1, <1>2, <2>1, <2>2, <2>3, <2>4 DEF TypeOK
<1>4. InPlaceIntact /\ NoLitter /\ OneName
  BY <1>2, NameFacts DEF InPlaceIntact, NoLitter, OneName, TempNames
<1> QED
  BY <1>1, <1>3, <1>4 DEF IInv, OwnNames, FileOfMagnet, ChecksumRight, InDirectory

-----------------------------------------------------------------------------
(* A call that ends: the state of all others stays, and its name may go.    *)

LEMMA EndKeeps ==
  ASSUME IInv, NEW c \in Running,
         NEW result \in {"stored", "error", "invalid", "aborted"},
         store' = [store EXCEPT ![c] = Ended(result)],
         names' = [names EXCEPT ![store[c].name] = NoFile],
         UNCHANGED <<directories, content, clashed, leftovers, crashes>>
  PROVE  IInv'
<1>1. /\ c \in Stores /\ store[c].name \in TempNames
      /\ Running' = Running \ {c}
      /\ \A d \in Running' : store'[d] = store[d] /\ d \in Running
  BY RunningFacts DEF IInv, TypeOK, Running, Ended
<1>1a. \A d \in Running' : store[d].name = store[c].name => store[d].name[1] \in clashed
  BY <1>1 DEF IInv, OwnNames
<1>2. /\ \A n \in Names : names'[n] = IF n = store[c].name THEN NoFile ELSE names[n]
      /\ \A m \in Magnets : <<m, InPlace>> # store[c].name
  BY <1>1, NameFacts DEF IInv, TypeOK
<1>3. TypeOK'
  <2>1. store' \in [Stores -> Call]
    BY <1>1 DEF IInv, TypeOK, Call, Ended
  <2>2. names' \in [Names -> Files \cup {NoFile}]
    BY DEF IInv, TypeOK
  <2>3. \A d \in Running' :
          store'[d].name[1] \notin clashed => names'[store'[d].name] = store'[d].file
    BY <1>1, <1>1a, <1>2, RunningFacts, NameFacts DEF IInv
  <2> QED
    BY <1>2, <2>1, <2>2, <2>3 DEF IInv, TypeOK
<1>4. InPlaceIntact'
  BY <1>2, NameFacts DEF IInv, InPlaceIntact
<1>5. NoLitter'
  <2> SUFFICES ASSUME NEW n \in TempNames, names'[n] # NoFile
               PROVE  n \in leftovers \/ \E d \in Running' : store'[d].name = n
    BY DEF NoLitter, TempNames
  <2>1. names[n] # NoFile /\ n # store[c].name
    BY <1>2, NameFacts
  <2>2. n \in leftovers \/ \E d \in Running : store[d].name = n
    BY <2>1 DEF IInv, NoLitter, TempNames
  <2> QED
    BY <2>1, <2>2, <1>1
<1>6. OneName'
  BY <1>2 DEF IInv, OneName
<1>7. OwnNames' /\ ChecksumRight' /\ InDirectory'
  BY <1>1 DEF IInv, OwnNames, ChecksumRight, InDirectory
<1>8. FileOfMagnet'
  <2>1. \A d \in Running' : store[d].file # NoFile
    BY <1>1, RunningFacts, FileFacts DEF IInv
  <2> QED
    BY <1>1, <1>2, <2>1 DEF IInv, FileOfMagnet
<1> QED
  BY <1>3, <1>4, <1>5, <1>6, <1>7, <1>8 DEF IInv

-----------------------------------------------------------------------------
(* The steps.                                                               *)

LEMMA OpenKeeps ==
  ASSUME IInv, NEW c \in Stores, NEW m \in Magnets, NEW kind \in Kinds,
         Open(c, m, kind)
  PROVE  IInv'
<1> DEFINE Opened(s, f) ==
      /\ clashed' = clashed \cup { n \in {m} : \E d \in Running : store[d].name = <<m, s>> }
      /\ names' = [names EXCEPT ![<<m, s>>] = f]
      /\ content' = [content EXCEPT ![f] = Empty]
      /\ store' = [store EXCEPT ![c] =
           [pc |-> "writing", result |-> "none", kind |-> kind, name |-> <<m, s>>, file |-> f,
            written |-> 0, checksum |-> TRUE]]
<1>0. PICK s \in Suffixes :
        \E f \in IF names[<<m, s>>] = NoFile THEN Free ELSE {names[<<m, s>>]} : Opened(s, f)
  BY DEF Open
<1>1. PICK f \in IF names[<<m, s>>] = NoFile THEN Free ELSE {names[<<m, s>>]} : Opened(s, f)
  BY <1>0
<1> DEFINE name == <<m, s>>
<1>2. /\ name \in TempNames /\ name \in Names
      /\ directories' = directories \cup {m} /\ UNCHANGED <<leftovers, crashes>>
      /\ c \notin Running
  BY NameFacts DEF TempNames, Open, Running
<1>3. f \in Files
  BY <1>1, <1>2 DEF IInv, TypeOK, Free
<1>4. /\ Running' = Running \cup {c}
      /\ \A d \in Running : store'[d] = store[d]
      /\ store'[c].name = name /\ store'[c].file = f /\ store'[c].written = 0
  BY <1>1, <1>2 DEF IInv, TypeOK, Running
<1>5. \A n \in Names : names'[n] = IF n = name THEN f ELSE names[n]
  BY <1>1, <1>2 DEF IInv, TypeOK
<1>6. \A n \in Names : names[n] = f => n = name
  BY <1>1, <1>2, <1>3, FileFacts DEF IInv, OneName, Free
<1>6a. clashed \subseteq clashed' /\ clashed' \subseteq clashed \cup {m}
  BY <1>1
<1>6b. \A d \in Running : store[d].name = name => m \in clashed'
  BY <1>1
<1>7. ASSUME NEW d \in Running, store[d].file = f
      PROVE  store[d].name[1] = m /\ m \in clashed'
  <2>1. names[name] = f
    BY <1>1, <1>7 DEF Free
  <2>2. store[d].name[1] = m
    BY <1>2, <1>7, <2>1 DEF IInv, FileOfMagnet
  <2>3. CASE m \in clashed
    BY <2>2, <2>3, <1>6a
  <2>4. CASE m \notin clashed
    <3>1. names[store[d].name] = f /\ store[d].name \in Names
      BY <1>7, <2>2, <2>4, RunningFacts, NameFacts DEF IInv
    <3> QED
      BY <3>1, <2>2, <1>6, <1>6b
  <2> QED
    BY <2>3, <2>4
<1>8. \A g \in Files : content'[g] = IF g = f THEN Empty ELSE content[g]
  BY <1>1, <1>3 DEF IInv, TypeOK
<1>9. TypeOK'
  <2>1. store' \in [Stores -> Call]
    <3>1. [pc |-> "writing", result |-> "none", kind |-> kind, name |-> <<m, s>>, file |-> f,
           written |-> 0, checksum |-> TRUE] \in Call
      BY <1>2, <1>3, NumberFacts DEF Call, TempNames
    <3> QED
      BY <1>1, <3>1 DEF IInv, TypeOK
  <2>2. names' \in [Names -> Files \cup {NoFile}]
    BY <1>1, <1>3 DEF IInv, TypeOK
  <2>3. content' \in [Files -> [1 .. Size -> {"right", "wrong", "missing"}]]
    BY <1>1 DEF IInv, TypeOK, Empty
  <2>4. ASSUME NEW d \in Running', store'[d].name[1] \notin clashed'
        PROVE  names'[store'[d].name] = store'[d].file
    <3>1. CASE d = c
      BY <3>1, <1>2, <1>4, <1>5
    <3>2. CASE d # c
      <4>1. d \in Running /\ store'[d] = store[d] /\ store[d].name[1] \notin clashed
        BY <3>2, <2>4, <1>4, <1>6a
      <4>2. store[d].name # name
        BY <4>1, <2>4, <1>6b
      <4> QED
        BY <4>1, <4>2, <1>5, RunningFacts, NameFacts DEF IInv
    <3> QED
      BY <3>1, <3>2
  <2>6. clashed' \subseteq Magnets
    BY <1>6a DEF IInv, TypeOK
  <2>5. \A n \in Names : names'[n] # NoFile => n[1] \in directories'
    BY <1>2, <1>5 DEF IInv, TypeOK
  <2> QED
    BY <1>2, <2>1, <2>2, <2>3, <2>4, <2>5, <2>6 DEF IInv, TypeOK
<1>10. InPlaceIntact'
  <2> SUFFICES ASSUME NEW n \in Magnets \ clashed', names'[<<n, InPlace>>] # NoFile
               PROVE  content'[names'[<<n, InPlace>>]] = Right
    BY DEF InPlaceIntact, Right
  <2>1. <<n, InPlace>> \in Names /\ <<n, InPlace>> # name /\ n \notin clashed
    BY <1>2, <1>6a, NameFacts
  <2>2. /\ names'[<<n, InPlace>>] = names[<<n, InPlace>>]
        /\ names[<<n, InPlace>>] # f /\ names[<<n, InPlace>>] \in Files
    BY <2>1, <1>5, <1>6 DEF IInv, TypeOK
  <2> QED
    BY <2>1, <2>2, <1>8 DEF IInv, InPlaceIntact
<1>11. NoLitter'
  <2> SUFFICES ASSUME NEW n \in TempNames, names'[n] # NoFile
               PROVE  n \in leftovers \/ \E d \in Running' : store'[d].name = n
    BY <1>2 DEF NoLitter, TempNames
  <2>1. CASE n = name
    BY <2>1, <1>4
  <2>2. CASE n # name
    BY <2>2, <1>4, <1>5, NameFacts DEF IInv, NoLitter, TempNames
  <2> QED
    BY <2>1, <2>2
<1>12. OneName'
  BY <1>3, <1>5, <1>6, FileFacts DEF IInv, OneName
<1>13. OwnNames'
  <2> SUFFICES ASSUME NEW d \in Running', NEW e \in Running', d # e,
                      store'[d].name = store'[e].name
               PROVE  store'[d].name[1] \in clashed'
    BY DEF OwnNames
  <2>1. CASE d = c \/ e = c
    BY <2>1, <1>4, <1>6b
  <2>2. CASE d # c /\ e # c
    BY <2>2, <1>4, <1>6a DEF IInv, OwnNames
  <2> QED
    BY <2>1, <2>2
<1>13a. FileOfMagnet'
  <2>1. ASSUME NEW d \in Running', NEW n \in Names, names'[n] = store'[d].file
        PROVE  n[1] = store'[d].name[1]
    <3>1. CASE d = c
      BY <3>1, <2>1, <1>4, <1>5, <1>6
    <3>2. CASE d # c
      BY <3>2, <2>1, <1>4, <1>5, <1>7 DEF IInv, FileOfMagnet
    <3> QED
      BY <3>1, <3>2
  <2>2. ASSUME NEW d \in Running', NEW e \in Running', store'[e].file = store'[d].file
        PROVE  store'[e].name[1] = store'[d].name[1]
    <3>1. CASE d = c \/ e = c
      BY <3>1, <2>2, <1>4, <1>7
    <3>2. CASE d # c /\ e # c
      BY <3>2, <2>2, <1>4 DEF IInv, FileOfMagnet
    <3> QED
      BY <3>1, <3>2
  <2> QED
    BY <2>1, <2>2 DEF FileOfMagnet
<1>14. ChecksumRight'
  <2> SUFFICES ASSUME NEW d \in Running', store'[d].name[1] \notin clashed', store'[d].checksum,
                      NEW k \in 1 .. store'[d].written
               PROVE  content'[store'[d].file][k] = "right"
    BY DEF ChecksumRight
  <2>1. d # c
    BY <1>4, NumberFacts
  <2>2. d \in Running /\ store'[d] = store[d] /\ store[d].name[1] \notin clashed
    BY <2>1, <1>4, <1>6a
  <2>3. store[d].file # f
    BY <2>2, <1>7
  <2>4. content'[store[d].file] = content[store[d].file]
    BY <2>2, <2>3, <1>8, RunningFacts DEF IInv
  <2> QED
    BY <2>2, <2>4 DEF IInv, ChecksumRight
<1>15. InDirectory'
  BY <1>2, <1>4 DEF IInv, InDirectory
<1> QED
  BY <1>9, <1>10, <1>11, <1>12, <1>13, <1>13a, <1>14,
     <1>15 DEF IInv

LEMMA ChunkKeeps ==
  ASSUME IInv, NEW c \in Stores, Chunk(c)
  PROVE  IInv'
<1> DEFINE f == store[c].file
           k == store[c].written + 1
<1>1. PICK chunk \in {"right", "wrong"} :
        /\ content' = [content EXCEPT ![f][k] = chunk]
        /\ store' = [store EXCEPT ![c].written = @ + 1,
                                  ![c].checksum = @ /\ chunk = "right"]
  BY DEF Chunk
<1>2. /\ c \in Running /\ store[c].written < Size
      /\ UNCHANGED <<directories, names, clashed, leftovers, crashes>>
  BY DEF Chunk, Running
<1>3a. /\ f \in Files /\ store[c].written \in 0 .. Size
       /\ store[c] \in [pc : {"writing"}, result : {"none"}, kind : Kinds, name : TempNames,
                        file : Files, written : 0 .. Size, checksum : BOOLEAN]
  BY <1>2, RunningFacts DEF IInv
<1>3b. k \in 1 .. Size /\ k \in 0 .. Size
  BY <1>2, <1>3a, NumberFacts
<1>3. f \in Files /\ k \in 1 .. Size
  BY <1>3a, <1>3b
<1>4. /\ store'[c] = [store[c] EXCEPT !.written = k,
                                      !.checksum = store[c].checksum /\ chunk = "right"]
      /\ \A d \in Stores : d # c => store'[d] = store[d]
  BY <1>1 DEF IInv, TypeOK
<1>5. /\ store'[c] \in [pc : {"writing"}, result : {"none"}, kind : Kinds, name : TempNames,
                        file : Files, written : 0 .. Size, checksum : BOOLEAN]
      /\ store'[c].name = store[c].name /\ store'[c].file = f
      /\ store'[c].written = k
      /\ store'[c].checksum => store[c].checksum /\ chunk = "right"
  BY <1>3a, <1>3b, <1>4, Zenon
<1>6. /\ Running' = Running
      /\ \A d \in Running : store'[d].name = store[d].name /\ store'[d].file = store[d].file
  BY <1>2, <1>4, <1>5 DEF Running
<1>7. \A g \in Files : g # f => content'[g] = content[g]
  BY <1>1 DEF IInv, TypeOK
<1>8. \A j \in 1 .. Size : content'[f][j] = IF j = k THEN chunk ELSE content[f][j]
  BY <1>1, <1>3 DEF IInv, TypeOK
<1>9. TypeOK'
  <2>1. store' \in [Stores -> Call]
    BY <1>1, <1>4, <1>5 DEF IInv, TypeOK, Call, TempNames
  <2>2. content' \in [Files -> [1 .. Size -> {"right", "wrong", "missing"}]]
    BY <1>1, <1>3 DEF IInv, TypeOK
  <2> QED
    BY <1>2, <1>6, <2>1, <2>2 DEF IInv, TypeOK
<1>10. InPlaceIntact'
  <2> SUFFICES ASSUME NEW m \in Magnets \ clashed, names'[<<m, InPlace>>] # NoFile
               PROVE  content'[names'[<<m, InPlace>>]] = Right
    BY <1>2 DEF InPlaceIntact, Right
  <2>1. /\ <<m, InPlace>> \in Names /\ <<m, InPlace>> # store[c].name
        /\ names[<<m, InPlace>>] \in Files
    BY <1>2, RunningFacts, NameFacts DEF IInv, TypeOK, InPlaceIntact
  <2>2. ASSUME names[<<m, InPlace>>] = f PROVE FALSE
    <3>1. store[c].name[1] = m
      BY <2>1, <2>2, <1>2 DEF IInv, FileOfMagnet
    <3> QED
      BY <2>1, <2>2, <3>1, <1>2, OwnFile
  <2> QED
    BY <1>2, <1>7, <2>1, <2>2 DEF IInv, InPlaceIntact
<1>11. NoLitter' /\ OneName' /\ OwnNames' /\ FileOfMagnet' /\ InDirectory'
  BY <1>2, <1>6 DEF IInv, NoLitter, OneName, OwnNames, FileOfMagnet, InDirectory
<1>12. ChecksumRight'
  <2> SUFFICES ASSUME NEW d \in Running, store[d].name[1] \notin clashed, store'[d].checksum,
                      NEW j \in 1 .. store'[d].written
               PROVE  content'[store'[d].file][j] = "right"
    BY <1>2, <1>6 DEF ChecksumRight
  <2>1. CASE d = c
    <3>1. j \in 1 .. k /\ j \in 1 .. Size /\ chunk = "right" /\ store[c].checksum
      BY <2>1, <1>3, <1>5, NumberFacts
    <3>2. j # k => content[f][j] = "right"
      <4>1. j # k => j \in 1 .. store[c].written
        BY <3>1, <1>3a, NumberFacts
      <4> QED
        BY <2>1, <4>1, <3>1, <1>2 DEF IInv, ChecksumRight
    <3> QED
      BY <2>1, <3>1, <3>2, <1>5, <1>8
  <2>2. CASE d # c
    <3>1. store[d].file \in Files /\ store[d].file # f /\ store'[d] = store[d]
      BY <2>2, <1>2, <1>4, OwnFile, RunningFacts DEF IInv
    <3> QED
      BY <3>1, <1>7 DEF IInv, ChecksumRight
  <2> QED
    BY <2>1, <2>2
<1> QED
  BY <1>9, <1>10, <1>11, <1>12 DEF IInv

\* A call that ends with a move: names and answer, and what is known of the file moved.
LEMMA MoveFacts ==
  ASSUME IInv, NEW c \in Stores, Move(c), names[store[c].name] # NoFile
  PROVE  /\ c \in Running /\ names[store[c].name] \in Files /\ store[c].name \in TempNames
         /\ store[c].name \in Names /\ store[c].name[1] \in Magnets
         /\ <<store[c].name[1], InPlace>> \in Names
         /\ <<store[c].name[1], InPlace>> # store[c].name
         /\ names' = [names EXCEPT ![store[c].name] = NoFile,
                                  ![<<store[c].name[1], InPlace>>] = names[store[c].name]]
         /\ \A n \in Names :
              names'[n] = IF n = <<store[c].name[1], InPlace>> THEN names[store[c].name]
                          ELSE IF n = store[c].name THEN NoFile ELSE names[n]
         /\ store' = [store EXCEPT ![c] = Ended(MoveResult(c))]
         /\ MoveResult(c) \in {"stored", "error"}
         /\ UNCHANGED <<directories, content, clashed, leftovers, crashes>>
         /\ store[c].name[1] \notin clashed => content[names[store[c].name]] = Right
<1> DEFINE place == <<store[c].name[1], InPlace>>
           g == names[store[c].name]
<1>1. /\ c \in Running
      /\ store[c].name \in TempNames /\ store[c].name \in Names
      /\ store[c].name[1] \in Magnets /\ place \in Names /\ place # store[c].name
  <2>1. c \in Running
    BY DEF Move, Running
  <2> QED
    BY <2>1, RunningFacts, NameFacts DEF IInv
<1>1a. g \in Files
  BY <1>1 DEF IInv, TypeOK
<1>2. /\ names' = Unlinked(Moved(c), c)
      /\ store' = [store EXCEPT ![c] = Ended(MoveResult(c))]
      /\ UNCHANGED <<directories, content, clashed, leftovers, crashes>>
  BY <1>1 DEF Move
<1>3. MoveResult(c) \in {"stored", "error"}
  BY DEF MoveResult
<1>4. /\ names' = [names EXCEPT ![store[c].name] = NoFile, ![place] = g]
      /\ \A n \in Names : names'[n] = IF n = place THEN g
                                      ELSE IF n = store[c].name THEN NoFile ELSE names[n]
  <2> DEFINE after == [names EXCEPT ![store[c].name] = NoFile, ![place] = g]
  <2>1. /\ names = [n \in Names |-> names[n]]
        /\ names' = [[names EXCEPT ![store[c].name] = NoFile, ![place] = g]
                       EXCEPT ![store[c].name] = NoFile]
    BY <1>1, <1>2 DEF Unlinked, Moved, IInv, TypeOK
  <2>2. \A n \in Names : after[n] = IF n = place THEN g
                                    ELSE IF n = store[c].name THEN NoFile ELSE names[n]
    BY <1>1, <2>1
  <2>3. names' = after
    BY <1>1, <2>1, <2>2
  <2> QED
    BY <2>2, <2>3
<1>5. ASSUME store[c].name[1] \notin clashed PROVE content[g] = Right
  <2>1. store[c].checksum /\ store[c].written = Size
    BY DEF Move, Matches
  <2>2. g = store[c].file
    BY <1>1, <1>5, RunningFacts DEF IInv
  <2>3. \A k \in 1 .. Size : content[g][k] = "right"
    BY <1>1, <1>5, <2>1, <2>2 DEF IInv, ChecksumRight
  <2>4. content[g] = [k \in 1 .. Size |-> content[g][k]]
    BY <1>1a DEF IInv, TypeOK
  <2> QED
    BY <2>3, <2>4 DEF Right
<1> QED
  BY <1>1, <1>1a, <1>2, <1>3, <1>4, <1>5

LEMMA MoveKeeps ==
  ASSUME IInv, NEW c \in Stores, Move(c), names[store[c].name] # NoFile
  PROVE  IInv'
<1> DEFINE g == names[store[c].name]
           place == <<store[c].name[1], InPlace>>
<1>1. /\ c \in Running /\ g \in Files /\ store[c].name \in TempNames
      /\ store[c].name \in Names /\ store[c].name[1] \in Magnets
      /\ place \in Names /\ place # store[c].name
      /\ \A n \in Names : names'[n] = IF n = place THEN g
                                      ELSE IF n = store[c].name THEN NoFile ELSE names[n]
  BY MoveFacts
<1>2. /\ store' = [store EXCEPT ![c] = Ended(MoveResult(c))]
      /\ MoveResult(c) \in {"stored", "error"}
      /\ UNCHANGED <<directories, content, clashed, leftovers, crashes>>
  BY MoveFacts
<1>3. names' \in [Names -> Files \cup {NoFile}]
  <2>1. names' = [names EXCEPT ![store[c].name] = NoFile, ![place] = g]
    BY MoveFacts
  <2> QED
    BY <1>1, <2>1 DEF IInv, TypeOK
<1>5. \A n \in Names : names[n] = g => n = store[c].name
  BY <1>1 DEF IInv, OneName
<1>6. store[c].name[1] \notin clashed => content[g] = Right
  BY MoveFacts
<1>7. /\ Running' = Running \ {c}
      /\ \A d \in Running' : store'[d] = store[d] /\ d \in Running
  BY <1>1, <1>2 DEF IInv, TypeOK, Running, Ended
<1>7a. \A d \in Running' : store[d].name = store[c].name => store[d].name[1] \in clashed
  BY <1>1, <1>7 DEF IInv, OwnNames
<1>8. TypeOK'
  <2>1. store' \in [Stores -> Call]
    BY <1>2 DEF IInv, TypeOK, Call, Ended
  <2>3. \A n \in Names : names'[n] # NoFile => n[1] \in directories
    BY <1>1 DEF IInv, TypeOK, InDirectory
  <2>4. ASSUME NEW d \in Running', store[d].name[1] \notin clashed
        PROVE  names'[store[d].name] = store[d].file
    <3>1. store[d].name \in TempNames /\ names[store[d].name] = store[d].file
      BY <1>7, <2>4, RunningFacts DEF IInv
    <3>2. store[d].name # place /\ store[d].name \in Names /\ store[d].name # store[c].name
      BY <1>1, <1>7a, <2>4, <3>1, NameFacts
    <3> QED
      BY <1>1, <3>1, <3>2
  <2> QED
    BY <1>2, <1>3, <1>7, <2>1, <2>3, <2>4 DEF IInv, TypeOK
<1>9. InPlaceIntact'
  <2> SUFFICES ASSUME NEW m \in Magnets \ clashed, names'[<<m, InPlace>>] # NoFile
               PROVE  content[names'[<<m, InPlace>>]] = Right
    BY <1>2 DEF InPlaceIntact, Right
  <2>1. <<m, InPlace>> \in Names /\ <<m, InPlace>> # store[c].name
    BY <1>1, NameFacts
  <2>2. CASE m = store[c].name[1]
    BY <2>1, <2>2, <1>1, <1>6
  <2>3. CASE m # store[c].name[1]
    <3>1. names'[<<m, InPlace>>] = names[<<m, InPlace>>]
      BY <2>1, <2>3, <1>1
    <3> QED
      BY <3>1 DEF IInv, InPlaceIntact
  <2> QED
    BY <2>2, <2>3
<1>10. NoLitter'
  <2> SUFFICES ASSUME NEW n \in TempNames, names'[n] # NoFile
               PROVE  n \in leftovers \/ \E d \in Running' : store'[d].name = n
    BY <1>2 DEF NoLitter, TempNames
  <2>1. n # place /\ n \in Names
    BY <1>1, NameFacts
  <2>2. names[n] # NoFile /\ n # store[c].name
    BY <1>1, <2>1
  <2>3. n \in leftovers \/ \E d \in Running : store[d].name = n
    BY <2>2 DEF IInv, NoLitter, TempNames
  <2> QED
    BY <2>2, <2>3, <1>7
<1>11. OneName'
  <2> SUFFICES ASSUME NEW n \in Names, NEW o \in Names, names'[n] = names'[o], names'[n] # NoFile
               PROVE  n = o
    BY DEF OneName
  <2>1. n # store[c].name /\ o # store[c].name
    BY <1>1
  <2>2. CASE n = place \/ o = place
    BY <1>1, <1>5, <2>1, <2>2
  <2>3. CASE n # place /\ o # place
    <3>1. names[n] = names[o] /\ names[n] # NoFile
      BY <1>1, <2>1, <2>3
    <3> QED
      BY <3>1 DEF IInv, OneName
  <2> QED
    BY <2>2, <2>3
<1>12. OwnNames' /\ ChecksumRight' /\ InDirectory'
  BY <1>2, <1>7 DEF IInv, OwnNames, ChecksumRight, InDirectory
<1>13. FileOfMagnet'
  <2>1. ASSUME NEW d \in Running', NEW n \in Names, names'[n] = store[d].file
        PROVE  n[1] = store[d].name[1]
    <3>1. store[d].file # NoFile
      BY <1>7, RunningFacts, FileFacts DEF IInv
    <3>2. CASE n = place
      <4>1. names[store[c].name] = store[d].file
        BY <3>2, <2>1, <1>1
      <4>2. store[c].name[1] = store[d].name[1]
        BY <4>1, <1>1, <1>7 DEF IInv, FileOfMagnet
      <4> QED
        BY <3>2, <4>2
    <3>3. CASE n # place
      BY <3>1, <3>3, <2>1, <1>1, <1>7 DEF IInv, FileOfMagnet
    <3> QED
      BY <3>2, <3>3
  <2> QED
    BY <2>1, <1>7 DEF IInv, FileOfMagnet
<1> QED
  BY <1>8, <1>9, <1>10, <1>11, <1>12, <1>13 DEF IInv

LEMMA CrashKeeps ==
  ASSUME IInv, Crash
  PROVE  IInv'
<1>1. /\ Running' = {} /\ \A c \in Stores : store'[c] = Idle
      /\ leftovers' = leftovers \cup { store[c].name : c \in Running }
      /\ UNCHANGED <<directories, names, content, clashed>>
  BY DEF Crash, Running, Idle
<1>2. TypeOK'
  <2>1. store' \in [Stores -> Call]
    BY DEF Crash, Call, Idle
  <2>2. leftovers' \subseteq Magnets \X Suffixes
    BY <1>1, RunningFacts DEF IInv, TypeOK, TempNames
  <2>3. crashes' \in 0 .. MaxCrashes
    BY NumberFacts DEF Crash, IInv, TypeOK
  <2> QED
    BY <1>1, <2>1, <2>2, <2>3 DEF IInv, TypeOK
<1> QED
  BY <1>1, <1>2
  DEF IInv, InPlaceIntact, NoLitter, OneName, OwnNames, FileOfMagnet, ChecksumRight, InDirectory

LEMMA NextKeeps ==
  ASSUME IInv, [Next]_vars
  PROVE  IInv'
<1>1. ASSUME NEW c \in Stores, NEW m \in Magnets, NEW kind \in Kinds, Open(c, m, kind) PROVE IInv'
  BY <1>1, OpenKeeps
<1>2. ASSUME NEW c \in Stores, NEW m \in Magnets, NEW kind \in Kinds, OpenFails(c, m, kind)
      PROVE  IInv'
  <2>1. /\ Running' = Running /\ \A d \in Running : store'[d] = store[d]
        /\ UNCHANGED <<directories, names, content, clashed, leftovers, crashes>>
    BY <1>2 DEF OpenFails, IInv, TypeOK, Running, Ended
  <2>2. store' \in [Stores -> Call]
    BY <1>2 DEF OpenFails, IInv, TypeOK, Call, Ended
  <2>3. TypeOK'
    BY <2>1, <2>2 DEF IInv, TypeOK
  <2> QED
    BY <2>1, <2>3
    DEF IInv, InPlaceIntact, NoLitter, OneName, OwnNames, FileOfMagnet, ChecksumRight, InDirectory
<1>3. ASSUME NEW c \in Stores, Chunk(c) PROVE IInv'
  BY <1>3, ChunkKeeps
<1>4. ASSUME NEW c \in Stores, Move(c) PROVE IInv'
  <2>1. CASE names[store[c].name] # NoFile
    BY <1>4, <2>1, MoveKeeps
  <2>2. CASE names[store[c].name] = NoFile
    <3>1. c \in Running
      BY <1>4 DEF Move, Running
    <3>2. /\ store' = [store EXCEPT ![c] = Ended("error")]
          /\ UNCHANGED <<names, directories, content, clashed, leftovers, crashes>>
      BY <1>4, <2>2 DEF Move
    <3>3. names' = [names EXCEPT ![store[c].name] = NoFile]
      BY <2>2, <3>2 DEF IInv, TypeOK
    <3> QED
      BY <3>1, <3>2, <3>3, EndKeeps
  <2> QED
    BY <2>1, <2>2
<1>5. ASSUME NEW c \in Stores, Reject(c) \/ Abort(c) PROVE IInv'
  <2>1. c \in Running
    BY <1>5 DEF Reject, Abort, Running
  <2>2. PICK result \in {"error", "invalid", "aborted"} :
          store' = [store EXCEPT ![c] = Ended(result)]
    BY <1>5 DEF Reject, Abort, Raised
  <2> QED
    BY <1>5, <2>1, <2>2, EndKeeps DEF Reject, Abort, Unlinked
<1>6. CASE Crash
  BY <1>6, CrashKeeps
<1>7. CASE UNCHANGED vars
  BY <1>7 DEF vars, IInv, TypeOK, InPlaceIntact, NoLitter, OneName, OwnNames, FileOfMagnet,
     ChecksumRight, InDirectory, Running
<1> QED
  BY <1>1, <1>2, <1>3, <1>4, <1>5, <1>6, <1>7 DEF Next

LEMMA Invariant == Spec => []IInv
<1>1. IInv /\ [Next]_vars => IInv'
  BY NextKeeps
<1> QED
  BY InitInv, <1>1, PTL DEF Spec

-----------------------------------------------------------------------------
\* Types, for any number of calls: a call that runs finds its file under its name, if no
\* numbers clashed.
THEOREM TypeCorrect == Spec => []TypeOK
<1>1. IInv => TypeOK
  BY DEF IInv
<1> QED
  BY <1>1, Invariant, PTL

\* A content file in place is complete and right at every moment, under all
\* interleavings of any number of downloads and uploads, with crashes, until two calls
\* for that very magnet draw the same number while they run.
THEOREM PlaceIntact == Spec => []InPlaceIntact
<1>1. IInv => InPlaceIntact
  BY DEF IInv
<1> QED
  BY <1>1, Invariant, PTL

\* Every temporary file belongs to a call that runs or was left by a crash.
THEOREM LitterExplained == Spec => []NoLitter
<1>1. IInv => NoLitter
  BY DEF IInv
<1> QED
  BY <1>1, Invariant, PTL

-----------------------------------------------------------------------------
(* The refinement.  By InPlaceIntact what is served depends on the names in  *)
(* place and on the numbers that clashed alone.                              *)

Contents == [m \in Magnets |-> IF m \in clashed THEN Anything ELSE Served(m)]
Answer == [c \in Stores |-> store[c].result]

LEMMA Distinct == Anything # <<>> /\ Anything # Right
<1>1. 1 \in 1 .. Size
  BY NumberFacts
<1>2. Right[1] = "right" /\ Anything[1] = "anything"
  BY <1>1 DEF Right, Anything
<1> QED
  BY <1>2 DEF Anything

LEMMA ServedWhole ==
  ASSUME IInv
  PROVE  Contents = [m \in Magnets |-> IF m \in clashed THEN Anything
                                       ELSE IF names[<<m, InPlace>>] = NoFile THEN <<>> ELSE Right]
BY DEF Contents, Served, IInv, InPlaceIntact

LEMMA ServedWholeNext ==
  ASSUME IInv'
  PROVE  Contents' = [m \in Magnets |-> IF m \in clashed' THEN Anything
                                        ELSE IF names'[<<m, InPlace>>] = NoFile THEN <<>> ELSE Right]
<1>1. Right' = Right /\ Anything' = Anything
  BY DEF Right, Anything
<1> QED
  BY <1>1 DEF Contents, Served, IInv, InPlaceIntact

\* A step that leaves the names in place alone leaves the contents alone.
LEMMA PlaceAlone ==
  ASSUME IInv, IInv', UNCHANGED clashed,
         \A m \in Magnets : names'[<<m, InPlace>>] = names[<<m, InPlace>>]
  PROVE  Contents' = Contents
BY ServedWhole, ServedWholeNext

LEMMA RefineInit == Init => Abstract!Init
BY NameFacts DEF Init, Abstract!Init, Served, Idle

LEMMA RefineMove ==
  ASSUME IInv, NEW c \in Stores, Move(c), names[store[c].name] # NoFile, IInv'
  PROVE  \E m \in Magnets : Abstract!Put(c, m)
<1> DEFINE m == store[c].name[1]
           g == names[store[c].name]
<1>1. /\ m \in Magnets /\ g \in Files /\ g # NoFile /\ c \in Running
      /\ \A n \in Names : names'[n] = IF n = <<m, InPlace>> THEN g
                                      ELSE IF n = store[c].name THEN NoFile ELSE names[n]
  BY MoveFacts
<1>2. store' = [store EXCEPT ![c] = Ended(MoveResult(c))] /\ UNCHANGED clashed
  BY MoveFacts
<1>3. /\ names'[<<m, InPlace>>] = g
      /\ \A n \in Magnets : n # m => names'[<<n, InPlace>>] = names[<<n, InPlace>>]
  <2>1. \A n \in Magnets : <<n, InPlace>> \in Names /\ <<n, InPlace>> # store[c].name
    <3>1. store[c].name \in TempNames
      BY <1>1, RunningFacts DEF IInv
    <3> QED
      BY <3>1, NameFacts
  <2> QED
    BY <1>1, <2>1
<1>4. Contents' = [Contents EXCEPT ![m] = IF @ = Anything THEN Anything ELSE Right]
  <2>1. ASSUME NEW n \in Magnets, n # m PROVE Contents'[n] = Contents[n]
    <3>1. names'[<<n, InPlace>>] = names[<<n, InPlace>>]
      BY <1>3, <2>1
    <3>2. /\ Contents'[n] = IF n \in clashed' THEN Anything
                            ELSE IF names'[<<n, InPlace>>] = NoFile THEN <<>> ELSE Right
          /\ Contents[n] = IF n \in clashed THEN Anything
                           ELSE IF names[<<n, InPlace>>] = NoFile THEN <<>> ELSE Right
      BY ServedWhole, ServedWholeNext
    <3> QED
      BY <1>2, <3>1, <3>2
  <2>2. Contents'[m] = IF m \in clashed THEN Anything ELSE Right
    BY <1>1, <1>2, <1>3, ServedWholeNext
  <2>3. Contents[m] = Anything <=> m \in clashed
    BY <1>1, ServedWhole, Distinct
  <2>4. /\ Contents = [n \in Magnets |-> Contents[n]]
        /\ Contents' = [n \in Magnets |-> Contents'[n]]
    BY DEF Contents
  <2> QED
    BY <1>1, <2>1, <2>2, <2>3, <2>4
<1>5. /\ MoveResult(c) \in {"stored", "error"}
      /\ Answer' = [Answer EXCEPT ![c] = MoveResult(c)]
  BY <1>2 DEF MoveResult, Answer, Ended, IInv, TypeOK
<1> QED
  BY <1>1, <1>4, <1>5 DEF Abstract!Put, Contents, Answer

\* A call that opens a file: one that nobody notices, or one that clashes.
LEMMA RefineOpen ==
  ASSUME IInv, IInv', NEW c \in Stores, NEW m \in Magnets, NEW kind \in Kinds, Open(c, m, kind)
  PROVE  Abstract!Call(c) \/ Abstract!Clash(c, m)
<1>1. \A n \in Magnets : names'[<<n, InPlace>>] = names[<<n, InPlace>>]
  <2>1. PICK s \in Suffixes : \E f : names' = [names EXCEPT ![<<m, s>>] = f]
    BY DEF Open
  <2>2. \A n \in Magnets : <<n, InPlace>> \in Names /\ <<n, InPlace>> # <<m, s>>
    BY NameFacts, NumberFacts DEF InPlace
  <2> QED
    BY <2>1, <2>2 DEF IInv, TypeOK
<1>2. Answer' = [Answer EXCEPT ![c] = "none"]
  <2>1. PICK r \in [pc : {"writing"}, result : {"none"}, kind : {kind}, name : {m} \X Suffixes,
                    file : Free \cup { names[n] : n \in Names }, written : {0},
                    checksum : {TRUE}] :
          store' = [store EXCEPT ![c] = r]
    <3>1. PICK s \in Suffixes :
            \E f \in IF names[<<m, s>>] = NoFile THEN Free ELSE {names[<<m, s>>]} :
              store' = [store EXCEPT ![c] =
                [pc |-> "writing", result |-> "none", kind |-> kind, name |-> <<m, s>>,
                 file |-> f, written |-> 0, checksum |-> TRUE]]
      BY DEF Open
    <3>2. <<m, s>> \in Names
      BY NameFacts DEF TempNames
    <3> QED
      BY <3>1, <3>2
  <2> QED
    BY <2>1 DEF Answer, IInv, TypeOK
<1>3. clashed' = clashed \/ clashed' = clashed \cup {m}
  BY DEF Open
<1>4. CASE clashed' = clashed
  BY <1>1, <1>2, <1>4, PlaceAlone DEF Abstract!Call, Contents, Answer
<1>5. CASE clashed' = clashed \cup {m}
  <2>1. ASSUME NEW n \in Magnets PROVE Contents'[n] = IF n = m THEN Anything ELSE Contents[n]
    <3>1. /\ Contents'[n] = IF n \in clashed' THEN Anything
                            ELSE IF names'[<<n, InPlace>>] = NoFile THEN <<>> ELSE Right
          /\ Contents[n] = IF n \in clashed THEN Anything
                           ELSE IF names[<<n, InPlace>>] = NoFile THEN <<>> ELSE Right
      BY ServedWhole, ServedWholeNext
    <3> QED
      BY <1>1, <1>5, <3>1
  <2>2. /\ Contents = [n \in Magnets |-> Contents[n]]
        /\ Contents' = [n \in Magnets |-> Contents'[n]]
    BY DEF Contents
  <2>3. Contents' = [Contents EXCEPT ![m] = Anything]
    BY <2>1, <2>2
  <2> QED
    BY <1>2, <2>3 DEF Abstract!Clash, Contents, Answer
<1> QED
  BY <1>3, <1>4, <1>5

LEMMA RefineNext ==
  ASSUME IInv, [Next]_vars
  PROVE  [Abstract!Next]_(Abstract!vars)
<1>0. IInv'
  BY NextKeeps
<1>1. ASSUME NEW c \in Stores, NEW m \in Magnets, NEW kind \in Kinds, Open(c, m, kind)
      PROVE  Abstract!Call(c) \/ Abstract!Clash(c, m)
  BY <1>0, <1>1, RefineOpen
<1>2. ASSUME NEW c \in Stores, NEW m \in Magnets, NEW kind \in Kinds, OpenFails(c, m, kind)
      PROVE  Abstract!Refuse(c)
  <2>1. Answer' = [Answer EXCEPT ![c] = "error"] /\ UNCHANGED <<names, clashed>>
    BY <1>2 DEF OpenFails, Answer, Ended, IInv, TypeOK
  <2> QED
    BY <1>0, <2>1, PlaceAlone DEF Abstract!Refuse, Contents, Answer
<1>3. ASSUME NEW c \in Stores, Chunk(c) PROVE UNCHANGED Abstract!vars
  <2>1. Answer' = Answer /\ UNCHANGED <<names, clashed>>
    <3>1. PICK chunk \in {"right", "wrong"} :
            store' = [store EXCEPT ![c].written = @ + 1,
                                   ![c].checksum = @ /\ chunk = "right"]
      BY <1>3 DEF Chunk
    <3>2. /\ \A d \in Stores : d # c => store'[d] = store[d]
          /\ store'[c].result = store[c].result
      <4>1. store[c] \in [pc : {"writing"}, result : {"none"}, kind : Kinds, name : TempNames,
                          file : Files, written : 0 .. Size, checksum : BOOLEAN]
        BY <1>3, RunningFacts DEF Chunk, Running, IInv
      <4> QED
        BY <3>1, <4>1 DEF IInv, TypeOK
    <3> QED
      BY <1>3, <3>2 DEF Chunk, Answer
  <2> QED
    BY <1>0, <2>1, PlaceAlone DEF Abstract!vars, Contents, Answer
<1>4. ASSUME NEW c \in Stores, Move(c)
      PROVE  Abstract!Refuse(c) \/ \E m \in Magnets : Abstract!Put(c, m)
  <2>1. CASE names[store[c].name] # NoFile
    BY <1>0, <1>4, <2>1, RefineMove
  <2>2. CASE names[store[c].name] = NoFile
    <3>1. store' = [store EXCEPT ![c] = Ended("error")] /\ UNCHANGED <<names, clashed>>
      BY <1>4, <2>2 DEF Move
    <3>2. Answer' = [Answer EXCEPT ![c] = "error"]
      BY <3>1 DEF Answer, Ended, IInv, TypeOK
    <3> QED
      BY <1>0, <3>1, <3>2, PlaceAlone DEF Abstract!Refuse, Contents, Answer
  <2> QED
    BY <2>1, <2>2
<1>5. ASSUME NEW c \in Stores, Reject(c) \/ Abort(c) PROVE Abstract!Refuse(c)
  <2>1. PICK a \in {"error", "invalid", "aborted"} :
          store' = [store EXCEPT ![c] = Ended(a)] /\ UNCHANGED clashed
    BY <1>5 DEF Reject, Abort, Raised
  <2>2. Answer' = [Answer EXCEPT ![c] = a]
    BY <2>1 DEF Answer, Ended, IInv, TypeOK
  <2>3. \A n \in Magnets : names'[<<n, InPlace>>] = names[<<n, InPlace>>]
    <3>1. store[c].name \in TempNames
      BY <1>5, RunningFacts DEF Reject, Abort, Running, IInv
    <3>2. names' = [names EXCEPT ![store[c].name] = NoFile]
      BY <1>5 DEF Reject, Abort, Unlinked
    <3> QED
      BY <3>1, <3>2, NameFacts DEF IInv, TypeOK
  <2> QED
    BY <1>0, <2>1, <2>2, <2>3, PlaceAlone DEF Abstract!Refuse, Contents, Answer
<1>6. CASE Crash
  <2>1. Answer' = [c \in Stores |-> "none"] /\ UNCHANGED <<names, clashed>>
    BY <1>6 DEF Crash, Answer, Idle
  <2>2. Abstract!Restart
    BY <1>0, <2>1, PlaceAlone DEF Abstract!Restart, Contents, Answer
  <2> QED
    BY <2>2 DEF Abstract!Next
<1>7. CASE UNCHANGED vars
  BY <1>7 DEF vars, Abstract!vars, Served
<1> QED
  BY <1>1, <1>2, <1>3, <1>4, <1>5, <1>6, <1>7 DEF Next, Abstract!Next

\* store() implements the abstract store: the chunks, checksums, names, aborts and
\* crashes show to nobody who reads a content or the answer of a call, and calls that
\* draw the same number show to the readers of their own magnet only.
THEOREM ImplementsContentStore == Spec => ActsAsContentStore
<1>1. IInv /\ [Next]_vars => [Abstract!Next]_(Abstract!vars)
  BY RefineNext
<1> QED
  BY <1>1, RefineInit, Invariant, PTL DEF Spec, ActsAsContentStore, Abstract!Spec

\* Once a content is in place, something stays there, whatever numbers the calls draw.
THEOREM PlaceKept == Spec => StaysInPlace
<1>1. ASSUME IInv, [Next]_vars, NEW m \in Magnets, names[<<m, InPlace>>] # NoFile
      PROVE  names'[<<m, InPlace>>] # NoFile
  <2>1. \A c \in Running : store[c].name \in TempNames /\ <<m, InPlace>> # store[c].name
    BY <1>1, RunningFacts, NameFacts DEF IInv
  <2>2. <<m, InPlace>> \in Names
    BY NameFacts
  <2>3. ASSUME NEW c \in Stores, NEW n \in Magnets, NEW kind \in Kinds, Open(c, n, kind)
        PROVE  names'[<<m, InPlace>>] = names[<<m, InPlace>>]
    <3>1. PICK s \in Suffixes : \E f : names' = [names EXCEPT ![<<n, s>>] = f]
      BY <2>3 DEF Open
    <3>2. <<m, InPlace>> # <<n, s>>
      BY NumberFacts DEF InPlace
    <3> QED
      BY <1>1, <2>2, <3>1, <3>2 DEF IInv, TypeOK
  <2>4. ASSUME NEW c \in Stores, Move(c) PROVE names'[<<m, InPlace>>] # NoFile
    <3>1. CASE names[store[c].name] = NoFile
      BY <1>1, <2>4, <3>1 DEF Move
    <3>2. CASE names[store[c].name] # NoFile
      <4>1. /\ c \in Running /\ names[store[c].name] \in Files
            /\ \A n \in Names :
                 names'[n] = IF n = <<store[c].name[1], InPlace>> THEN names[store[c].name]
                             ELSE IF n = store[c].name THEN NoFile ELSE names[n]
        BY <1>1, <2>4, <3>2, MoveFacts
      <4> QED
        BY <1>1, <2>1, <2>2, <3>2, <4>1
    <3> QED
      BY <3>1, <3>2
  <2>5. ASSUME NEW c \in Stores, Reject(c) \/ Abort(c)
        PROVE  names'[<<m, InPlace>>] = names[<<m, InPlace>>]
    <3>1. c \in Running /\ names' = [names EXCEPT ![store[c].name] = NoFile]
      BY <2>5 DEF Reject, Abort, Unlinked, Running
    <3> QED
      BY <1>1, <2>1, <2>2, <3>1 DEF IInv, TypeOK
  <2>6. ASSUME \/ UNCHANGED vars
               \/ Crash
               \/ \E c \in Stores : Chunk(c) \/ \E n \in Magnets, kind \in Kinds : OpenFails(c, n, kind)
        PROVE  UNCHANGED names
    BY <2>6 DEF vars, Crash, Chunk, OpenFails
  <2> QED
    BY <1>1, <2>3, <2>4, <2>5, <2>6 DEF Next
<1>2. IInv /\ [Next]_vars =>
        [\A m \in Magnets : names[<<m, InPlace>>] # NoFile => names'[<<m, InPlace>>] # NoFile]_vars
  BY <1>1
<1> QED
  BY <1>2, Invariant, PTL DEF Spec, StaysInPlace
=============================================================================
