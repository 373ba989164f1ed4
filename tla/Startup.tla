------------------------------ MODULE Startup -------------------------------
(***************************************************************************)
(* The start of a node: cli.py, the resolution of contract addresses        *)
(* (contract/service.py) that Application does before anything else, and    *)
(* the migrations DatabaseService applies (database/migrations.py), with    *)
(* several processes started on one database and processes that die.        *)
(*                                                                          *)
(* Of yoyo, the library behind the migrations, is assumed: its lock is a    *)
(* row of the database, so a process that dies leaves it; waiting for it    *)
(* times out with an exception; a migration is applied and marked in one    *)
(* step; rolling one back runs its rollback script, of which src/migrations *)
(* has none, and takes the mark away.                                       *)
(***************************************************************************)
EXTENDS Naturals, FiniteSets

CONSTANTS
  Processes,     \* positive numbers
  Migrations,    \* numbers, in the order of their application
  MaxVersion     \* bound: versions of the two contracts the token refers to

ASSUME StartupAssumption ==
  /\ Processes \subseteq Nat \ {0}
  /\ Migrations \subseteq Nat /\ IsFiniteSet(Migrations)
  /\ MaxVersion \in Nat

VARIABLES
  pc,        \* where each process stands; "off" when there is none
  since,     \* the versions at the start of each process
  address,   \* content_address and peering_address: the versions resolved, 0 for None
  todo,      \* the migrations a process goes through
  version,   \* the versions of the contracts that the token refers to
  lock,      \* the process in the row of yoyo's lock, or 0
  marks,     \* migrations marked as applied
  tables     \* migrations whose tables there are

vars == <<pc, since, address, todo, version, lock, marks, tables>>

Contracts == {"content", "peering"}
None == [c \in Contracts |-> 0]

Init ==
  /\ pc = [p \in Processes |-> "off"]
  /\ since = [p \in Processes |-> None]
  /\ address = [p \in Processes |-> None]
  /\ todo = [p \in Processes |-> {}]
  /\ version = [c \in Contracts |-> 1]
  /\ lock = 0
  /\ marks = {} /\ tables = {}

Goto(p, place) == pc' = [pc EXCEPT ![p] = place]

\* Mutant: addresses outlive the process that resolved them.
StartProcess_Cached(p) ==
  /\ pc[p] = "off"
  /\ Goto(p, IF address[p] = None THEN "content" ELSE "database")
  /\ since' = [since EXCEPT ![p] = version]
  /\ UNCHANGED <<address, todo, version, lock, marks, tables>>

\* cli() up to the first request of resolve(), which comes before any service.
StartProcess(p) ==
  /\ pc[p] = "off"
  /\ Goto(p, "content")
  /\ since' = [since EXCEPT ![p] = version]
  /\ address' = [address EXCEPT ![p] = None]
  /\ UNCHANGED <<todo, version, lock, marks, tables>>

\* _resolve_contract_address and create_content_service or create_peering_service.
Resolve(p, c) ==
  /\ pc[p] = c
  /\ address' = [address EXCEPT ![p][c] = version[c]]
  /\ Goto(p, IF c = "content" THEN "peering" ELSE "database")
  /\ UNCHANGED <<since, todo, version, lock, marks, tables>>

\* The request fails, or its answer is '0x'.  cli() logs the exception and exits.
ResolveFails(p) ==
  /\ pc[p] \in Contracts
  /\ Goto(p, "off")
  /\ UNCHANGED <<since, address, todo, version, lock, marks, tables>>

-----------------------------------------------------------------------------
(* apply_migrations.                                                        *)

LockFree == lock = 0

\* backend.lock() and backend.to_apply()
TakeLock(p) ==
  /\ pc[p] = "database"
  /\ LockFree
  /\ lock' = p
  /\ todo' = [todo EXCEPT ![p] = Migrations \ marks]
  /\ Goto(p, "applying")
  /\ UNCHANGED <<since, address, version, marks, tables>>

\* `finally` without `applied`: backend.to_rollback()
Fail(p) ==
  /\ Goto(p, "rollback")
  /\ todo' = [todo EXCEPT ![p] = marks]

\* backend.lock() raises.
LockTimeout(p) ==
  /\ pc[p] = "database"
  /\ ~LockFree
  /\ Fail(p)
  /\ UNCHANGED <<since, address, version, lock, marks, tables>>

First(ms) == CHOOSE m \in ms : \A n \in ms : m <= n

\* backend.apply_migrations: the next one.
Apply(p) ==
  /\ pc[p] = "applying" /\ todo[p] # {}
  /\ LET m == First(todo[p])
     IN /\ m \notin tables
        /\ tables' = tables \cup {m}
        /\ marks' = marks \cup {m}
        /\ todo' = [todo EXCEPT ![p] = @ \ {m}]
  /\ UNCHANGED <<pc, since, address, version, lock>>

\* It raises, as it does if its tables are there, but may for other reasons as well.
ApplyFails(p) ==
  /\ pc[p] = "applying" /\ todo[p] # {}
  /\ lock' = 0
  /\ Fail(p)
  /\ UNCHANGED <<since, address, version, marks, tables>>

\* "applied = True"
Applied(p) ==
  /\ pc[p] = "applying" /\ todo[p] = {}
  /\ lock' = 0
  /\ Goto(p, "running")
  /\ UNCHANGED <<since, address, todo, version, marks, tables>>

\* Mutant: with rollback scripts.
Rollback_Drops(p) ==
  /\ pc[p] = "rollback" /\ todo[p] # {}
  /\ \E m \in todo[p] :
       /\ marks' = marks \ {m} /\ tables' = tables \ {m}
       /\ todo' = [todo EXCEPT ![p] = @ \ {m}]
  /\ UNCHANGED <<pc, since, address, version, lock>>

\* backend.rollback_migrations, which runs without the lock: the next one.
Rollback(p) ==
  /\ pc[p] = "rollback" /\ todo[p] # {}
  /\ LET m == CHOOSE m \in todo[p] : \A n \in todo[p] : n <= m
     IN /\ marks' = marks \ {m}
        /\ todo' = [todo EXCEPT ![p] = @ \ {m}]
  /\ UNCHANGED <<pc, since, address, version, lock, tables>>

\* raise MigrationError(), after which cli() ends the process.
RolledBack(p) ==
  /\ pc[p] = "rollback" /\ todo[p] = {}
  /\ Goto(p, "off")
  /\ UNCHANGED <<since, address, todo, version, lock, marks, tables>>

-----------------------------------------------------------------------------
\* The end of the process, at any point: Ctrl+C, or its death.
Exit(p) ==
  /\ pc[p] # "off"
  /\ Goto(p, "off")
  /\ todo' = [todo EXCEPT ![p] = {}]
  /\ UNCHANGED <<since, address, version, lock, marks, tables>>

\* The owner of the token replaces a contract.
Replace(c) ==
  /\ version[c] < MaxVersion
  /\ version' = [version EXCEPT ![c] = @ + 1]
  /\ UNCHANGED <<pc, since, address, todo, lock, marks, tables>>

Step(p) ==
  \/ StartProcess(p) \/ ResolveFails(p) \/ \E c \in Contracts : Resolve(p, c)
  \/ TakeLock(p) \/ LockTimeout(p) \/ Apply(p) \/ ApplyFails(p) \/ Applied(p)
  \/ Rollback(p) \/ RolledBack(p) \/ Exit(p)

Next == (\E p \in Processes : Step(p)) \/ (\E c \in Contracts : Replace(c))

Spec == Init /\ [][Next]_vars

-----------------------------------------------------------------------------
\* A process that works with the database has all of its tables, whatever other
\* processes start, fail, roll back or die on the same file meanwhile.
RunsMigrated == \A p \in Processes : pc[p] = "running" => tables = Migrations

\* What is marked as applied is there: a later start skips no migration it needs.
MarkedIsThere == marks \subseteq tables

\* Two processes never apply migrations at once.
OneApplies ==
  \A p, q \in Processes : pc[p] = "applying" /\ pc[q] = "applying" => p = q

\* A node works with contracts the token referred to at some time since its process
\* started, both of them.
FreshAddresses ==
  \A p \in Processes : pc[p] \in {"database", "applying", "running"} =>
    \A c \in Contracts : address[p][c] \in since[p][c] .. version[c]
=============================================================================
