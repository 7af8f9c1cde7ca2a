------------------------------- MODULE F1Cache -------------------------------
(***************************************************************************)
(* F1DataService.getCached for one key: a map in the memory of each        *)
(* process, over a row of f1_api_cache that all share, over the F1 API.    *)
(* Both levels keep an entry for one TTL, each by its own time stamp.      *)
(*                                                                         *)
(* Time is counted in ticks, as the age of each thing that has a time      *)
(* stamp; an age stops growing once it makes no difference any more.       *)
(* A payload is known by its age, the ticks since the API gave it.         *)
(***************************************************************************)
EXTENDS Naturals

CONSTANTS
    Process,
    Request, Home,  \* calls of getCached at a time; Home[r]: the process that serves r
    TTL,            \* CACHE_TTL_MS, in ticks
    Flight,         \* ticks that a fetch (timeoutMs) may take, and each statement of the
                    \* database, which the code does not bound
    Nothing         \* undefined

ASSUME F1CacheAssumption ==
    /\ Home \in [Request -> Process]
    /\ TTL \in Nat \ {0} /\ Flight \in Nat /\ Flight <= TTL

Oldest == 2 * TTL + 2 * Flight  \* ages count up to here
Age == 0 .. Oldest

\* at and updatedAt: the age of the entry; fetched: the age of its payload.
Entry == [stored : Age, fetched : Age]

ASSUME NothingAssumption == Nothing \notin Entry \cup Age

VARIABLES
    up,         \* does the API answer?
    row,        \* the row of the key, or Nothing
    memory,     \* memory[p]: the entry in the map of process p, or Nothing
    pc,         \* pc[r]: what request r awaits
    waited,     \* waited[r]: for how many ticks
    found,      \* found[r]: the row that r has read, or Nothing
    loaded,     \* loaded[r]: the age of the payload that r has fetched
    served,     \* history, served[r]: the age of the payload that r was given as good
    known       \* history: requests that were made when the key was stored

vars == <<up, row, memory, pc, waited, found, loaded, served, known>>

Init ==
    /\ up \in BOOLEAN
    /\ row = Nothing
    /\ memory = [p \in Process |-> Nothing]
    /\ pc = [r \in Request |-> "idle"]
    /\ waited = [r \in Request |-> 0]
    /\ found = [r \in Request |-> Nothing]
    /\ loaded = [r \in Request |-> 0]
    /\ served = [r \in Request |-> Nothing]
    /\ known = {}

Fresh(entry) == entry # Nothing /\ entry.stored < TTL

Await(r, step) ==
    /\ pc' = [pc EXCEPT ![r] = step]
    /\ waited' = [waited EXCEPT ![r] = 0]

\* r returns, and has nothing in memory any more.
Return(r, step, answer) ==
    /\ Await(r, step)
    /\ found' = [found EXCEPT ![r] = Nothing]
    /\ loaded' = [loaded EXCEPT ![r] = 0]
    /\ served' = [served EXCEPT ![r] = answer]

Answer(r, age) == Return(r, "answered", age)

Idle(r) == pc[r] \in {"idle", "answered", "failed", "unread"}

-----------------------------------------------------------------------------
(* getCached                                                               *)

AskMemory(r) ==
    LET mem == memory[Home[r]] IN
    /\ Idle(r)
    /\ IF Fresh(mem)
       THEN Answer(r, mem.fetched)
       ELSE Return(r, "find", Nothing)
    /\ known' = IF row # Nothing THEN known \cup {r} ELSE known \ {r}
    /\ UNCHANGED <<up, row, memory>>

\* A row that is fresh goes into memory with a time stamp of its own.
FindRow(r) ==
    /\ pc[r] = "find"
    /\ IF Fresh(row)
       THEN /\ memory' = [memory EXCEPT ![Home[r]] = [stored |-> 0, fetched |-> row.fetched]]
            /\ Answer(r, row.fetched)
       ELSE /\ found' = [found EXCEPT ![r] = row]
            /\ Await(r, "load")
            /\ UNCHANGED <<memory, loaded, served>>
    /\ UNCHANGED <<up, row, known>>

\* findOne is outside the try block: what it throws, the request throws.
FindFails(r) ==
    /\ pc[r] = "find"
    /\ Return(r, "unread", Nothing)
    /\ UNCHANGED <<up, row, memory, known>>

\* The payload left the API at some time since the request was sent.
Load(r) ==
    /\ pc[r] = "load"
    /\ up
    /\ \E age \in 0 .. waited[r] : loaded' = [loaded EXCEPT ![r] = age]
    /\ Await(r, "store")
    /\ UNCHANGED <<up, row, memory, found, served, known>>

\* The row is stamped when the UPSERT is done, however long after the answer.
StoreRow(r) ==
    /\ pc[r] = "store"
    /\ row' = [stored |-> 0, fetched |-> loaded[r]]
    /\ Await(r, "remember")
    /\ UNCHANGED <<up, memory, found, loaded, served, known>>

Remember(r) ==
    /\ pc[r] = "remember"
    /\ memory' = [memory EXCEPT ![Home[r]] = [stored |-> 0, fetched |-> loaded[r]]]
    /\ Answer(r, loaded[r])
    /\ UNCHANGED <<up, row, known>>

\* Mutant: the catch block keeps the old row in memory, as the other paths do.
CatchAndRemember(r) ==
    IF found[r] # Nothing
    THEN /\ memory' = [memory EXCEPT ![Home[r]] = [stored |-> 0, fetched |-> found[r].fetched]]
         /\ Return(r, "answered", Nothing)
    ELSE Return(r, "failed", Nothing) /\ UNCHANGED memory

\* Mutant: an old row is no longer good enough.
CatchAndFail(r) == Return(r, "failed", Nothing) /\ UNCHANGED memory

\* The catch block: the row that was found too old is better than none.
Catch(r) ==
    /\ IF found[r] # Nothing
       THEN Return(r, "answered", Nothing)
       ELSE Return(r, "failed", Nothing)
    /\ UNCHANGED memory

\* Mutant: nobody aborts a fetch that the API leaves without an answer.
LoadRefused(r) ==
    /\ pc[r] = "load" /\ up
    /\ Catch(r)
    /\ UNCHANGED <<up, row, known>>

\* An answer that is not ok or no JSON, or none before the abort.
LoadFails(r) ==
    /\ pc[r] = "load"
    /\ Catch(r)
    /\ UNCHANGED <<up, row, known>>

\* The UPSERT is inside the try block: what was fetched is thrown away.
StoreFails(r) ==
    /\ pc[r] = "store"
    /\ Catch(r)
    /\ UNCHANGED <<up, row, known>>

-----------------------------------------------------------------------------
(* Surroundings                                                            *)

\* A process restarts: its map is empty, its requests are gone.
Restart(p) ==
    /\ memory' = [memory EXCEPT ![p] = Nothing]
    /\ pc' = [r \in Request |-> IF Home[r] = p THEN "idle" ELSE pc[r]]
    /\ waited' = [r \in Request |-> IF Home[r] = p THEN 0 ELSE waited[r]]
    /\ found' = [r \in Request |-> IF Home[r] = p THEN Nothing ELSE found[r]]
    /\ loaded' = [r \in Request |-> IF Home[r] = p THEN 0 ELSE loaded[r]]
    /\ served' = [r \in Request |-> IF Home[r] = p THEN Nothing ELSE served[r]]
    /\ UNCHANGED <<up, row, known>>

ApiChanges ==
    /\ up' = ~up
    /\ UNCHANGED <<row, memory, pc, waited, found, loaded, served, known>>

Older(age) == IF age < Oldest THEN age + 1 ELSE age

\* How old the payload of an entry is makes no difference once the entry is stale.
OlderEntry(entry) ==
    IF ~Fresh(entry) THEN entry
    ELSE LET older == [stored |-> entry.stored + 1, fetched |-> Older(entry.fetched)]
         IN  IF Fresh(older) THEN older ELSE [older EXCEPT !.fetched = Oldest]

\* Mutant: no timer ends a fetch.
TickWithoutTimer ==
    /\ row' = OlderEntry(row)
    /\ memory' = [p \in Process |-> OlderEntry(memory[p])]
    /\ found' = [r \in Request |-> OlderEntry(found[r])]
    /\ loaded' = [r \in Request |-> IF Idle(r) THEN loaded[r] ELSE Older(loaded[r])]
    /\ waited' = [r \in Request |-> IF Idle(r) THEN waited[r] ELSE waited[r] + 1]
    /\ UNCHANGED <<up, pc, served, known>>

\* Nobody awaits one answer for more than Flight ticks.
Tick ==
    /\ \A r \in Request : Idle(r) \/ waited[r] < Flight
    /\ row' = OlderEntry(row)
    /\ memory' = [p \in Process |-> OlderEntry(memory[p])]
    /\ found' = [r \in Request |-> OlderEntry(found[r])]
    /\ loaded' = [r \in Request |-> IF Idle(r) THEN loaded[r] ELSE Older(loaded[r])]
    /\ waited' = [r \in Request |-> IF Idle(r) THEN waited[r] ELSE waited[r] + 1]
    /\ UNCHANGED <<up, pc, served, known>>

Step(r) ==
    \/ FindRow(r) \/ FindFails(r) \/ Load(r) \/ LoadFails(r)
    \/ StoreRow(r) \/ StoreFails(r) \/ Remember(r)

Next ==
    \/ \E r \in Request : AskMemory(r) \/ Step(r)
    \/ \E p \in Process : Restart(p)
    \/ ApiChanges
    \/ Tick

Spec == Init /\ [][Next]_vars

\* The database answers or refuses, and the fetch ends because its timer aborts it if need be.
FairSpec ==
    /\ Spec
    /\ \A r \in Request :
        /\ WF_vars(FindRow(r) \/ FindFails(r))
        /\ WF_vars(Load(r) \/ LoadFails(r))
        /\ WF_vars(StoreRow(r) \/ StoreFails(r))
        /\ WF_vars(Remember(r))

-----------------------------------------------------------------------------
(* Properties                                                              *)

\* Entries, requests and answers are what the code makes them.
TypeOK ==
    /\ up \in BOOLEAN
    /\ row \in Entry \cup {Nothing}
    /\ memory \in [Process -> Entry \cup {Nothing}]
    /\ pc \in [Request -> {"idle", "find", "load", "store", "remember", "answered",
                           "failed", "unread"}]
    /\ waited \in [Request -> 0 .. Flight]
    /\ found \in [Request -> Entry \cup {Nothing}]
    /\ loaded \in [Request -> Age]
    /\ served \in [Request -> Age \cup {Nothing}]
    /\ known \subseteq Request

\* The two levels add up (the in-memory TTL is no shorter than the table's, whatever
\* constructor-gambit-upgrade.md says), and with them the fetch and the UPSERT.  Unless this very
\* request could not load, what it is given left the API less than two TTLs, one fetch
\* and one UPSERT before, whichever level it came from and however many requests
\* stored over each other.
FreshEnough == \A r \in Request : served[r] # Nothing => served[r] < 2 * TTL + 2 * Flight

\* A request made when the key was stored is answered, whatever the API and the UPSERT
\* do meanwhile, unless its own SELECT fails: only an empty cache lets the API's
\* failure through.
FailsOnlyWhenEmpty == \A r \in known : pc[r] # "failed"

\* Every request is answered or fails, whatever the API does.
AnswersCome == \A r \in Request : ~Idle(r) ~> Idle(r)
=============================================================================
