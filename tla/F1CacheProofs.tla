--------------------------- MODULE F1CacheProofs ---------------------------
(***************************************************************************)
(* Theorems about F1Cache, for any number of processes and requests and    *)
(* any TTL no shorter than a fetch or a statement of the database.          *)
(***************************************************************************)
EXTENDS F1Cache, TLAPS

Steps == {"idle", "find", "load", "store", "remember", "answered", "failed", "unread"}

LEMMA Numbers ==
    /\ TTL \in Nat /\ TTL >= 1 /\ Flight \in Nat /\ Flight <= TTL
    /\ Oldest = 2 * TTL + 2 * Flight /\ Oldest \in Nat
    /\ Age = 0..Oldest
    /\ Nothing \notin Entry /\ Nothing \notin Age
BY F1CacheAssumption, NothingAssumption DEF Oldest, Age

-----------------------------------------------------------------------------
(* Entries that grow older                                                 *)

LEMMA OlderType ==
    ASSUME NEW a \in Age
    PROVE  Older(a) \in Age /\ Older(a) <= a + 1
BY Numbers DEF Older

LEMMA OlderEntryType ==
    ASSUME NEW e \in Entry \cup {Nothing}
    PROVE  /\ OlderEntry(e) \in Entry \cup {Nothing}
           /\ OlderEntry(e) = Nothing <=> e = Nothing
<1>1. CASE ~Fresh(e)
  BY <1>1 DEF OlderEntry
<1>2. CASE Fresh(e)
  <2>1. e \in Entry /\ e # Nothing /\ e.stored < TTL /\ e.stored \in Age /\ e.fetched \in Age
    BY <1>2 DEF Fresh, Entry
  <2> DEFINE older == [stored |-> e.stored + 1, fetched |-> Older(e.fetched)]
  <2>2. older \in Entry /\ [older EXCEPT !.fetched = Oldest] \in Entry
    BY <2>1, Numbers, OlderType DEF Entry
  <2>3. OlderEntry(e) = IF Fresh(older) THEN older ELSE [older EXCEPT !.fetched = Oldest]
    BY <1>2 DEF OlderEntry
  <2>4. OlderEntry(e) \in Entry
    BY <2>2, <2>3
  <2>5. QED
    BY <2>1, <2>4, Numbers
<1>3. QED
  BY <1>1, <1>2

\* What is fresh after a tick was fresh before it, and its payload is as much older.
LEMMA OlderEntryAges ==
    ASSUME NEW e \in Entry \cup {Nothing}, Fresh(OlderEntry(e))
    PROVE  /\ Fresh(e) /\ e \in Entry
           /\ OlderEntry(e).stored = e.stored + 1
           /\ OlderEntry(e).fetched <= e.fetched + 1
<1>1. Fresh(e)
  BY DEF OlderEntry
<1>2. e \in Entry /\ e.stored < TTL /\ e.stored \in Age /\ e.fetched \in Age
  BY <1>1 DEF Fresh, Entry
<1> DEFINE older == [stored |-> e.stored + 1, fetched |-> Older(e.fetched)]
<1>3. OlderEntry(e) = IF Fresh(older) THEN older ELSE [older EXCEPT !.fetched = Oldest]
  BY <1>1 DEF OlderEntry
<1>4. CASE Fresh(older)
  <2>1. OlderEntry(e) = older
    BY <1>3, <1>4
  <2>2. QED
    BY <1>1, <1>2, <2>1, OlderType
<1>5. CASE ~Fresh(older)
  <2>1. older \in Entry /\ [older EXCEPT !.fetched = Oldest].stored = older.stored
    BY <1>2, Numbers, OlderType DEF Entry
  <2>2. older # Nothing
    BY <2>1, Numbers
  <2>3. ~(older.stored < TTL)
    BY <1>5, <2>2 DEF Fresh
  <2>4. ~Fresh(OlderEntry(e))
    BY <1>3, <1>5, <2>1, <2>3 DEF Fresh
  <2>5. QED
    BY <2>4
<1>6. QED
  BY <1>4, <1>5

-----------------------------------------------------------------------------
(* Types                                                                   *)

LEMMA TypeInit == Init => TypeOK
BY Numbers DEF Init, TypeOK

\* What Await and Return leave of a request.
LEMMA AwaitType ==
    ASSUME TypeOK, NEW r \in Request, NEW step \in Steps, Await(r, step)
    PROVE  pc' \in [Request -> Steps] /\ waited' \in [Request -> 0..Flight]
BY Numbers DEF Await, TypeOK, Steps

LEMMA ReturnType ==
    ASSUME TypeOK, NEW r \in Request, NEW step \in Steps, NEW answer \in Age \cup {Nothing},
           Return(r, step, answer)
    PROVE  /\ pc' \in [Request -> Steps] /\ waited' \in [Request -> 0..Flight]
           /\ found' \in [Request -> Entry \cup {Nothing}]
           /\ loaded' \in [Request -> Age]
           /\ served' \in [Request -> Age \cup {Nothing}]
<1>1. pc' \in [Request -> Steps] /\ waited' \in [Request -> 0..Flight]
  BY AwaitType DEF Return
<1>2. found' \in [Request -> Entry \cup {Nothing}] /\ served' \in [Request -> Age \cup {Nothing}]
  BY DEF Return, TypeOK
<1>3. loaded' \in [Request -> Age]
  BY Numbers DEF Return, TypeOK
<1>4. QED
  BY <1>1, <1>2, <1>3

LEMMA CatchType ==
    ASSUME TypeOK, NEW r \in Request, Catch(r), UNCHANGED <<up, row, known>>
    PROVE  TypeOK'
<1>1. \E step \in Steps : Return(r, step, Nothing)
  BY DEF Catch, Steps
<1>2. /\ pc' \in [Request -> Steps] /\ waited' \in [Request -> 0..Flight]
      /\ found' \in [Request -> Entry \cup {Nothing}]
      /\ loaded' \in [Request -> Age]
      /\ served' \in [Request -> Age \cup {Nothing}]
  BY <1>1, ReturnType
<1>3. QED
  BY <1>2 DEF Catch, TypeOK, Steps

LEMMA TypeNext == TypeOK /\ [Next]_vars => TypeOK'
<1> SUFFICES ASSUME TypeOK, [Next]_vars
             PROVE  TypeOK'
  OBVIOUS
<1>1. /\ up \in BOOLEAN
      /\ row \in Entry \cup {Nothing}
      /\ memory \in [Process -> Entry \cup {Nothing}]
      /\ pc \in [Request -> Steps]
      /\ waited \in [Request -> 0..Flight]
      /\ found \in [Request -> Entry \cup {Nothing}]
      /\ loaded \in [Request -> Age]
      /\ served \in [Request -> Age \cup {Nothing}]
      /\ known \subseteq Request
  BY DEF TypeOK, Steps
<1>2. \A r \in Request : Home[r] \in Process
  BY F1CacheAssumption
<1>3. \A a \in Age : [stored |-> 0, fetched |-> a] \in Entry
  BY Numbers DEF Entry
<1>4. ASSUME NEW r \in Request, AskMemory(r)
      PROVE  TypeOK'
  <2>1. CASE Fresh(memory[Home[r]])
    <3>1. memory[Home[r]].fetched \in Age /\ Return(r, "answered", memory[Home[r]].fetched)
      BY <1>1, <1>2, <1>4, <2>1 DEF AskMemory, Answer, Fresh, Entry
    <3>2. QED
      BY <1>1, <1>4, <3>1, ReturnType DEF AskMemory, TypeOK, Steps
  <2>2. CASE ~Fresh(memory[Home[r]])
    <3>1. Return(r, "find", Nothing)
      BY <1>4, <2>2 DEF AskMemory
    <3>2. QED
      BY <1>1, <1>4, <3>1, ReturnType DEF AskMemory, TypeOK, Steps
  <2>3. QED
    BY <2>1, <2>2
<1>5. ASSUME NEW r \in Request, FindRow(r)
      PROVE  TypeOK'
  <2>1. CASE Fresh(row)
    <3>1. row.fetched \in Age /\ Return(r, "answered", row.fetched)
      BY <1>1, <1>5, <2>1 DEF FindRow, Answer, Fresh, Entry
    <3>2. memory' \in [Process -> Entry \cup {Nothing}]
      BY <1>1, <1>3, <1>5, <2>1, <3>1 DEF FindRow
    <3>3. QED
      BY <1>1, <1>5, <3>1, <3>2, ReturnType DEF FindRow, TypeOK, Steps
  <2>2. CASE ~Fresh(row)
    <3>1. Await(r, "load") /\ found' = [found EXCEPT ![r] = row]
          /\ UNCHANGED <<memory, loaded, served>>
      BY <1>5, <2>2 DEF FindRow
    <3>2. pc' \in [Request -> Steps] /\ waited' \in [Request -> 0..Flight]
      BY <3>1, AwaitType DEF Steps
    <3>3. QED
      BY <1>1, <1>5, <3>1, <3>2 DEF FindRow, TypeOK, Steps
  <2>3. QED
    BY <2>1, <2>2
<1>a. ASSUME NEW r \in Request, FindFails(r)
      PROVE  TypeOK'
  <2>1. Return(r, "unread", Nothing)
    BY <1>a DEF FindFails
  <2>2. QED
    BY <1>1, <1>a, <2>1, ReturnType DEF FindFails, TypeOK, Steps
<1>6. ASSUME NEW r \in Request, Load(r)
      PROVE  TypeOK'
  <2>1. pc' \in [Request -> Steps] /\ waited' \in [Request -> 0..Flight]
    BY <1>6, AwaitType DEF Load, Steps
  <2>2. loaded' \in [Request -> Age]
    <3>1. PICK age \in 0..waited[r] : loaded' = [loaded EXCEPT ![r] = age]
      BY <1>6 DEF Load
    <3>2. age \in Age
      BY <1>1, Numbers
    <3>3. QED
      BY <1>1, <3>1, <3>2
  <2>3. QED
    BY <1>1, <1>6, <2>1, <2>2 DEF Load, TypeOK, Steps
<1>7. ASSUME NEW r \in Request, StoreRow(r)
      PROVE  TypeOK'
  <2>1. pc' \in [Request -> Steps] /\ waited' \in [Request -> 0..Flight]
    BY <1>7, AwaitType DEF StoreRow, Steps
  <2>2. row' \in Entry
    BY <1>1, <1>3, <1>7 DEF StoreRow
  <2>3. QED
    BY <1>1, <1>7, <2>1, <2>2 DEF StoreRow, TypeOK, Steps
<1>8. ASSUME NEW r \in Request, Remember(r)
      PROVE  TypeOK'
  <2>1. loaded[r] \in Age /\ Return(r, "answered", loaded[r])
    BY <1>1, <1>8 DEF Remember, Answer
  <2>2. memory' \in [Process -> Entry \cup {Nothing}]
    BY <1>1, <1>3, <1>8, <2>1 DEF Remember
  <2>3. QED
    BY <1>1, <1>8, <2>1, <2>2, ReturnType DEF Remember, TypeOK, Steps
<1>9. ASSUME NEW r \in Request, LoadFails(r) \/ StoreFails(r)
      PROVE  TypeOK'
  BY <1>9, CatchType DEF LoadFails, StoreFails
<1>10. ASSUME NEW p \in Process, Restart(p)
       PROVE  TypeOK'
  <2>1. /\ memory' \in [Process -> Entry \cup {Nothing}]
        /\ pc' \in [Request -> Steps]
        /\ found' \in [Request -> Entry \cup {Nothing}]
        /\ served' \in [Request -> Age \cup {Nothing}]
    BY <1>1, <1>10 DEF Restart, Steps
  <2>2. waited' \in [Request -> 0..Flight] /\ loaded' \in [Request -> Age]
    BY <1>1, <1>10, Numbers DEF Restart
  <2>3. QED
    BY <1>1, <1>10, <2>1, <2>2 DEF Restart, TypeOK, Steps
<1>11. CASE ApiChanges
  BY <1>1, <1>11 DEF ApiChanges, TypeOK, Steps
<1>12. CASE Tick
  <2>1. /\ row' \in Entry \cup {Nothing}
        /\ memory' \in [Process -> Entry \cup {Nothing}]
        /\ found' \in [Request -> Entry \cup {Nothing}]
    BY <1>1, <1>12, OlderEntryType DEF Tick
  <2>2. loaded' \in [Request -> Age]
    BY <1>1, <1>12, OlderType DEF Tick
  <2>3. waited' \in [Request -> 0..Flight]
    BY <1>1, <1>12, Numbers DEF Tick
  <2>4. QED
    BY <1>1, <1>12, <2>1, <2>2, <2>3 DEF Tick, TypeOK, Steps
<1>13. CASE UNCHANGED vars
  BY <1>1, <1>13 DEF vars, TypeOK, Steps
<1>14. QED
  BY <1>4, <1>5, <1>a, <1>6, <1>7, <1>8, <1>9, <1>10, <1>11, <1>12, <1>13 DEF Next, Step

\* Entries, requests and answers keep their types, and nobody waits for longer than a
\* fetch may take.
THEOREM TypeCorrect == Spec => []TypeOK
BY TypeInit, TypeNext, PTL DEF Spec

-----------------------------------------------------------------------------
(* Ages                                                                    *)

\* A row was stored within one fetch and one UPSERT of the API's answer; an entry in
\* memory comes from such a row, or from a load, within one TTL.
RowAge == Fresh(row) => row.fetched <= row.stored + 2 * Flight
MemoryAge(p) == Fresh(memory[p]) => memory[p].fetched <= memory[p].stored + (TTL + 2 * Flight)
LoadedAge(r) ==
    /\ pc[r] = "store" => loaded[r] <= Flight + waited[r]
    /\ pc[r] = "remember" => loaded[r] <= 2 * Flight + waited[r]
ServedAge(r) == served[r] # Nothing => served[r] < 2 * TTL + 2 * Flight

AgeInv ==
    /\ TypeOK
    /\ RowAge
    /\ \A p \in Process : MemoryAge(p)
    /\ \A r \in Request : LoadedAge(r) /\ ServedAge(r)

LEMMA AgeInit == Init => AgeInv
<1> SUFFICES ASSUME Init
             PROVE  AgeInv
  OBVIOUS
<1>1. TypeOK
  BY TypeInit
<1>2. RowAge /\ \A p \in Process : MemoryAge(p)
  BY DEF Init, RowAge, MemoryAge, Fresh
<1>3. \A r \in Request : LoadedAge(r) /\ ServedAge(r)
  BY DEF Init, LoadedAge, ServedAge
<1>4. QED
  BY <1>1, <1>2, <1>3 DEF AgeInv

\* What a request loses when it returns, the others keep.
LEMMA ReturnAge ==
    ASSUME AgeInv, NEW r \in Request, NEW step \in {"find", "answered", "failed", "unread"},
           NEW answer \in Age \cup {Nothing},
           answer # Nothing => answer < 2 * TTL + 2 * Flight,
           Return(r, step, answer)
    PROVE  \A q \in Request : LoadedAge(q)' /\ ServedAge(q)'
<1>1. pc' = [pc EXCEPT ![r] = step] /\ waited' = [waited EXCEPT ![r] = 0]
      /\ loaded' = [loaded EXCEPT ![r] = 0] /\ served' = [served EXCEPT ![r] = answer]
  BY DEF Return, Await
<1>2. TypeOK /\ \A q \in Request : LoadedAge(q) /\ ServedAge(q)
  BY DEF AgeInv
<1>3. ASSUME NEW q \in Request, q # r
      PROVE  pc'[q] = pc[q] /\ waited'[q] = waited[q] /\ loaded'[q] = loaded[q] /\ served'[q] = served[q]
  BY <1>1, <1>2, <1>3 DEF TypeOK
<1>4. pc'[r] = step /\ served'[r] = answer
  BY <1>1, <1>2 DEF TypeOK
<1>5. LoadedAge(r)' /\ ServedAge(r)'
  BY <1>4 DEF LoadedAge, ServedAge
<1>6. ASSUME NEW q \in Request, q # r
      PROVE  LoadedAge(q)' /\ ServedAge(q)'
  BY <1>2, <1>3, <1>6 DEF LoadedAge, ServedAge
<1>7. QED
  BY <1>5, <1>6

LEMMA AgeNext == AgeInv /\ [Next]_vars => AgeInv'
<1> SUFFICES ASSUME AgeInv, [Next]_vars
             PROVE  AgeInv'
  OBVIOUS
<1>1. TypeOK /\ TypeOK'
  BY TypeNext DEF AgeInv
<1>2. /\ row \in Entry \cup {Nothing}
      /\ memory \in [Process -> Entry \cup {Nothing}]
      /\ pc \in [Request -> Steps]
      /\ waited \in [Request -> 0..Flight]
      /\ found \in [Request -> Entry \cup {Nothing}]
      /\ loaded \in [Request -> Age]
      /\ served \in [Request -> Age \cup {Nothing}]
  BY <1>1 DEF TypeOK, Steps
<1>3. RowAge /\ (\A p \in Process : MemoryAge(p)) /\ (\A r \in Request : LoadedAge(r) /\ ServedAge(r))
  BY DEF AgeInv
<1>4. \A r \in Request : Home[r] \in Process
  BY F1CacheAssumption
<1>5. ASSUME NEW e \in Entry \cup {Nothing}, Fresh(e)
      PROVE  e \in Entry /\ e.stored \in Age /\ e.fetched \in Age /\ e.stored < TTL
  BY <1>5 DEF Fresh, Entry
<1>6. ASSUME UNCHANGED row
      PROVE  RowAge'
  BY <1>3, <1>6 DEF RowAge, Fresh
<1>7. ASSUME UNCHANGED memory
      PROVE  \A p \in Process : MemoryAge(p)'
  BY <1>3, <1>7 DEF MemoryAge, Fresh
\* An entry that is made now, of a payload that a row may have.
<1>8. ASSUME NEW h \in Process, NEW a \in Age, a <= TTL + 2 * Flight,
             memory' = [memory EXCEPT ![h] = [stored |-> 0, fetched |-> a]]
      PROVE  \A p \in Process : MemoryAge(p)'
  <2>1. memory'[h].fetched = a /\ memory'[h].stored = 0
    BY <1>2, <1>8
  <2>2. MemoryAge(h)'
    BY <1>8, <2>1, Numbers DEF MemoryAge
  <2>3. ASSUME NEW p \in Process, p # h
        PROVE  MemoryAge(p)'
    <3>1. memory'[p] = memory[p]
      BY <1>2, <1>8, <2>3
    <3>2. QED
      BY <1>3, <3>1 DEF MemoryAge, Fresh
  <2>4. QED
    BY <2>2, <2>3
<1>9. ASSUME NEW r \in Request, AskMemory(r)
      PROVE  AgeInv'
  <2>1. RowAge' /\ \A p \in Process : MemoryAge(p)'
    BY <1>6, <1>7, <1>9 DEF AskMemory
  <2>2. CASE Fresh(memory[Home[r]])
    <3>1. /\ memory[Home[r]].fetched \in Age /\ memory[Home[r]].stored \in Age
          /\ memory[Home[r]].stored < TTL
      BY <1>2, <1>4, <1>5, <2>2
    <3>2. memory[Home[r]].fetched <= memory[Home[r]].stored + (TTL + 2 * Flight)
      BY <1>3, <1>4, <2>2 DEF MemoryAge
    <3>3. memory[Home[r]].fetched < 2 * TTL + 2 * Flight
      BY <3>1, <3>2, Numbers
    <3>4. Return(r, "answered", memory[Home[r]].fetched)
      BY <1>9, <2>2 DEF AskMemory, Answer
    <3>5. \A q \in Request : LoadedAge(q)' /\ ServedAge(q)'
      BY <3>1, <3>3, <3>4, ReturnAge
    <3>6. QED
      BY <1>1, <2>1, <3>5 DEF AgeInv
  <2>3. CASE ~Fresh(memory[Home[r]])
    <3>1. Return(r, "find", Nothing)
      BY <1>9, <2>3 DEF AskMemory
    <3>2. \A q \in Request : LoadedAge(q)' /\ ServedAge(q)'
      BY <3>1, ReturnAge
    <3>3. QED
      BY <1>1, <2>1, <3>2 DEF AgeInv
  <2>4. QED
    BY <2>2, <2>3
<1>10. ASSUME NEW r \in Request, FindRow(r)
       PROVE  AgeInv'
  <2>1. RowAge'
    BY <1>6, <1>10 DEF FindRow
  <2>2. CASE Fresh(row)
    <3>1. row.fetched \in Age /\ row.stored \in Age /\ row.stored < TTL
      BY <1>2, <1>5, <2>2
    <3>2. row.fetched <= row.stored + 2 * Flight
      BY <1>3, <2>2 DEF RowAge
    <3>3. row.fetched <= TTL + 2 * Flight /\ row.fetched < 2 * TTL + 2 * Flight
      BY <3>1, <3>2, Numbers
    <3>4. /\ Return(r, "answered", row.fetched)
          /\ memory' = [memory EXCEPT ![Home[r]] = [stored |-> 0, fetched |-> row.fetched]]
      BY <1>10, <2>2 DEF FindRow, Answer
    <3>5. \A p \in Process : MemoryAge(p)'
      BY <1>4, <1>8, <3>1, <3>3, <3>4
    <3>6. \A q \in Request : LoadedAge(q)' /\ ServedAge(q)'
      BY <3>1, <3>3, <3>4, ReturnAge
    <3>7. QED
      BY <1>1, <2>1, <3>5, <3>6 DEF AgeInv
  <2>3. CASE ~Fresh(row)
    <3>1. UNCHANGED <<memory, loaded, served>> /\ Await(r, "load")
      BY <1>10, <2>3 DEF FindRow
    <3>2. \A p \in Process : MemoryAge(p)'
      BY <1>7, <3>1
    <3>3. \A q \in Request : LoadedAge(q)' /\ ServedAge(q)'
      BY <1>2, <1>3, <3>1 DEF Await, LoadedAge, ServedAge
    <3>4. QED
      BY <1>1, <2>1, <3>2, <3>3 DEF AgeInv
  <2>4. QED
    BY <2>2, <2>3
<1>a. ASSUME NEW r \in Request, FindFails(r)
      PROVE  AgeInv'
  <2>1. RowAge' /\ \A p \in Process : MemoryAge(p)'
    BY <1>6, <1>7, <1>a DEF FindFails
  <2>2. Return(r, "unread", Nothing)
    BY <1>a DEF FindFails
  <2>3. \A q \in Request : LoadedAge(q)' /\ ServedAge(q)'
    BY <2>2, ReturnAge
  <2>4. QED
    BY <1>1, <2>1, <2>3 DEF AgeInv
<1>11. ASSUME NEW r \in Request, Load(r)
       PROVE  AgeInv'
  <2>1. RowAge' /\ (\A p \in Process : MemoryAge(p)') /\ \A q \in Request : ServedAge(q)'
    BY <1>3, <1>6, <1>7, <1>11 DEF Load, ServedAge
  <2>2. pc' = [pc EXCEPT ![r] = "store"] /\ waited' = [waited EXCEPT ![r] = 0]
    BY <1>11 DEF Load, Await
  <2>a. PICK age \in 0..waited[r] : loaded' = [loaded EXCEPT ![r] = age]
    BY <1>11 DEF Load
  <2>3. pc'[r] = "store" /\ waited'[r] = 0 /\ loaded'[r] = age
    BY <1>2, <2>2, <2>a
  <2>4. LoadedAge(r)'
    BY <1>2, <2>3, Numbers DEF LoadedAge
  <2>5. ASSUME NEW q \in Request, q # r
        PROVE  LoadedAge(q)'
    BY <1>2, <1>3, <2>2, <2>a, <2>5 DEF LoadedAge
  <2>6. QED
    BY <1>1, <2>1, <2>4, <2>5 DEF AgeInv
<1>12. ASSUME NEW r \in Request, StoreRow(r)
       PROVE  AgeInv'
  <2>1. loaded[r] \in Age /\ waited[r] \in 0..Flight /\ loaded[r] <= Flight + waited[r]
    BY <1>2, <1>3, <1>12 DEF StoreRow, LoadedAge
  <2>2. row'.stored = 0 /\ row'.fetched = loaded[r]
    BY <1>12 DEF StoreRow
  <2>3. RowAge'
    BY <2>1, <2>2, Numbers DEF RowAge
  <2>4. (\A p \in Process : MemoryAge(p)') /\ \A q \in Request : ServedAge(q)'
    BY <1>3, <1>7, <1>12 DEF StoreRow, ServedAge
  <2>5. pc' = [pc EXCEPT ![r] = "remember"] /\ waited' = [waited EXCEPT ![r] = 0]
        /\ loaded' = loaded
    BY <1>12 DEF StoreRow, Await
  <2>6. pc'[r] = "remember" /\ waited'[r] = 0
    BY <1>2, <2>5
  <2>7. LoadedAge(r)'
    BY <2>1, <2>5, <2>6, Numbers DEF LoadedAge
  <2>8. ASSUME NEW q \in Request, q # r
        PROVE  LoadedAge(q)'
    BY <1>2, <1>3, <2>5, <2>8 DEF LoadedAge
  <2>9. QED
    BY <1>1, <2>3, <2>4, <2>7, <2>8 DEF AgeInv
<1>13. ASSUME NEW r \in Request, Remember(r)
       PROVE  AgeInv'
  <2>1. loaded[r] \in Age /\ waited[r] \in 0..Flight /\ loaded[r] <= 2 * Flight + waited[r]
    BY <1>2, <1>3, <1>13 DEF Remember, LoadedAge
  <2>2. loaded[r] <= TTL + 2 * Flight /\ loaded[r] < 2 * TTL + 2 * Flight
    BY <2>1, Numbers
  <2>3. RowAge'
    BY <1>6, <1>13 DEF Remember
  <2>4. /\ Return(r, "answered", loaded[r])
        /\ memory' = [memory EXCEPT ![Home[r]] = [stored |-> 0, fetched |-> loaded[r]]]
    BY <1>13 DEF Remember, Answer
  <2>5. \A p \in Process : MemoryAge(p)'
    BY <1>4, <1>8, <2>1, <2>2, <2>4
  <2>6. \A q \in Request : LoadedAge(q)' /\ ServedAge(q)'
    BY <2>1, <2>2, <2>4, ReturnAge
  <2>7. QED
    BY <1>1, <2>3, <2>5, <2>6 DEF AgeInv
<1>14. ASSUME NEW r \in Request, LoadFails(r) \/ StoreFails(r)
       PROVE  AgeInv'
  <2>1. RowAge' /\ \A p \in Process : MemoryAge(p)'
    BY <1>6, <1>7, <1>14 DEF LoadFails, StoreFails, Catch
  <2>2. \E step \in {"find", "answered", "failed", "unread"} : Return(r, step, Nothing)
    BY <1>14 DEF LoadFails, StoreFails, Catch
  <2>3. \A q \in Request : LoadedAge(q)' /\ ServedAge(q)'
    BY <2>2, ReturnAge
  <2>4. QED
    BY <1>1, <2>1, <2>3 DEF AgeInv
<1>15. ASSUME NEW p \in Process, Restart(p)
       PROVE  AgeInv'
  <2>1. RowAge'
    BY <1>6, <1>15 DEF Restart
  <2>2. ASSUME NEW q \in Process
        PROVE  MemoryAge(q)'
    <3>1. memory'[q] = Nothing \/ memory'[q] = memory[q]
      BY <1>2, <1>15 DEF Restart
    <3>2. QED
      BY <1>3, <3>1 DEF MemoryAge, Fresh
  <2>3. ASSUME NEW r \in Request
        PROVE  LoadedAge(r)' /\ ServedAge(r)'
    <3>1. CASE Home[r] = p
      <4>1. pc'[r] = "idle" /\ served'[r] = Nothing
        BY <1>15, <3>1 DEF Restart
      <4>2. QED
        BY <4>1 DEF LoadedAge, ServedAge
    <3>2. CASE Home[r] # p
      <4>1. /\ pc'[r] = pc[r] /\ served'[r] = served[r]
            /\ loaded'[r] = loaded[r] /\ waited'[r] = waited[r]
        BY <1>15, <3>2 DEF Restart
      <4>2. QED
        BY <1>3, <4>1 DEF LoadedAge, ServedAge
    <3>3. QED
      BY <3>1, <3>2
  <2>4. QED
    BY <1>1, <2>1, <2>2, <2>3 DEF AgeInv
<1>16. CASE ApiChanges
  <2>1. RowAge' /\ \A p \in Process : MemoryAge(p)'
    BY <1>6, <1>7, <1>16 DEF ApiChanges
  <2>2. \A r \in Request : LoadedAge(r)' /\ ServedAge(r)'
    BY <1>3, <1>16 DEF ApiChanges, LoadedAge, ServedAge
  <2>3. QED
    BY <1>1, <2>1, <2>2 DEF AgeInv
<1>17. CASE Tick
  \* What is fresh after the tick has aged on both sides.
  <2>1. ASSUME NEW e \in Entry \cup {Nothing}, Fresh(OlderEntry(e)), NEW d \in Nat,
               e.fetched <= e.stored + d
        PROVE  OlderEntry(e).fetched <= OlderEntry(e).stored + d
    <3>1. /\ Fresh(e) /\ OlderEntry(e).stored = e.stored + 1
          /\ OlderEntry(e).fetched <= e.fetched + 1
      BY <2>1, OlderEntryAges
    <3>2. e.stored \in Age /\ e.fetched \in Age
      BY <1>5, <3>1
    <3>3. OlderEntry(e) \in Entry
      BY <2>1, OlderEntryType DEF Fresh
    <3>4. OlderEntry(e).fetched \in Age
      BY <3>3 DEF Entry
    <3>5. QED
      BY <2>1, <3>1, <3>2, <3>4, Numbers
  <2>2. RowAge'
    <3>1. row' = OlderEntry(row)
      BY <1>17 DEF Tick
    <3>2. SUFFICES ASSUME Fresh(OlderEntry(row))
                   PROVE  OlderEntry(row).fetched <= OlderEntry(row).stored + 2 * Flight
      BY <3>1 DEF RowAge, Fresh
    <3>3. row.fetched <= row.stored + 2 * Flight
      BY <1>2, <1>3, <3>2, OlderEntryAges DEF RowAge
    <3>4. 2 * Flight \in Nat
      BY Numbers
    <3>5. QED
      BY <1>2, <2>1, <3>2, <3>3, <3>4
  <2>3. ASSUME NEW p \in Process
        PROVE  MemoryAge(p)'
    <3>1. memory'[p] = OlderEntry(memory[p]) /\ memory[p] \in Entry \cup {Nothing}
      BY <1>2, <1>17 DEF Tick
    <3>2. SUFFICES ASSUME Fresh(OlderEntry(memory[p]))
                   PROVE  OlderEntry(memory[p]).fetched <=
                            OlderEntry(memory[p]).stored + (TTL + 2 * Flight)
      BY <3>1 DEF MemoryAge, Fresh
    <3>3. memory[p].fetched <= memory[p].stored + (TTL + 2 * Flight)
      BY <1>3, <3>1, <3>2, OlderEntryAges DEF MemoryAge
    <3>4. TTL + 2 * Flight \in Nat
      BY Numbers
    <3>5. QED
      BY <2>1, <3>1, <3>2, <3>3, <3>4
  <2>4. ASSUME NEW r \in Request
        PROVE  LoadedAge(r)' /\ ServedAge(r)'
    <3>1. pc'[r] = pc[r] /\ served'[r] = served[r]
      BY <1>17 DEF Tick
    <3>2. CASE Idle(r)
      BY <1>3, <3>1, <3>2 DEF Idle, LoadedAge, ServedAge
    <3>3. CASE ~Idle(r)
      <4>1. loaded'[r] = Older(loaded[r]) /\ waited'[r] = waited[r] + 1
        BY <1>2, <1>17, <3>3 DEF Tick
      <4>2. loaded'[r] <= loaded[r] + 1 /\ loaded'[r] \in Age /\ loaded[r] \in Age
            /\ waited[r] \in 0..Flight
        BY <1>2, <4>1, OlderType
      <4>3. QED
        BY <1>3, <3>1, <4>1, <4>2, Numbers DEF LoadedAge, ServedAge
    <3>4. QED
      BY <3>2, <3>3
  <2>5. QED
    BY <1>1, <2>2, <2>3, <2>4 DEF AgeInv
<1>18. CASE UNCHANGED vars
  <2>1. RowAge' /\ \A p \in Process : MemoryAge(p)'
    BY <1>6, <1>7, <1>18 DEF vars
  <2>2. \A r \in Request : LoadedAge(r)' /\ ServedAge(r)'
    BY <1>3, <1>18 DEF vars, LoadedAge, ServedAge
  <2>3. QED
    BY <1>1, <2>1, <2>2 DEF AgeInv
<1>19. QED
  BY <1>9, <1>10, <1>a, <1>11, <1>12, <1>13, <1>14, <1>15, <1>16, <1>17, <1>18 DEF Next, Step

\* Whichever level answers and however requests store over each other, what a request
\* is given as good left the API less than two TTLs, one fetch and one UPSERT before,
\* for any bound on these no longer than the TTL.
THEOREM ServedFreshEnough == Spec => []FreshEnough
<1>1. AgeInv => FreshEnough
  BY DEF AgeInv, ServedAge, FreshEnough
<1>2. QED
  BY AgeInit, AgeNext, <1>1, PTL DEF Spec

-----------------------------------------------------------------------------
(* Failures                                                                *)

\* The row of a key stays, and who was called after it came has it in hand when a load
\* or an UPSERT can fail.
KnownInv ==
    /\ TypeOK
    /\ \A r \in known :
        /\ row # Nothing
        /\ pc[r] # "failed"
        /\ pc[r] \in {"load", "store"} => found[r] # Nothing

LEMMA KnownInit == Init => KnownInv
BY TypeInit DEF Init, KnownInv

LEMMA KnownNext == KnownInv /\ [Next]_vars => KnownInv'
<1> SUFFICES ASSUME KnownInv, [Next]_vars
             PROVE  KnownInv'
  OBVIOUS
<1>1. TypeOK /\ TypeOK'
  BY TypeNext DEF KnownInv
<1>2. pc \in [Request -> Steps] /\ found \in [Request -> Entry \cup {Nothing}]
      /\ known \subseteq Request
  BY <1>1 DEF TypeOK, Steps
<1>3. \A r \in known : /\ row # Nothing
                       /\ pc[r] # "failed"
                       /\ pc[r] \in {"load", "store"} => found[r] # Nothing
  BY DEF KnownInv
<1>4. ASSUME NEW r \in Request, AskMemory(r)
      PROVE  KnownInv'
  <2>1. \E step \in {"answered", "find"} : pc' = [pc EXCEPT ![r] = step]
    BY <1>4 DEF AskMemory, Answer, Return, Await
  <2>2. found' = [found EXCEPT ![r] = Nothing] /\ row' = row
    BY <1>4 DEF AskMemory, Answer, Return
  <2>3. \A q \in known' : row # Nothing /\ (q # r => q \in known)
    BY <1>3, <1>4 DEF AskMemory
  <2>4. QED
    BY <1>1, <1>2, <1>3, <2>1, <2>2, <2>3 DEF KnownInv, TypeOK
<1>5. ASSUME NEW r \in Request, FindRow(r)
      PROVE  KnownInv'
  <2>1. row' = row /\ known' = known
    BY <1>5 DEF FindRow
  <2>2. CASE Fresh(row)
    <3>1. pc' = [pc EXCEPT ![r] = "answered"] /\ found' = [found EXCEPT ![r] = Nothing]
      BY <1>5, <2>2 DEF FindRow, Answer, Return, Await
    <3>2. QED
      BY <1>1, <1>2, <1>3, <2>1, <3>1 DEF KnownInv
  <2>3. CASE ~Fresh(row)
    <3>1. pc' = [pc EXCEPT ![r] = "load"] /\ found' = [found EXCEPT ![r] = row]
      BY <1>5, <2>3 DEF FindRow, Await
    <3>2. QED
      BY <1>1, <1>2, <1>3, <2>1, <3>1 DEF KnownInv
  <2>4. QED
    BY <2>2, <2>3
<1>a. ASSUME NEW r \in Request, FindFails(r)
      PROVE  KnownInv'
  <2>1. /\ pc' = [pc EXCEPT ![r] = "unread"] /\ found' = [found EXCEPT ![r] = Nothing]
        /\ UNCHANGED <<row, known>>
    BY <1>a DEF FindFails, Return, Await
  <2>2. QED
    BY <1>1, <1>2, <1>3, <2>1 DEF KnownInv
<1>6. ASSUME NEW r \in Request, Load(r)
      PROVE  KnownInv'
  <2>1. pc[r] = "load" /\ pc' = [pc EXCEPT ![r] = "store"] /\ UNCHANGED <<row, found, known>>
    BY <1>6 DEF Load, Await
  <2>2. QED
    BY <1>1, <1>2, <1>3, <2>1 DEF KnownInv
<1>7. ASSUME NEW r \in Request, StoreRow(r)
      PROVE  KnownInv'
  <2>1. pc' = [pc EXCEPT ![r] = "remember"] /\ UNCHANGED <<found, known>>
    BY <1>7 DEF StoreRow, Await
  <2>2. row' # Nothing
    <3>1. row' = [stored |-> 0, fetched |-> loaded[r]] /\ loaded[r] \in Age
      BY <1>1, <1>7 DEF StoreRow, TypeOK
    <3>2. QED
      BY <3>1, Numbers DEF Entry
  <2>3. QED
    BY <1>1, <1>2, <1>3, <2>1, <2>2 DEF KnownInv
<1>8. ASSUME NEW r \in Request, Remember(r)
      PROVE  KnownInv'
  <2>1. /\ pc' = [pc EXCEPT ![r] = "answered"] /\ found' = [found EXCEPT ![r] = Nothing]
        /\ UNCHANGED <<row, known>>
    BY <1>8 DEF Remember, Answer, Return, Await
  <2>2. QED
    BY <1>1, <1>2, <1>3, <2>1 DEF KnownInv
<1>9. ASSUME NEW r \in Request, LoadFails(r) \/ StoreFails(r)
      PROVE  KnownInv'
  <2>1. pc[r] \in {"load", "store"} /\ UNCHANGED <<row, known>> /\ Catch(r)
    BY <1>9 DEF LoadFails, StoreFails
  <2>2. CASE found[r] # Nothing
    <3>1. pc' = [pc EXCEPT ![r] = "answered"] /\ found' = [found EXCEPT ![r] = Nothing]
      BY <2>1, <2>2 DEF Catch, Return, Await
    <3>2. QED
      BY <1>1, <1>2, <1>3, <2>1, <3>1 DEF KnownInv
  <2>3. CASE found[r] = Nothing
    <3>1. r \notin known
      BY <1>3, <2>1, <2>3
    <3>2. pc' = [pc EXCEPT ![r] = "failed"] /\ found' = [found EXCEPT ![r] = Nothing]
      BY <2>1, <2>3 DEF Catch, Return, Await
    <3>3. QED
      BY <1>1, <1>2, <1>3, <2>1, <3>1, <3>2 DEF KnownInv
  <2>4. QED
    BY <2>2, <2>3
<1>10. ASSUME NEW p \in Process, Restart(p)
       PROVE  KnownInv'
  <2>1. \A r \in Request : pc'[r] = "idle" \/ (pc'[r] = pc[r] /\ found'[r] = found[r])
    BY <1>10 DEF Restart
  <2>2. QED
    BY <1>1, <1>2, <1>3, <1>10, <2>1 DEF KnownInv, Restart
<1>11. CASE ApiChanges
  BY <1>1, <1>3, <1>11 DEF ApiChanges, KnownInv
<1>12. CASE Tick
  <2>1. row' = OlderEntry(row) /\ UNCHANGED <<pc, known>>
    BY <1>12 DEF Tick
  <2>2. \A r \in Request : found'[r] = OlderEntry(found[r])
    BY <1>12 DEF Tick
  <2>3. row # Nothing => row' # Nothing
    BY <1>1, <2>1, OlderEntryType DEF TypeOK
  <2>4. \A r \in Request : found[r] # Nothing => found'[r] # Nothing
    BY <1>2, <2>2, OlderEntryType
  <2>5. QED
    BY <1>1, <1>2, <1>3, <2>1, <2>3, <2>4 DEF KnownInv
<1>13. CASE UNCHANGED vars
  BY <1>1, <1>3, <1>13 DEF vars, KnownInv
<1>14. QED
  BY <1>4, <1>5, <1>a, <1>6, <1>7, <1>8, <1>9, <1>10, <1>11, <1>12, <1>13 DEF Next, Step

\* Whatever the API, the UPSERT and other requests do, a request made when the key was
\* stored fails only if its own SELECT does.
THEOREM StoredKeyAnswers == Spec => []FailsOnlyWhenEmpty
<1>1. KnownInv => FailsOnlyWhenEmpty
  BY DEF KnownInv, FailsOnlyWhenEmpty
<1>2. QED
  BY KnownInit, KnownNext, <1>1, PTL DEF Spec
=============================================================================
