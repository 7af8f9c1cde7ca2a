--------------------------- MODULE SoloRunProofs ---------------------------
(***************************************************************************)
(* Theorems about SoloRun, for any sessions, runs, bodies, engine, posted  *)
(* scores and refreshes, and for any tables of laps that OpenF1 answers.   *)
(***************************************************************************)
EXTENDS SoloRun, FoldLemmas

LEMMA Appended ==
    ASSUME NEW S, NEW s \in Seq(S), NEW x \in S
    PROVE  /\ ToSet(Append(s, x)) = ToSet(s) \cup {x}
           /\ Last(Append(s, x)) = x
           /\ Append(s, x) # <<>> /\ Append(s, x) \in Seq(S)
<1>1. Len(Append(s, x)) = Len(s) + 1 /\ Append(s, x) \in Seq(S)
  OBVIOUS
<1>2. \A i \in 1..Len(s) : Append(s, x)[i] = s[i]
  OBVIOUS
<1>3. Append(s, x)[Len(s) + 1] = x
  OBVIOUS
<1>4. Len(s) \in Nat /\ DOMAIN s = 1..Len(s)
  OBVIOUS
<1>5. DOMAIN Append(s, x) = 1..Len(s) + 1
  BY <1>1
<1>6. ToSet(Append(s, x)) = ToSet(s) \cup {x}
  <2>1. ASSUME NEW y \in ToSet(Append(s, x))
        PROVE  y \in ToSet(s) \cup {x}
    BY <1>2, <1>3, <1>4, <1>5 DEF ToSet
  <2>2. ASSUME NEW y \in ToSet(s)
        PROVE  y \in ToSet(Append(s, x))
    BY <1>2, <1>4, <1>5 DEF ToSet
  <2>3. x \in ToSet(Append(s, x))
    <3>1. Len(s) + 1 \in DOMAIN Append(s, x)
      BY <1>4, <1>5
    <3>2. QED
      BY <1>3, <3>1 DEF ToSet
  <2>4. QED
    BY <2>1, <2>2, <2>3
<1>7. Last(Append(s, x)) = x
  BY <1>1, <1>3 DEF Last
<1>8. Append(s, x) # <<>>
  BY <1>1, <1>4
<1>9. QED
  BY <1>1, <1>6, <1>7, <1>8

LEMMA Members ==
    ASSUME NEW S, NEW s \in Seq(S)
    PROVE  ToSet(s) \subseteq S
BY DEF ToSet

LEMMA NoMembers == ToSet(<<>>) = {}
BY DEF ToSet

-----------------------------------------------------------------------------
(* Types                                                                   *)

Read == [session : Session, name : Name, setup : Setup, body : Bodies, found : BOOLEAN]
Written == [name : Name, score : Int, by : Run \cup {None}]

\* What a run does between its engine and its end.
Storing == {"find snapshot", "put snapshot", "store run", "store result", "submit score"}
Step == {"idle", "simulate", "upsert", "done"} \cup Storing
Going(r) == pc[r] \in {"simulate"} \cup Storing

\* What a run has read is of a session that there is.
CallTyped(r) ==
    /\ pc[r] = "idle" \/ pc[r] = "done" \/ Going(r)
    /\ Going(r) => read[r] \in Read /\ session[read[r].session] # None
    /\ pc[r] \in Storing => out[r].total \in Nat

CallsTyped ==
    /\ pc \in [Run \cup Refresh -> Step]
    /\ read \in [Run -> Read \cup {NoRead}]
    /\ alone \in [Run -> BOOLEAN]
    /\ DOMAIN out = Run
    /\ \A r \in Run : CallTyped(r)

TypeInv == TypeOK /\ CallsTyped /\ board \in [Session -> Written \cup {None}]

LEMMA NoneIsNothing ==
    /\ None \notin Name /\ None \notin Setup /\ None \notin Run /\ None \notin Row
    /\ Run \cap Refresh = {}
BY SoloRunAssumption

\* A session that there is does not go.
SessionsStay == \A s \in Session : session[s] # None => session'[s] # None

\* It is enough to look at the call that moves.
LEMMA CallsFollow ==
    ASSUME TypeInv, SessionsStay, NEW r \in Run, NEW step \in Step,
           pc' = [pc EXCEPT ![r] = step],
           read' \in [Run -> Read \cup {NoRead}], alone' \in [Run -> BOOLEAN], DOMAIN out' = Run,
           \A q \in Run : q # r => read'[q] = read[q] /\ out'[q] = out[q],
           CallTyped(r)'
    PROVE  CallsTyped'
<1>1. pc' \in [Run \cup Refresh -> Step] /\ \A q \in Run : q # r => pc'[q] = pc[q]
  BY DEF TypeInv, CallsTyped
<1>2. ASSUME NEW q \in Run, q # r
      PROVE  CallTyped(q)'
  <2>1. pc'[q] = pc[q] /\ read'[q] = read[q] /\ out'[q] = out[q]
    BY <1>1, <1>2
  <2>2. CallTyped(q)
    BY DEF TypeInv, CallsTyped
  <2>3. Going(q) => read[q].session \in Session
    BY <2>2 DEF CallTyped, Read
  <2>4. QED
    BY <2>1, <2>2, <2>3 DEF CallTyped, Going, SessionsStay
<1>3. QED
  BY <1>1, <1>2 DEF CallsTyped

LEMMA CallsRest ==
    ASSUME TypeInv, SessionsStay, UNCHANGED calls
    PROVE  CallsTyped'
<1>1. ASSUME NEW q \in Run
      PROVE  CallTyped(q)'
  <2>1. CallTyped(q)
    BY DEF TypeInv, CallsTyped
  <2>2. Going(q) => read[q].session \in Session
    BY <2>1 DEF CallTyped, Read
  <2>3. QED
    BY <2>1, <2>2 DEF CallTyped, Going, SessionsStay, calls
<1>2. QED
  <2>1. CallsTyped /\ pc' = pc /\ read' = read /\ out' = out /\ alone' = alone
    BY DEF TypeInv, calls
  <2>2. QED
    BY <1>1, <2>1 DEF CallsTyped

LEMMA Mine ==
    ASSUME TypeInv, NEW r \in Run, Going(r)
    PROVE  /\ read[r] \in Read /\ read[r].session \in Session
           /\ session[read[r].session] # None
           /\ session[read[r].session] \in Row
           /\ pc[r] \in Storing => out[r].total \in Nat
<1>1. read[r] \in Read /\ session[read[r].session] # None
      /\ (pc[r] \in Storing => out[r].total \in Nat)
  BY DEF TypeInv, CallsTyped, CallTyped
<1>2. read[r].session \in Session
  BY <1>1 DEF Read
<1>3. QED
  BY <1>1, <1>2 DEF TypeInv, TypeOK

\* A step that moves one call on, and of what the calls have that alone.
LEMMA CallGoesOn ==
    ASSUME TypeInv, SessionsStay, NEW r \in Run, NEW step \in Storing \cup {"done"},
           pc[r] \in Storing, pc' = [pc EXCEPT ![r] = step], UNCHANGED <<read, out, alone>>
    PROVE  CallsTyped'
<1>1. pc'[r] = step /\ step \in Step
  BY DEF TypeInv, CallsTyped, Storing, Step
<1>2. CallTyped(r)'
  BY <1>1, Mine DEF CallTyped, Going, SessionsStay
<1>3. QED
  BY <1>1, <1>2, CallsFollow DEF TypeInv, CallsTyped

LEMMA OutcomeTotal ==
    ASSUME NEW body \in Bodies, NEW total \in Totals[body]
    PROVE  Outcome(body, total).total \in Nat
<1>1. Totals[body] \in SUBSET Nat
  BY SoloRunAssumption
<1>2. Outcome(body, total).total = total
  BY DEF Outcome
<1>3. QED
  BY <1>1, <1>2

LEMMA TypeInit == Init => TypeInv
<1> SUFFICES ASSUME Init
             PROVE  TypeInv
  OBVIOUS
<1>1. TypeOK
  BY DEF Init, TypeOK
<1>2. CallsTyped
  BY DEF Init, CallsTyped, CallTyped, Going, Storing, Step
<1>3. QED
  BY <1>1, <1>2 DEF TypeInv, Init

\* What the own endpoints of a session leave alone.
LEMMA TypeCreate == ASSUME TypeInv, NEW s \in Session, Create(s) PROVE TypeInv'
<1>1. PICK name \in Name \cup {None} :
        session' = [session EXCEPT ![s] = [name |-> name, status |-> "ALLOCATING",
                                           setup |-> None, result |-> None, score |-> 0]]
  BY DEF Create
<1> DEFINE row == [name |-> name, status |-> "ALLOCATING", setup |-> None, result |-> None, score |-> 0]
<1>2. row \in Row /\ row.status = "ALLOCATING"
  BY DEF Row
<1>3. row # None
  BY <1>2, NoneIsNothing
<1> HIDE DEF row
<1>4. session' = [session EXCEPT ![s] = row]
  BY <1>1 DEF row
<1>5. UNCHANGED <<tables, baseline, calls, fetched, agreed>>
  BY DEF Create
<1>6. TypeOK'
  BY <1>2, <1>4, <1>5 DEF TypeInv, TypeOK, tables
<1>7. CallsTyped'
  <2>1. SessionsStay
    BY <1>3, <1>4 DEF SessionsStay, TypeInv, TypeOK
  <2>2. QED
    BY <1>5, <2>1, CallsRest
<1>8. QED
  BY <1>5, <1>6, <1>7 DEF TypeInv, tables

LEMMA TypePatch == ASSUME TypeInv, NEW s \in Session, Patch(s) PROVE TypeInv'
<1>1. PICK name \in Name \cup {None} : session' = [session EXCEPT ![s].name = name]
  BY DEF Patch
<1> DEFINE row == [session[s] EXCEPT !.name = name]
<1>2. session[s] \in Row
  BY DEF Patch, TypeInv, TypeOK
<1>3. row \in Row /\ row.status = session[s].status /\ row.setup = session[s].setup
  BY <1>2 DEF Row
<1>4. row # None
  BY <1>3, NoneIsNothing
<1>5. session' = [session EXCEPT ![s] = row]
  BY <1>1
<1> HIDE DEF row
<1>6. UNCHANGED <<tables, baseline, calls, fetched, agreed>> /\ session[s] # None
  BY DEF Patch
<1>7. TypeOK'
  BY <1>3, <1>5, <1>6 DEF TypeInv, TypeOK, tables
<1>8. CallsTyped'
  <2>1. SessionsStay
    BY <1>4, <1>5 DEF SessionsStay, TypeInv, TypeOK
  <2>2. QED
    BY <1>6, <2>1, CallsRest
<1>9. QED
  BY <1>6, <1>7, <1>8 DEF TypeInv, tables

LEMMA TypeSubmitSetup == ASSUME TypeInv, NEW s \in Session, SubmitSetup(s) PROVE TypeInv'
<1>1. PICK setup \in Setup :
        session' = [session EXCEPT ![s].setup = setup, ![s].status = "SIMULATING"]
  BY DEF SubmitSetup
<1> DEFINE row == [[session[s] EXCEPT !.setup = setup] EXCEPT !.status = "SIMULATING"]
<1>2. session[s] \in Row
  BY DEF SubmitSetup, TypeInv, TypeOK
<1>3. row \in Row /\ row.setup # None
  BY <1>2, NoneIsNothing DEF Row
<1>4. row # None
  BY <1>3, NoneIsNothing
<1>5. session' = [session EXCEPT ![s] = row]
  BY <1>1 DEF TypeInv, TypeOK
<1> HIDE DEF row
<1>6. UNCHANGED <<tables, baseline, calls, fetched, agreed>> /\ session[s] # None
  BY DEF SubmitSetup
<1>7. TypeOK'
  BY <1>3, <1>5, <1>6 DEF TypeInv, TypeOK, tables
<1>8. CallsTyped'
  <2>1. SessionsStay
    BY <1>4, <1>5 DEF SessionsStay, TypeInv, TypeOK
  <2>2. QED
    BY <1>6, <2>1, CallsRest
<1>9. QED
  BY <1>6, <1>7, <1>8 DEF TypeInv, tables

LEMMA TypeBegin == ASSUME TypeInv, NEW r \in Run, NEW s \in Session, Begin(r, s) PROVE TypeInv'
<1>1. PICK body \in Bodies :
        /\ Ready(s, body)
        /\ read' = [read EXCEPT ![r] =
                [session |-> s, name |-> session[s].name, setup |-> SetupFor(s, body),
                 body |-> body, found |-> FALSE]]
  BY DEF Begin
<1> DEFINE mine == [session |-> s, name |-> session[s].name, setup |-> SetupFor(s, body),
                    body |-> body, found |-> FALSE]
<1>2. session[s] \in Row /\ session[s] # None /\ body \in Body
  BY <1>1, SoloRunAssumption DEF Ready, TypeInv, TypeOK
<1>3. session[s].name \in Name
  BY <1>1, <1>2 DEF Ready, Row
<1>4. SetupFor(s, body) \in Setup
  BY <1>1, <1>2 DEF Ready, SetupFor, Row, Body
<1>5. mine \in Read /\ mine.session = s
  BY <1>3, <1>4 DEF Read
<1> HIDE DEF mine
<1>6. /\ read' = [read EXCEPT ![r] = mine]
      /\ pc' = [pc EXCEPT ![r] = "simulate"]
      /\ alone' = [q \in Run |-> IF q = r THEN Under(s) = {} ELSE alone[q] /\ q \notin Under(s)]
      /\ agreed' = [agreed EXCEPT ![s] = None]
      /\ UNCHANGED <<session, tables, baseline, out, fetched>>
  BY <1>1 DEF Begin, Goto, mine
<1>7. TypeOK'
  BY <1>6 DEF TypeInv, TypeOK, tables
<1>8. alone' \in [Run -> BOOLEAN]
  <2>1. \A q \in Run : (IF q = r THEN Under(s) = {} ELSE alone[q] /\ q \notin Under(s)) \in BOOLEAN
    BY Zenon
  <2>2. QED
    BY <1>6, <2>1
<1>9. CallsTyped'
  <2>1. /\ read' \in [Run -> Read \cup {NoRead}] /\ DOMAIN out' = Run /\ read'[r] = mine
        /\ pc'[r] = "simulate"
        /\ \A q \in Run : q # r => read'[q] = read[q] /\ out'[q] = out[q]
    BY <1>5, <1>6 DEF TypeInv, CallsTyped
  <2>2. CallTyped(r)' /\ SessionsStay
    BY <1>2, <1>5, <1>6, <2>1 DEF CallTyped, Going, Storing, SessionsStay
  <2>3. QED
    BY <1>6, <1>8, <2>1, <2>2, CallsFollow DEF Step, Storing
<1>10. QED
  BY <1>6, <1>7, <1>9 DEF TypeInv, tables

LEMMA TypeSimulate == ASSUME TypeInv, NEW r \in Run, Simulate(r) PROVE TypeInv'
<1>1. PICK total \in Totals[read[r].body] : out' = [out EXCEPT ![r] = Outcome(read[r].body, total)]
  BY DEF Simulate
<1>2. read[r] \in Read
  BY Mine DEF Simulate, Going
<1>3. Outcome(read[r].body, total).total \in Nat
  BY <1>1, <1>2, OutcomeTotal DEF Read
<1> DEFINE outcome == Outcome(read[r].body, total)
<1> HIDE DEF outcome
<1>4. /\ out' = [out EXCEPT ![r] = outcome] /\ outcome.total \in Nat
      /\ pc' = [pc EXCEPT ![r] = "find snapshot"]
      /\ UNCHANGED <<session, tables, baseline, read, fetched, alone, agreed>>
      /\ pc[r] = "simulate"
  BY <1>1, <1>3 DEF Simulate, Goto, outcome
<1>5. TypeOK'
  BY <1>4 DEF TypeInv, TypeOK, tables
<1>6. CallsTyped'
  <2>1. /\ read' \in [Run -> Read \cup {NoRead}] /\ alone' \in [Run -> BOOLEAN]
        /\ DOMAIN out' = Run /\ out'[r] = outcome /\ pc'[r] = "find snapshot"
        /\ \A q \in Run : q # r => read'[q] = read[q] /\ out'[q] = out[q]
    BY <1>4 DEF TypeInv, CallsTyped
  <2>2. Going(r)
    BY <1>4 DEF Going
  <2>3. CallTyped(r)' /\ SessionsStay
    BY <1>4, <2>1, <2>2, Mine DEF CallTyped, Going, Storing, SessionsStay
  <2>4. QED
    BY <1>4, <2>1, <2>3, CallsFollow DEF Step, Storing
<1>7. QED
  BY <1>4, <1>5, <1>6 DEF TypeInv, tables

LEMMA TypeFindSnapshot == ASSUME TypeInv, NEW r \in Run, FindSnapshot(r) PROVE TypeInv'
<1> DEFINE found == snapshot[read[r].session] # None
           mine == [read[r] EXCEPT !.found = found]
<1>1. read[r] \in Read
  BY Mine DEF FindSnapshot, Going, Storing
<1>2. found \in BOOLEAN
  BY Zenon
<1> HIDE DEF found
<1>3. mine \in Read /\ mine.session = read[r].session
  BY <1>1, <1>2 DEF Read
<1>4. /\ read' = [read EXCEPT ![r] = mine]
      /\ pc' = [pc EXCEPT ![r] = "put snapshot"] /\ pc[r] = "find snapshot"
      /\ UNCHANGED <<session, tables, baseline, out, fetched, alone, agreed>>
  BY DEF FindSnapshot, Goto, found
<1> HIDE DEF mine
<1>5. TypeOK'
  BY <1>4 DEF TypeInv, TypeOK, tables
<1>6. CallsTyped'
  <2>1. /\ read' \in [Run -> Read \cup {NoRead}] /\ alone' \in [Run -> BOOLEAN]
        /\ DOMAIN out' = Run /\ read'[r] = mine /\ pc'[r] = "put snapshot"
        /\ \A q \in Run : q # r => read'[q] = read[q] /\ out'[q] = out[q]
    BY <1>3, <1>4 DEF TypeInv, CallsTyped
  <2>2. Going(r) /\ pc[r] \in Storing
    BY <1>4 DEF Going, Storing
  <2>3. CallTyped(r)' /\ SessionsStay
    BY <1>3, <1>4, <2>1, <2>2, Mine DEF CallTyped, Going, Storing, SessionsStay
  <2>4. QED
    BY <1>4, <2>1, <2>3, CallsFollow DEF Step, Storing
<1>7. QED
  BY <1>4, <1>5, <1>6 DEF TypeInv, tables

LEMMA TypePutSnapshot == ASSUME TypeInv, NEW r \in Run, PutSnapshot(r) PROVE TypeInv'
<1>1. /\ snapshot' \in {snapshot, [snapshot EXCEPT ![read[r].session] = r]}
      /\ pc' = [pc EXCEPT ![r] = "done"] \/ pc' = [pc EXCEPT ![r] = "store run"]
      /\ pc[r] = "put snapshot"
      /\ UNCHANGED <<session, runs, board, baseline, read, out, fetched, alone, agreed>>
  BY DEF PutSnapshot, Goto, Then
<1>2. snapshot' \in [Session -> Run \cup {None}]
  BY <1>1 DEF TypeInv, TypeOK
<1>3. TypeOK'
  BY <1>1, <1>2 DEF TypeInv, TypeOK
<1>4. CallsTyped'
  BY <1>1, CallGoesOn DEF SessionsStay, Storing
<1>5. QED
  BY <1>1, <1>3, <1>4 DEF TypeInv

LEMMA TypeStoreRun == ASSUME TypeInv, NEW r \in Run, StoreRun(r) PROVE TypeInv'
<1>1. /\ runs' = [runs EXCEPT ![read[r].session] = Append(runs[read[r].session], r)]
      /\ pc' = [pc EXCEPT ![r] = "store result"] /\ pc[r] = "store run"
      /\ UNCHANGED <<session, snapshot, board, baseline, read, out, fetched, alone, agreed>>
  BY DEF StoreRun, Goto, Then
<1>2. read[r].session \in Session
  BY <1>1, Mine DEF Going, Storing
<1>3. Append(runs[read[r].session], r) \in Seq(Run)
  BY <1>2 DEF TypeInv, TypeOK
<1>4. TypeOK'
  BY <1>1, <1>3 DEF TypeInv, TypeOK
<1>5. CallsTyped'
  BY <1>1, CallGoesOn DEF SessionsStay, Storing
<1>6. QED
  BY <1>1, <1>4, <1>5 DEF TypeInv

LEMMA RowUpdated ==
    ASSUME NEW old \in Row, NEW r, NEW score, NEW setup
    PROVE  [[[[old EXCEPT !.result = r] EXCEPT !.score = score]
                        EXCEPT !.status = "COMPLETED"] EXCEPT !.setup = setup]
           = [name |-> old.name, status |-> "COMPLETED", setup |-> setup, result |-> r, score |-> score]
<1> DEFINE a == [old EXCEPT !.result = r]
           b == [a EXCEPT !.score = score]
           c == [b EXCEPT !.status = "COMPLETED"]
           d == [c EXCEPT !.setup = setup]
<1>1. a = [name |-> old.name, status |-> old.status, setup |-> old.setup,
           result |-> r, score |-> old.score]
  BY DEF Row
<1> HIDE DEF a
<1>2. b = [name |-> old.name, status |-> old.status, setup |-> old.setup,
           result |-> r, score |-> score]
  BY <1>1
<1> HIDE DEF b
<1>3. c = [name |-> old.name, status |-> "COMPLETED", setup |-> old.setup,
           result |-> r, score |-> score]
  BY <1>2
<1> HIDE DEF c
<1>4. d = [name |-> old.name, status |-> "COMPLETED", setup |-> setup,
           result |-> r, score |-> score]
  BY <1>3
<1>5. QED
  BY <1>4 DEF c, b, a

\* The UPDATE of saveResult, as the row that it makes.
LEMMA ResultStored ==
    ASSUME TypeInv, NEW r \in Run, StoreResult(r)
    PROVE  LET s == read[r].session
               row == [name |-> session[s].name, status |-> "COMPLETED", setup |-> read[r].setup,
                       result |-> r, score |-> Score(out[r].total)]
           IN  /\ session' = [session EXCEPT ![s] = row]
               /\ row \in Row /\ row # None /\ row.setup # None /\ read[r] \in Read
<1> DEFINE s == read[r].session
           setup == read[r].setup
           score == Score(out[r].total)
           row == [name |-> session[s].name, status |-> "COMPLETED", setup |-> setup,
                   result |-> r, score |-> score]
<1>1. read[r] \in Read /\ session[s] \in Row /\ out[r].total \in Nat
  BY Mine DEF StoreResult, Going, Storing
<1>2. score \in Int /\ s \in Session /\ setup \in Setup /\ setup # None
  BY <1>1, NoneIsNothing DEF Score, Read
<1>3. session' = [session EXCEPT ![s].result = r, ![s].score = score,
                                 ![s].status = "COMPLETED", ![s].setup = setup]
  BY DEF StoreResult
<1> HIDE DEF s, setup, score
<1>4. row \in Row /\ row # None
  <2>1. row \in Row
    BY <1>1, <1>2 DEF Row
  <2>2. QED
    BY <2>1, NoneIsNothing
<1>5. session' = [session EXCEPT ![s] = row]
  <2> DEFINE new == [[[[session[s] EXCEPT !.result = r] EXCEPT !.score = score]
                            EXCEPT !.status = "COMPLETED"] EXCEPT !.setup = setup]
  <2>1. session \in [Session -> Row \cup {None}]
    BY DEF TypeInv, TypeOK
  <2>2. session' = [session EXCEPT ![s] = new]
    BY <1>2, <1>3, <2>1
  <2>3. new = row
    BY <1>1, RowUpdated
  <2>4. QED
    BY <2>2, <2>3
<1>6. QED
  BY <1>1, <1>2, <1>4, <1>5 DEF s, setup, score

LEMMA TypeStoreResult == ASSUME TypeInv, NEW r \in Run, StoreResult(r) PROVE TypeInv'
<1>1. PICK row \in Row :
        /\ session' = [session EXCEPT ![read[r].session] = row]
        /\ row # None /\ row.setup # None
  BY ResultStored
<1>2. /\ pc' = [pc EXCEPT ![r] = "submit score"] /\ pc[r] = "store result"
      /\ UNCHANGED <<tables, baseline, read, out, fetched, alone, agreed>>
  BY DEF StoreResult, Goto, Then
<1>3. TypeOK'
  BY <1>1, <1>2 DEF TypeInv, TypeOK, tables
<1>4. CallsTyped'
  <2>1. SessionsStay
    BY <1>1 DEF SessionsStay, TypeInv, TypeOK
  <2>2. QED
    BY <1>2, <2>1, CallGoesOn DEF Storing
<1>5. QED
  BY <1>2, <1>3, <1>4 DEF TypeInv, tables

LEMMA TypeSubmitScore == ASSUME TypeInv, NEW r \in Run, SubmitScore(r) PROVE TypeInv'
<1> DEFINE entry == Entry(read[r].name, Score(out[r].total), r)
           s == read[r].session
<1>1. /\ board' = [board EXCEPT ![s] = entry]
      /\ agreed' = [agreed EXCEPT ![s] = IF alone[r] THEN r ELSE None]
      /\ pc' = [pc EXCEPT ![r] = "done"] /\ pc[r] = "submit score"
      /\ UNCHANGED <<session, snapshot, runs, baseline, read, out, fetched, alone>>
  BY DEF SubmitScore, Goto
<1>2. read[r] \in Read /\ out[r].total \in Nat
  BY <1>1, Mine DEF Going, Storing
<1>3. entry \in Written
  BY <1>2 DEF Entry, Written, Score, Read
<1> HIDE DEF entry, s
<1>4. board' \in [Session -> Written \cup {None}] /\ agreed' \in [Session -> Run \cup {None}]
  BY <1>1, <1>3 DEF TypeInv, TypeOK
<1>5. \A t \in Session : board'[t] # None => board'[t].name \in Name
  BY <1>4 DEF Written
<1>6. TypeOK'
  BY <1>1, <1>4, <1>5 DEF TypeInv, TypeOK
<1>7. CallsTyped'
  BY <1>1, CallGoesOn DEF SessionsStay, Storing
<1>8. QED
  BY <1>4, <1>6, <1>7 DEF TypeInv

LEMMA TypePostScore == ASSUME TypeInv, NEW s \in Session, PostScore(s) PROVE TypeInv'
<1>1. PICK name \in Name, score \in Posts : board' = [board EXCEPT ![s] = Entry(name, score, None)]
  BY DEF PostScore
<1>2. Entry(name, score, None) \in Written
  BY SoloRunAssumption DEF Entry, Written
<1>3. board' \in [Session -> Written \cup {None}]
  BY <1>1, <1>2 DEF TypeInv
<1>4. agreed' = [agreed EXCEPT ![s] = None] /\ UNCHANGED <<session, snapshot, runs, baseline, calls, fetched>>
  BY DEF PostScore
<1>5. \A t \in Session : board'[t] # None => board'[t].name \in Name
  BY <1>3 DEF Written
<1>6. TypeOK'
  BY <1>4, <1>5 DEF TypeInv, TypeOK
<1>7. CallsTyped'
  BY <1>4, CallsRest DEF SessionsStay
<1>8. QED
  BY <1>3, <1>6, <1>7 DEF TypeInv

\* A refresh, and the end of a call, leave all but a counter alone.
CallMoves(c) ==
    /\ \E step \in {"upsert", "done"} : Goto(c, step) /\ (step = "upsert" => c \in Refresh)
    /\ c \in Refresh \/ pc[c] # "idle"
    /\ UNCHANGED <<session, tables, read, out, alone, agreed>>

LEMMA OthersMove ==
    /\ \A f \in Refresh : FetchLaps(f) \/ Upsert(f) => CallMoves(f)
    /\ \A c \in Run \cup Refresh : Fail(c) => CallMoves(c)
<1>1. ASSUME NEW f \in Refresh, FetchLaps(f)
      PROVE  CallMoves(f)
  BY <1>1 DEF FetchLaps, CallMoves
<1>2. ASSUME NEW f \in Refresh, Upsert(f)
      PROVE  CallMoves(f)
  BY <1>2 DEF Upsert, CallMoves
<1>3. ASSUME NEW c \in Run \cup Refresh, Fail(c)
      PROVE  CallMoves(c)
  BY <1>3 DEF Fail, CallMoves
<1>4. QED
  BY <1>1, <1>2, <1>3

LEMMA TypeCallMoves == ASSUME TypeInv, NEW c \in Run \cup Refresh, CallMoves(c) PROVE TypeInv'
<1>1. PICK step \in {"upsert", "done"} : Goto(c, step) /\ (step = "upsert" => c \in Refresh)
  BY DEF CallMoves
<1>2. TypeOK'
  BY DEF CallMoves, TypeInv, TypeOK, tables
<1>3. CallsTyped'
  <2>1. pc' = [pc EXCEPT ![c] = step] /\ UNCHANGED <<session, read, out, alone>>
    BY <1>1 DEF CallMoves, Goto
  <2>2. /\ pc' \in [Run \cup Refresh -> Step]
        /\ \A r \in Run : pc'[r] = pc[r] \/ pc'[r] = "done"
    <3>1. pc \in [Run \cup Refresh -> Step] /\ step \in Step
      BY DEF TypeInv, CallsTyped, Step
    <3>2. \A r \in Run : r = c => step = "done"
      BY <1>1, NoneIsNothing
    <3>3. QED
      BY <2>1, <3>1, <3>2
  <2>3. \A r \in Run : CallTyped(r)'
    BY <2>1, <2>2 DEF TypeInv, CallsTyped, CallTyped, Going, Storing, CallMoves
  <2>4. QED
    BY <2>1, <2>2, <2>3 DEF TypeInv, CallsTyped
<1>4. QED
  BY <1>2, <1>3 DEF TypeInv, CallMoves, tables

LEMMA TypeNext == TypeInv /\ [Next]_vars => TypeInv'
<1> SUFFICES ASSUME TypeInv, [Next]_vars
             PROVE  TypeInv'
  OBVIOUS
<1>1. ASSUME NEW s \in Session, Create(s) \/ Patch(s) \/ SubmitSetup(s) \/ PostScore(s)
      PROVE  TypeInv'
  BY <1>1, TypeCreate, TypePatch, TypeSubmitSetup, TypePostScore
<1>2. ASSUME NEW r \in Run, NEW s \in Session, Begin(r, s)
      PROVE  TypeInv'
  BY <1>2, TypeBegin
<1>3. ASSUME NEW r \in Run, Simulate(r) \/ FindSnapshot(r) \/ PutSnapshot(r)
      PROVE  TypeInv'
  BY <1>3, TypeSimulate, TypeFindSnapshot, TypePutSnapshot
<1>4. ASSUME NEW r \in Run, StoreRun(r) \/ StoreResult(r) \/ SubmitScore(r)
      PROVE  TypeInv'
  BY <1>4, TypeStoreRun, TypeStoreResult, TypeSubmitScore
<1>5. ASSUME NEW c \in Run \cup Refresh, CallMoves(c)
      PROVE  TypeInv'
  BY <1>5, TypeCallMoves
<1>6. CASE UNCHANGED vars
  BY <1>6 DEF vars, TypeInv, TypeOK, CallsTyped, CallTyped, Going
<1>7. QED
  BY <1>1, <1>2, <1>3, <1>4, <1>5, <1>6, OthersMove DEF Next

\* Rows keep their types, and a session that was completed has a setup.
THEOREM TypeCorrect == Spec => []TypeOK
<1>1. TypeInv => TypeOK
  BY DEF TypeInv
<1>2. QED
  BY <1>1, TypeInit, TypeNext, PTL DEF Spec

-----------------------------------------------------------------------------
(* The order of the writes                                                 *)

AfterSnapshot == {"store run", "store result", "submit score"}
AfterRun == {"store result", "submit score"}

\* What a run that goes on has stored.
HasStored(r) ==
    LET s == read[r].session IN
    /\ pc[r] \in AfterSnapshot => snapshot[s] # None
    /\ pc[r] \in AfterRun => r \in ToSet(runs[s])
    /\ pc[r] = "submit score" => session[s].result # None

\* The tables of s rest on each other, and stored runs have what they are stored with for good.
InOrder(s) ==
    /\ runs[s] # <<>> => snapshot[s] # None /\ session[s] # None
    /\ session[s] # None /\ session[s].result # None =>
        /\ session[s].result \in ToSet(runs[s])
        /\ session[s].score = Score(out[session[s].result].total)
    /\ board[s] # None /\ board[s].by # None =>
        /\ board[s].by \in ToSet(runs[s]) /\ session[s].result # None
        /\ board[s].score = Score(out[board[s].by].total)
    /\ \A q \in ToSet(runs[s]) : pc[q] \in AfterRun \cup {"done"}

OrderInv == (\A r \in Run : HasStored(r)) /\ (\A s \in Session : InOrder(s))

LEMMA OrderInit == Init => OrderInv
<1> SUFFICES ASSUME Init
             PROVE  OrderInv
  OBVIOUS
<1>1. \A r \in Run : HasStored(r)
  BY DEF Init, HasStored, AfterSnapshot, AfterRun
<1>2. \A s \in Session : runs[s] = <<>> /\ ToSet(runs[s]) = {} /\ session[s] = None /\ board[s] = None
  BY NoMembers DEF Init
<1>3. QED
  BY <1>1, <1>2 DEF OrderInv, InOrder

\* Results and scores of the sessions are left alone; a new session has none.
ResultsStay ==
    \A s \in Session :
        IF session[s] = None THEN session'[s] = None \/ session'[s].result = None
        ELSE /\ session'[s] # None
             /\ session'[s].result = session[s].result /\ session'[s].score = session[s].score

\* Calls before their first write may move and change, the others may only end.
CallsCalm ==
    \A q \in Run :
        \/ pc'[q] = pc[q] /\ read'[q] = read[q] /\ out'[q] = out[q]
        \/ pc[q] \notin AfterRun \cup {"done"} /\ pc'[q] \notin AfterSnapshot
        \/ pc'[q] = "done" /\ out'[q] = out[q]

LEMMA OrderCalm ==
    ASSUME TypeInv, OrderInv, ResultsStay, CallsCalm, UNCHANGED <<snapshot, runs>>,
           \A s \in Session : board'[s] = board[s] \/ board'[s].by = None
    PROVE  OrderInv'
<1>1. ASSUME NEW r \in Run
      PROVE  HasStored(r)'
  <2>1. HasStored(r)
    BY DEF OrderInv
  <2>2. Going(r) => read[r].session \in Session /\ session[read[r].session] # None
    BY Mine
  <2>3. AfterRun \subseteq AfterSnapshot /\ "submit score" \in AfterRun /\ "done" \notin AfterSnapshot
    BY DEF AfterRun, AfterSnapshot
  <2>4. CASE pc'[r] \in AfterSnapshot
    <3>1. pc'[r] = pc[r] /\ read'[r] = read[r]
      BY <2>3, <2>4 DEF CallsCalm
    <3>2. Going(r)
      BY <2>4, <3>1 DEF Going, Storing, AfterSnapshot
    <3>3. session'[read[r].session].result = session[read[r].session].result
      BY <2>2, <3>2 DEF ResultsStay
    <3>4. QED
      BY <2>1, <3>1, <3>3 DEF HasStored
  <2>5. CASE pc'[r] \notin AfterSnapshot
    BY <2>3, <2>5 DEF HasStored
  <2>6. QED
    BY <2>4, <2>5
<1>2. ASSUME NEW s \in Session
      PROVE  InOrder(s)'
  <2>1. InOrder(s) /\ ToSet(runs[s]) \subseteq Run
    BY Members DEF OrderInv, TypeInv, TypeOK
  <2>2. \A q \in ToSet(runs[s]) : out'[q] = out[q] /\ pc'[q] \in AfterRun \cup {"done"}
    BY <2>1 DEF CallsCalm, InOrder
  <2>3. runs'[s] = runs[s] /\ snapshot'[s] = snapshot[s]
    OBVIOUS
  <2>4. runs[s] # <<>> => session'[s] # None
    BY <2>1 DEF InOrder, ResultsStay
  <2>5. session'[s] # None /\ session'[s].result # None =>
          /\ session[s] # None /\ session'[s].result = session[s].result
          /\ session'[s].score = session[s].score
    BY DEF ResultsStay
  <2>6. board[s] # None /\ board[s].by # None =>
          session[s] # None /\ session'[s].result = session[s].result
    BY <2>1, NoMembers DEF InOrder, ResultsStay
  <2>7. board'[s] # None /\ board'[s].by # None => board'[s] = board[s]
    OBVIOUS
  <2>8. QED
    BY <2>1, <2>2, <2>3, <2>4, <2>5, <2>6, <2>7 DEF InOrder
<1>3. QED
  BY <1>1, <1>2 DEF OrderInv

\* Where nothing is written, or by hand.
Calm ==
    \/ \E s \in Session : Create(s) \/ Patch(s) \/ SubmitSetup(s) \/ PostScore(s)
    \/ \E r \in Run, s \in Session : Begin(r, s)
    \/ \E r \in Run : Simulate(r) \/ FindSnapshot(r)
    \/ \E c \in Run \cup Refresh : CallMoves(c)
    \/ UNCHANGED vars

\* What those steps do to the rows of the sessions and to the calls.
LEMMA CalmSteps == ASSUME TypeInv, Calm PROVE ResultsStay /\ CallsCalm /\ UNCHANGED <<snapshot, runs>>
<1>1. ASSUME NEW s \in Session, Create(s)
      PROVE  ResultsStay /\ CallsCalm
  BY <1>1 DEF Create, ResultsStay, CallsCalm, calls, TypeInv, TypeOK
<1>2. ASSUME NEW s \in Session, Patch(s)
      PROVE  ResultsStay /\ CallsCalm
  <2>1. PICK name \in Name \cup {None} : session' = [session EXCEPT ![s].name = name]
    BY <1>2 DEF Patch
  <2> DEFINE row == [session[s] EXCEPT !.name = name]
  <2>2. session[s] \in Row
    BY <1>2 DEF Patch, TypeInv, TypeOK
  <2>3. row \in Row /\ row.result = session[s].result /\ row.score = session[s].score
    BY <2>2 DEF Row
  <2>4. row # None /\ session' = [session EXCEPT ![s] = row]
    BY <2>1, <2>3, NoneIsNothing
  <2> HIDE DEF row
  <2>5. UNCHANGED calls /\ session[s] # None
    BY <1>2 DEF Patch
  <2>6. ResultsStay
    BY <2>3, <2>4, <2>5 DEF ResultsStay, TypeInv, TypeOK
  <2>7. QED
    BY <2>5, <2>6 DEF CallsCalm, calls
<1>3. ASSUME NEW s \in Session, SubmitSetup(s)
      PROVE  ResultsStay /\ CallsCalm
  <2>1. PICK setup \in Setup :
          session' = [session EXCEPT ![s].setup = setup, ![s].status = "SIMULATING"]
    BY <1>3 DEF SubmitSetup
  <2> DEFINE row == [[session[s] EXCEPT !.setup = setup] EXCEPT !.status = "SIMULATING"]
  <2>2. session[s] \in Row
    BY <1>3 DEF SubmitSetup, TypeInv, TypeOK
  <2>3. row \in Row /\ row.result = session[s].result /\ row.score = session[s].score
    BY <2>2 DEF Row
  <2>4. row # None /\ session' = [session EXCEPT ![s] = row]
    BY <2>1, <2>3, NoneIsNothing DEF TypeInv, TypeOK
  <2> HIDE DEF row
  <2>5. UNCHANGED calls /\ session[s] # None
    BY <1>3 DEF SubmitSetup
  <2>6. ResultsStay
    BY <2>3, <2>4, <2>5 DEF ResultsStay, TypeInv, TypeOK
  <2>7. QED
    BY <2>5, <2>6 DEF CallsCalm, calls
<1>4. ASSUME NEW s \in Session, PostScore(s)
      PROVE  ResultsStay /\ CallsCalm
  BY <1>4 DEF PostScore, ResultsStay, CallsCalm, calls
<1>5. ASSUME NEW r \in Run, NEW s \in Session, Begin(r, s)
      PROVE  ResultsStay /\ CallsCalm
  <2>1. PICK mine : read' = [read EXCEPT ![r] = mine]
    BY <1>5 DEF Begin
  <2>2. pc[r] = "idle" /\ pc' = [pc EXCEPT ![r] = "simulate"] /\ out' = out /\ session' = session
    BY <1>5 DEF Begin, Goto
  <2>3. \A q \in Run : q # r => pc'[q] = pc[q] /\ read'[q] = read[q]
    BY <2>1, <2>2 DEF TypeInv, CallsTyped
  <2>4. pc'[r] = "simulate"
    BY <2>2 DEF TypeInv, CallsTyped
  <2>5. QED
    BY <2>2, <2>3, <2>4 DEF ResultsStay, CallsCalm, AfterRun, AfterSnapshot
<1>6. ASSUME NEW r \in Run, Simulate(r)
      PROVE  ResultsStay /\ CallsCalm
  <2>1. PICK outcome : out' = [out EXCEPT ![r] = outcome]
    BY <1>6 DEF Simulate
  <2>2. pc[r] = "simulate" /\ pc' = [pc EXCEPT ![r] = "find snapshot"] /\ UNCHANGED <<read, session>>
    BY <1>6 DEF Simulate, Goto
  <2>3. \A q \in Run : q # r => pc'[q] = pc[q] /\ out'[q] = out[q]
    BY <2>1, <2>2 DEF TypeInv, CallsTyped
  <2>4. pc'[r] = "find snapshot"
    BY <2>2 DEF TypeInv, CallsTyped
  <2>5. QED
    BY <2>2, <2>3, <2>4 DEF ResultsStay, CallsCalm, AfterRun, AfterSnapshot
<1>7. ASSUME NEW r \in Run, FindSnapshot(r)
      PROVE  ResultsStay /\ CallsCalm
  <2>1. PICK mine : read' = [read EXCEPT ![r] = mine]
    BY <1>7 DEF FindSnapshot
  <2>2. pc[r] = "find snapshot" /\ pc' = [pc EXCEPT ![r] = "put snapshot"] /\ UNCHANGED <<out, session>>
    BY <1>7 DEF FindSnapshot, Goto
  <2>3. \A q \in Run : q # r => pc'[q] = pc[q] /\ read'[q] = read[q]
    BY <2>1, <2>2 DEF TypeInv, CallsTyped
  <2>4. pc'[r] = "put snapshot"
    BY <2>2 DEF TypeInv, CallsTyped
  <2>5. QED
    BY <2>2, <2>3, <2>4 DEF ResultsStay, CallsCalm, AfterRun, AfterSnapshot
<1>8. ASSUME NEW c \in Run \cup Refresh, CallMoves(c)
      PROVE  ResultsStay /\ CallsCalm
  <2>1. PICK step \in {"upsert", "done"} : Goto(c, step) /\ (step = "upsert" => c \in Refresh)
    BY <1>8 DEF CallMoves
  <2>2. UNCHANGED <<session, read, out>>
    BY <1>8 DEF CallMoves
  <2>3. \A q \in Run : q = c => step = "done"
    BY <2>1, NoneIsNothing
  <2>4. \A q \in Run : pc'[q] = pc[q] \/ pc'[q] = "done"
    BY <2>1, <2>3 DEF Goto, TypeInv, CallsTyped
  <2>5. QED
    BY <2>2, <2>4 DEF ResultsStay, CallsCalm
<1>9. CASE UNCHANGED vars
  BY <1>9 DEF vars, ResultsStay, CallsCalm
<1>10. UNCHANGED <<snapshot, runs>>
  BY DEF Calm, Create, Patch, SubmitSetup, PostScore, Begin, Simulate, FindSnapshot, CallMoves,
         tables, vars
<1>11. QED
  BY <1>1, <1>2, <1>3, <1>4, <1>5, <1>6, <1>7, <1>8, <1>9, <1>10 DEF Calm

LEMMA OrderCalmStep == ASSUME TypeInv, OrderInv, Calm PROVE OrderInv'
<1>1. ASSUME NEW s \in Session
      PROVE  board'[s] = board[s] \/ board'[s].by = None
  <2>1. ASSUME NEW t \in Session, PostScore(t)
        PROVE  board'[s] = board[s] \/ board'[s].by = None
    <3>1. PICK name \in Name, score \in Posts : board' = [board EXCEPT ![t] = Entry(name, score, None)]
      BY <2>1 DEF PostScore
    <3>2. Entry(name, score, None).by = None
      BY DEF Entry
    <3>3. QED
      BY <3>1, <3>2 DEF TypeInv
  <2>2. CASE board' = board
    BY <2>2
  <2>3. QED
    BY <2>1, <2>2 DEF Calm, Create, Patch, SubmitSetup, Begin, Simulate, FindSnapshot, CallMoves,
           tables, vars
<1>2. QED
  BY <1>1, CalmSteps, OrderCalm

\* A run that writes moves on from one step to the next; the others stay where they are.
LEMMA Moves ==
    ASSUME TypeInv, NEW r \in Run, NEW step, pc' = [pc EXCEPT ![r] = step],
           UNCHANGED <<read, out>>
    PROVE  /\ pc'[r] = step /\ read' = read /\ out' = out
           /\ \A q \in Run : q # r => pc'[q] = pc[q]
BY DEF TypeInv, CallsTyped

LEMMA OrderPutSnapshot == ASSUME TypeInv, OrderInv, NEW r \in Run, PutSnapshot(r) PROVE OrderInv'
<1> DEFINE s == read[r].session
<1>1. pc[r] = "put snapshot" /\ UNCHANGED <<session, runs, board, read, out>>
  BY DEF PutSnapshot
<1>2. Going(r) /\ s \in Session
  BY <1>1, Mine DEF Going, Storing
<1>3. CASE pc' = [pc EXCEPT ![r] = "done"] /\ snapshot' = snapshot
  <2>1. ResultsStay
    BY <1>1 DEF ResultsStay
  <2>2. CallsCalm
    BY <1>1, <1>3, Moves DEF CallsCalm
  <2>3. QED
    BY <1>1, <1>3, <2>1, <2>2, OrderCalm
<1>4. CASE pc' = [pc EXCEPT ![r] = "store run"] /\ snapshot' = [snapshot EXCEPT ![s] = r]
  <2>1. pc'[r] = "store run" /\ \A q \in Run : q # r => pc'[q] = pc[q]
    BY <1>1, <1>4, Moves
  <2>2. \A t \in Session : snapshot[t] # None => snapshot'[t] # None
    BY <1>4, NoneIsNothing DEF TypeInv, TypeOK
  <2>3. snapshot'[s] # None
    BY <1>2, <1>4, NoneIsNothing DEF TypeInv, TypeOK
  <2>4. ASSUME NEW q \in Run
        PROVE  HasStored(q)'
    <3>1. CASE q = r
      BY <1>1, <2>1, <2>3, <3>1 DEF HasStored, AfterSnapshot, AfterRun
    <3>2. CASE q # r
      <4>1. HasStored(q) /\ pc'[q] = pc[q]
        BY <2>1, <3>2 DEF OrderInv
      <4>2. pc[q] \in AfterSnapshot => read[q].session \in Session
        BY Mine DEF Going, Storing, AfterSnapshot
      <4>3. QED
        BY <1>1, <2>2, <4>1, <4>2 DEF HasStored
    <3>3. QED
      BY <3>1, <3>2
  <2>5. ASSUME NEW t \in Session
        PROVE  InOrder(t)'
    <3>1. InOrder(t) /\ ToSet(runs[t]) \subseteq Run
      BY Members DEF OrderInv, TypeInv, TypeOK
    <3>2. r \notin ToSet(runs[t])
      BY <1>1, <3>1 DEF InOrder, AfterRun
    <3>3. \A q \in ToSet(runs[t]) : pc'[q] = pc[q]
      BY <2>1, <3>1, <3>2
    <3>4. QED
      BY <1>1, <2>2, <3>1, <3>3 DEF InOrder
  <2>6. QED
    BY <2>4, <2>5 DEF OrderInv
<1>5. QED
  BY <1>3, <1>4 DEF PutSnapshot, Goto, Then

LEMMA OrderStoreRun == ASSUME TypeInv, OrderInv, NEW r \in Run, StoreRun(r) PROVE OrderInv'
<1> DEFINE s == read[r].session
<1>1. /\ pc[r] = "store run" /\ pc' = [pc EXCEPT ![r] = "store result"]
      /\ runs' = [runs EXCEPT ![s] = Append(runs[s], r)]
      /\ UNCHANGED <<session, snapshot, board, read, out>>
  BY DEF StoreRun, Goto, Then
<1>2. Going(r) /\ s \in Session /\ session[s] # None
  BY <1>1, Mine DEF Going, Storing
<1>3. pc'[r] = "store result" /\ \A q \in Run : q # r => pc'[q] = pc[q]
  BY <1>1, Moves
<1>4. /\ runs'[s] = Append(runs[s], r) /\ ToSet(runs'[s]) = ToSet(runs[s]) \cup {r}
      /\ \A t \in Session : t # s => runs'[t] = runs[t]
  <2>1. runs \in [Session -> Seq(Run)]
    BY DEF TypeInv, TypeOK
  <2>2. runs'[s] = Append(runs[s], r) /\ \A t \in Session : t # s => runs'[t] = runs[t]
    BY <1>1, <1>2, <2>1
  <2>3. runs[s] \in Seq(Run)
    BY <1>2, <2>1
  <2>4. ToSet(Append(runs[s], r)) = ToSet(runs[s]) \cup {r}
    BY <2>3, Appended
  <2>5. QED
    BY <2>2, <2>4
<1>5. snapshot[s] # None
  BY <1>1 DEF OrderInv, HasStored, AfterSnapshot
<1>6. ASSUME NEW q \in Run
      PROVE  HasStored(q)'
  <2>1. CASE q = r
    BY <1>1, <1>3, <1>4, <1>5, <2>1 DEF HasStored, AfterSnapshot, AfterRun
  <2>2. CASE q # r
    <3>1. HasStored(q) /\ pc'[q] = pc[q]
      BY <1>3, <2>2 DEF OrderInv
    <3>2. pc[q] \in AfterRun => read[q].session \in Session
      BY Mine DEF Going, Storing, AfterRun
    <3>3. \A t \in Session : ToSet(runs[t]) \subseteq ToSet(runs'[t])
      BY <1>4
    <3>4. QED
      BY <1>1, <3>1, <3>2, <3>3 DEF HasStored
  <2>3. QED
    BY <2>1, <2>2
<1>7. ASSUME NEW t \in Session
      PROVE  InOrder(t)'
  <2>1. InOrder(t) /\ ToSet(runs[t]) \subseteq Run
    BY Members DEF OrderInv, TypeInv, TypeOK
  <2>2. ToSet(runs[t]) \subseteq ToSet(runs'[t]) /\ ToSet(runs'[t]) \subseteq ToSet(runs[t]) \cup {r}
    BY <1>4
  <2>3. runs'[t] # <<>> => snapshot[t] # None /\ session[t] # None
    BY <1>2, <1>4, <1>5, <2>1 DEF InOrder
  <2>4. \A q \in ToSet(runs'[t]) : pc'[q] \in AfterRun \cup {"done"}
    BY <1>3, <2>1, <2>2 DEF InOrder, AfterRun
  <2>5. QED
    BY <1>1, <2>1, <2>2, <2>3, <2>4 DEF InOrder
<1>8. QED
  BY <1>6, <1>7 DEF OrderInv

LEMMA OrderStoreResult == ASSUME TypeInv, OrderInv, NEW r \in Run, StoreResult(r) PROVE OrderInv'
<1> DEFINE s == read[r].session
<1>1. /\ pc[r] = "store result" /\ pc' = [pc EXCEPT ![r] = "submit score"]
      /\ UNCHANGED <<snapshot, runs, board, read, out>>
  BY DEF StoreResult, Goto, Then, tables
<1>2. Going(r) /\ s \in Session /\ session[s] # None
  BY <1>1, Mine DEF Going, Storing
<1>3. pc'[r] = "submit score" /\ \A q \in Run : q # r => pc'[q] = pc[q]
  BY <1>1, Moves
<1>4. /\ session'[s] # None /\ session'[s].result = r /\ session'[s].score = Score(out[r].total)
      /\ \A t \in Session : t # s => session'[t] = session[t]
  <2>1. PICK row \in Row : /\ session' = [session EXCEPT ![s] = row] /\ row # None
                           /\ row.result = r /\ row.score = Score(out[r].total)
    BY ResultStored
  <2>2. QED
    BY <1>2, <2>1 DEF TypeInv, TypeOK
<1>5. r \in ToSet(runs[s]) /\ r # None /\ snapshot[s] # None
  BY <1>1, NoneIsNothing DEF OrderInv, HasStored, AfterRun, AfterSnapshot
<1>6. ASSUME NEW q \in Run
      PROVE  HasStored(q)'
  <2>1. CASE q = r
    BY <1>1, <1>3, <1>4, <1>5, <2>1 DEF HasStored
  <2>2. CASE q # r
    <3>1. HasStored(q) /\ pc'[q] = pc[q]
      BY <1>3, <2>2 DEF OrderInv
    <3>2. pc[q] = "submit score" => read[q].session \in Session
      BY Mine DEF Going, Storing
    <3>3. QED
      BY <1>1, <1>4, <1>5, <3>1, <3>2 DEF HasStored
  <2>3. QED
    BY <2>1, <2>2
<1>7. ASSUME NEW t \in Session
      PROVE  InOrder(t)'
  <2>1. InOrder(t) /\ ToSet(runs[t]) \subseteq Run
    BY Members DEF OrderInv, TypeInv, TypeOK
  <2>2. \A q \in ToSet(runs[t]) : pc'[q] \in AfterRun \cup {"done"}
    BY <1>3, <2>1 DEF InOrder, AfterRun
  <2>3. CASE t = s
    BY <1>1, <1>4, <1>5, <2>1, <2>2, <2>3 DEF InOrder
  <2>4. CASE t # s
    BY <1>1, <1>4, <2>1, <2>2, <2>4 DEF InOrder
  <2>5. QED
    BY <2>3, <2>4
<1>8. QED
  BY <1>6, <1>7 DEF OrderInv

LEMMA OrderSubmitScore == ASSUME TypeInv, OrderInv, NEW r \in Run, SubmitScore(r) PROVE OrderInv'
<1> DEFINE s == read[r].session
           entry == Entry(read[r].name, Score(out[r].total), r)
<1>1. /\ pc[r] = "submit score" /\ pc' = [pc EXCEPT ![r] = "done"]
      /\ board' = [board EXCEPT ![s] = entry]
      /\ UNCHANGED <<session, snapshot, runs, read, out>>
  BY DEF SubmitScore, Goto
<1>2. Going(r) /\ s \in Session
  BY <1>1, Mine DEF Going, Storing
<1>3. pc'[r] = "done" /\ \A q \in Run : q # r => pc'[q] = pc[q]
  BY <1>1, Moves
<1>4. entry.by = r /\ entry.score = Score(out[r].total)
  BY DEF Entry
<1> HIDE DEF entry
<1>5. board'[s] = entry /\ \A t \in Session : t # s => board'[t] = board[t]
  BY <1>1, <1>2 DEF TypeInv
<1>6. r \in ToSet(runs[s]) /\ session[s].result # None
  BY <1>1 DEF OrderInv, HasStored, AfterRun
<1>7. ASSUME NEW q \in Run
      PROVE  HasStored(q)'
  <2>1. CASE q = r
    BY <1>3, <2>1 DEF HasStored, AfterRun, AfterSnapshot
  <2>2. CASE q # r
    BY <1>1, <1>3, <2>2 DEF OrderInv, HasStored
  <2>3. QED
    BY <2>1, <2>2
<1>8. ASSUME NEW t \in Session
      PROVE  InOrder(t)'
  <2>1. InOrder(t) /\ ToSet(runs[t]) \subseteq Run
    BY Members DEF OrderInv, TypeInv, TypeOK
  <2>2. \A q \in ToSet(runs[t]) : pc'[q] \in AfterRun \cup {"done"}
    BY <1>3, <2>1 DEF InOrder
  <2>3. CASE t = s
    BY <1>1, <1>4, <1>5, <1>6, <2>1, <2>2, <2>3 DEF InOrder
  <2>4. CASE t # s
    BY <1>1, <1>5, <2>1, <2>2, <2>4 DEF InOrder
  <2>5. QED
    BY <2>3, <2>4
<1>9. QED
  BY <1>7, <1>8 DEF OrderInv

\* A step writes to the tables, or it is calm.
LEMMA CalmOrWrites ==
    ASSUME [Next]_vars
    PROVE  Calm \/ \E r \in Run : PutSnapshot(r) \/ StoreRun(r) \/ StoreResult(r) \/ SubmitScore(r)
BY OthersMove DEF Next, Calm

LEMMA OrderNext == TypeInv /\ OrderInv /\ [Next]_vars => OrderInv'
BY CalmOrWrites, OrderCalmStep, OrderPutSnapshot, OrderStoreRun, OrderStoreResult, OrderSubmitScore

(* Whatever fails and overlaps, a result that is shown is one of a stored run,  *)
(* with its score; a stored run has telemetry; and an entry of the leaderboard  *)
(* that a run made is of a stored run of a session that shows a result.         *)
THEOREM ShownIsStored == Spec => []WrittenInOrder
<1>1. Init => TypeInv /\ OrderInv
  BY TypeInit, OrderInit
<1>2. (TypeInv /\ OrderInv) /\ [Next]_vars => (TypeInv /\ OrderInv)'
  BY TypeNext, OrderNext
<1>3. OrderInv => WrittenInOrder
  BY DEF OrderInv, InOrder, WrittenInOrder
<1>4. QED
  BY <1>1, <1>2, <1>3, PTL DEF Spec

-----------------------------------------------------------------------------
(* Agreement                                                               *)

\* What a run has stored that goes on alone: nobody writes over it.
HasToItself(r) ==
    LET s == read[r].session IN
    /\ \A q \in Run : Going(q) /\ read[q].session = s => q = r
    /\ pc[r] \in AfterSnapshot => snapshot[s] = r
    /\ pc[r] \in AfterRun => Last(runs[s]) = r
    /\ pc[r] = "submit score" =>
            session[s].result = r /\ session[s].score = Score(out[r].total)

\* The tables of s are those of a run that is done, and nobody is about to write.
AllAgree(s) ==
    LET r == agreed[s] IN
    /\ r \in Run /\ pc[r] = "done"
    /\ \A q \in Run : Going(q) => read[q].session # s
    /\ snapshot[s] = r
    /\ Last(runs[s]) = r
    /\ session[s] # None /\ session[s].result = r
    /\ board[s] = Entry(read[r].name, session[s].score, r)

AgreeInv ==
    /\ \A r \in Run : alone[r] /\ Going(r) => HasToItself(r)
    /\ \A s \in Session : agreed[s] # None => AllAgree(s)

LEMMA AgreeInit == Init => AgreeInv
BY DEF Init, AgreeInv, Going, Storing

LEMMA GoingSteps ==
    /\ \A q : Going(q) <=> pc[q] \in {"simulate"} \cup Storing
    /\ "done" \notin {"simulate"} \cup Storing /\ "idle" \notin {"simulate"} \cup Storing
    /\ AfterRun \subseteq AfterSnapshot /\ AfterSnapshot \subseteq Storing
    /\ "submit score" \in AfterRun /\ "done" \notin AfterSnapshot
BY DEF Going, Storing, AfterRun, AfterSnapshot

\* Calls stay under way in their session or leave it, and have not written or stay where they are.
CallsKeep ==
    \A q \in Run :
        \/ pc'[q] = pc[q] /\ read'[q] = read[q] /\ out'[q] = out[q]
        \/ /\ Going(q) /\ pc'[q] \notin AfterSnapshot
           /\ pc'[q] = "done" \/ read'[q].session = read[q].session

LEMMA AgreeCalm ==
    ASSUME TypeInv, AgreeInv, ResultsStay, CallsKeep,
           UNCHANGED <<snapshot, runs, board, alone, agreed>>
    PROVE  AgreeInv'
<1>1. \A q \in Run : Going(q)' => Going(q) /\ read'[q].session = read[q].session
  BY GoingSteps DEF CallsKeep, Going, Storing
<1>2. ASSUME NEW r \in Run, alone'[r], Going(r)'
      PROVE  HasToItself(r)'
  <2>1. Going(r) /\ read'[r].session = read[r].session /\ HasToItself(r)
    BY <1>1, <1>2 DEF AgreeInv
  <2>2. read[r].session \in Session /\ session[read[r].session] # None
    BY <2>1, Mine
  <2>3. pc'[r] \in AfterSnapshot => pc'[r] = pc[r] /\ out'[r] = out[r]
    BY DEF CallsKeep
  <2>4. pc'[r] \in AfterRun => pc'[r] \in AfterSnapshot
    BY GoingSteps
  <2>5. pc'[r] = "submit score" => pc'[r] \in AfterSnapshot
    BY GoingSteps
  <2>6. \A q \in Run : Going(q)' /\ read'[q].session = read[r].session => q = r
    BY <1>1, <2>1 DEF HasToItself
  <2>7. QED
    BY <2>1, <2>2, <2>3, <2>4, <2>5, <2>6 DEF HasToItself, ResultsStay
<1>3. ASSUME NEW s \in Session, agreed'[s] # None
      PROVE  AllAgree(s)'
  <2>1. agreed'[s] = agreed[s] /\ AllAgree(s)
    BY <1>3 DEF AgreeInv
  <2> DEFINE r == agreed[s]
  <2>3. r \in Run /\ pc[r] = "done" /\ ~Going(r)
    BY <2>1, GoingSteps DEF AllAgree
  <2>4. pc'[r] = "done" /\ read'[r] = read[r]
    BY <2>3 DEF CallsKeep
  <2>5. \A q \in Run : Going(q)' => read'[q].session # s
    BY <1>1, <2>1 DEF AllAgree
  <2>6. session'[s] # None /\ session'[s].result = session[s].result
        /\ session'[s].score = session[s].score
    BY <2>1 DEF AllAgree, ResultsStay
  <2>7. QED
    BY <2>1, <2>3, <2>4, <2>5, <2>6 DEF AllAgree
<1>4. QED
  BY <1>2, <1>3 DEF AgreeInv

LEMMA AgreePostScore == ASSUME TypeInv, AgreeInv, NEW s \in Session, PostScore(s) PROVE AgreeInv'
<1>1. PICK entry : board' = [board EXCEPT ![s] = entry]
  BY DEF PostScore
<1>2. agreed' = [agreed EXCEPT ![s] = None] /\ UNCHANGED <<session, snapshot, runs, pc, read, out, alone>>
  BY DEF PostScore, calls
<1>3. agreed'[s] = None /\ \A t \in Session : t # s => agreed'[t] = agreed[t] /\ board'[t] = board[t]
  BY <1>1, <1>2 DEF TypeInv, TypeOK
<1>4. \A r \in Run : HasToItself(r)' <=> HasToItself(r)
  BY <1>2 DEF HasToItself, Going
<1>5. \A t \in Session : agreed'[t] # None => AllAgree(t)'
  BY <1>2, <1>3 DEF AgreeInv, AllAgree, Going
<1>6. QED
  BY <1>2, <1>4, <1>5 DEF AgreeInv, Going

LEMMA AgreeBegin ==
    ASSUME TypeInv, AgreeInv, NEW r \in Run, NEW s \in Session, Begin(r, s)
    PROVE  AgreeInv'
<1>1. PICK mine : read' = [read EXCEPT ![r] = mine] /\ mine.session = s
  <2>1. PICK body \in Bodies :
          read' = [read EXCEPT ![r] = [session |-> s, name |-> session[s].name,
                                       setup |-> SetupFor(s, body), body |-> body, found |-> FALSE]]
    BY DEF Begin
  <2> DEFINE mine == [session |-> s, name |-> session[s].name, setup |-> SetupFor(s, body),
                      body |-> body, found |-> FALSE]
  <2>2. mine.session = s
    OBVIOUS
  <2>3. read' = [read EXCEPT ![r] = mine]
    BY <2>1
  <2> HIDE DEF mine
  <2>4. QED
    BY <2>2, <2>3
<1>2. /\ pc[r] = "idle" /\ pc' = [pc EXCEPT ![r] = "simulate"]
      /\ alone' = [q \in Run |-> IF q = r THEN Under(s) = {} ELSE alone[q] /\ q \notin Under(s)]
      /\ agreed' = [agreed EXCEPT ![s] = None]
      /\ UNCHANGED <<session, tables, out>>
  BY DEF Begin, Goto
<1>3. /\ read'[r] = mine /\ pc'[r] = "simulate"
      /\ \A q \in Run : q # r => pc'[q] = pc[q] /\ read'[q] = read[q]
      /\ agreed'[s] = None /\ \A t \in Session : t # s => agreed'[t] = agreed[t]
  BY <1>1, <1>2 DEF TypeInv, TypeOK, CallsTyped
<1>4. Going(r)' /\ ~Going(r) /\ \A q \in Run : q # r => (Going(q)' <=> Going(q))
  BY <1>2, <1>3 DEF Going, Storing
<1>5. \A q \in Run : q \in Under(s) <=> Going(q) /\ read[q].session = s
  <2>1. \A q \in Run : pc[q] \notin {"idle", "done"} <=> Going(q)
    BY GoingSteps DEF TypeInv, CallsTyped, CallTyped
  <2>2. QED
    BY <2>1 DEF Under
<1>6. ASSUME NEW q \in Run, alone'[q], Going(q)'
      PROVE  HasToItself(q)'
  <2>1. CASE q = r
    <3>1. Under(s) = {}
      BY <1>2, <1>6, <2>1
    <3>2. \A p \in Run : Going(p)' /\ read'[p].session = s => p = r
      BY <1>3, <1>4, <1>5, <3>1
    <3>3. QED
      BY <1>1, <1>3, <2>1, <3>2 DEF HasToItself, AfterSnapshot, AfterRun
  <2>2. CASE q # r
    <3>1. alone[q] /\ q \notin Under(s) /\ Going(q) /\ pc'[q] = pc[q] /\ read'[q] = read[q]
      BY <1>2, <1>3, <1>4, <1>6, <2>2
    <3>2. HasToItself(q) /\ read[q].session # s
      BY <1>5, <3>1 DEF AgreeInv
    <3>3. \A p \in Run : Going(p)' /\ read'[p].session = read[q].session => p = q
      BY <1>1, <1>3, <1>4, <3>2 DEF HasToItself
    <3>4. QED
      BY <1>2, <3>1, <3>2, <3>3 DEF HasToItself, tables
  <2>3. QED
    BY <2>1, <2>2
<1>7. ASSUME NEW t \in Session, agreed'[t] # None
      PROVE  AllAgree(t)'
  <2>1. t # s /\ agreed'[t] = agreed[t] /\ AllAgree(t)
    BY <1>3, <1>7 DEF AgreeInv
  <2> DEFINE q == agreed[t]
  <2>3. q \in Run /\ pc[q] = "done" /\ q # r
    BY <1>2, <2>1 DEF AllAgree
  <2>4. pc'[q] = pc[q] /\ read'[q] = read[q]
    BY <1>3, <2>3
  <2>5. \A p \in Run : Going(p)' => read'[p].session # t
    BY <1>1, <1>3, <1>4, <2>1 DEF AllAgree
  <2>6. UNCHANGED <<session, snapshot, runs, board>>
    BY <1>2 DEF tables
  <2>7. QED
    BY <2>1, <2>3, <2>4, <2>5, <2>6 DEF AllAgree
<1>8. QED
  BY <1>6, <1>7 DEF AgreeInv

\* The steps before the first write, and those of no run, are calm.
LEMMA AgreeCalmStep ==
    ASSUME TypeInv, AgreeInv, Calm,
           \A s \in Session : ~PostScore(s), \A r \in Run, s \in Session : ~Begin(r, s)
    PROVE  AgreeInv'
<1>1. ResultsStay /\ UNCHANGED <<snapshot, runs>>
  BY CalmSteps
<1>2. UNCHANGED <<board, alone, agreed>>
  BY DEF Calm, Create, Patch, SubmitSetup, Simulate, FindSnapshot, CallMoves, tables, calls, vars
<1>3. CallsKeep
  <2>1. ASSUME NEW s \in Session, Create(s) \/ Patch(s) \/ SubmitSetup(s)
        PROVE  CallsKeep
    BY <2>1 DEF Create, Patch, SubmitSetup, calls, CallsKeep
  <2>2. ASSUME NEW r \in Run, Simulate(r)
        PROVE  CallsKeep
    <3>1. PICK outcome : out' = [out EXCEPT ![r] = outcome]
      BY <2>2 DEF Simulate
    <3>2. pc[r] = "simulate" /\ pc' = [pc EXCEPT ![r] = "find snapshot"] /\ read' = read
      BY <2>2 DEF Simulate, Goto
    <3>3. pc'[r] = "find snapshot" /\ \A q \in Run : q # r => pc'[q] = pc[q] /\ out'[q] = out[q]
      BY <3>1, <3>2 DEF TypeInv, CallsTyped
    <3>4. QED
      BY <3>2, <3>3 DEF CallsKeep, Going, AfterSnapshot
  <2>3. ASSUME NEW r \in Run, FindSnapshot(r)
        PROVE  CallsKeep
    <3>1. pc[r] = "find snapshot" /\ pc' = [pc EXCEPT ![r] = "put snapshot"] /\ out' = out
      BY <2>3 DEF FindSnapshot, Goto
    <3>2. Going(r) /\ read[r] \in Read
      BY <3>1, Mine DEF Going, Storing
    <3>3. PICK found : read' = [read EXCEPT ![r] = [read[r] EXCEPT !.found = found]]
      BY <2>3 DEF FindSnapshot
    <3> DEFINE mine == [read[r] EXCEPT !.found = found]
    <3>4. mine.session = read[r].session
      BY <3>2 DEF Read
    <3>5. read' = [read EXCEPT ![r] = mine]
      BY <3>3
    <3> HIDE DEF mine
    <3>6. /\ pc'[r] = "put snapshot" /\ read'[r] = mine
          /\ \A q \in Run : q # r => pc'[q] = pc[q] /\ read'[q] = read[q]
      BY <3>1, <3>5 DEF TypeInv, CallsTyped
    <3>7. QED
      BY <3>1, <3>2, <3>4, <3>6 DEF CallsKeep, AfterSnapshot
  <2>4. ASSUME NEW c \in Run \cup Refresh, CallMoves(c)
        PROVE  CallsKeep
    <3>1. PICK step \in {"upsert", "done"} : Goto(c, step) /\ (step = "upsert" => c \in Refresh)
      BY <2>4 DEF CallMoves
    <3>2. UNCHANGED <<read, out>>
      BY <2>4 DEF CallMoves
    <3>3. \A q \in Run : q = c => step = "done"
      BY <3>1, NoneIsNothing
    <3>4. \A q \in Run : pc'[q] = pc[q] \/ pc'[q] = "done"
      BY <3>1, <3>3 DEF Goto, TypeInv, CallsTyped
    <3>5. ASSUME NEW q \in Run
          PROVE  pc'[q] = pc[q] \/ (Going(q) /\ pc'[q] = "done" /\ pc'[q] \notin AfterSnapshot)
      <4>1. pc[q] = "idle" => pc'[q] = pc[q]
        <5>1. ASSUME pc[q] = "idle"
              PROVE  q # c
          BY <2>4, <5>1, NoneIsNothing DEF CallMoves
        <5>2. QED
          BY <3>1, <5>1 DEF Goto, TypeInv, CallsTyped
      <4>2. pc[q] = "idle" \/ pc[q] = "done" \/ Going(q)
        BY DEF TypeInv, CallsTyped, CallTyped
      <4>3. QED
        BY <3>4, <4>1, <4>2, GoingSteps
    <3>6. QED
      BY <3>2, <3>5 DEF CallsKeep
  <2>5. CASE UNCHANGED vars
    BY <2>5 DEF vars, CallsKeep
  <2>6. QED
    BY <2>1, <2>2, <2>3, <2>4, <2>5 DEF Calm
<1>4. QED
  BY <1>1, <1>2, <1>3, AgreeCalm

\* What the tables have of the other sessions.
OtherTablesRest(s) ==
    \A t \in Session : t # s => /\ snapshot'[t] = snapshot[t] /\ runs'[t] = runs[t]
                                /\ session'[t] = session[t] /\ board'[t] = board[t]

\* Whoever writes disturbs neither a run that is alone in its session nor tables that agree.
LEMMA OthersRest ==
    ASSUME TypeInv, AgreeInv, NEW r \in Run, Going(r), OtherTablesRest(read[r].session),
           NEW step, pc' = [pc EXCEPT ![r] = step], UNCHANGED <<read, out, alone>>,
           step \in Storing \cup {"done"}
    PROVE  /\ \A q \in Run : q # r /\ alone'[q] /\ Going(q)' => HasToItself(q)'
           /\ \A t \in Session : agreed[t] # None =>
                    t # read[r].session /\ (agreed'[t] = agreed[t] => AllAgree(t)')
           /\ \A q \in Run : Going(q)' => Going(q)
<1> DEFINE s == read[r].session
<1>1. pc'[r] = step /\ \A q \in Run : q # r => pc'[q] = pc[q]
  BY DEF TypeInv, CallsTyped
<1>2. \A q \in Run : Going(q)' => Going(q)
  BY <1>1 DEF Going
<1>3. ASSUME NEW q \in Run, q # r, alone'[q], Going(q)'
      PROVE  HasToItself(q)'
  <2>1. HasToItself(q) /\ Going(q) /\ pc'[q] = pc[q]
    BY <1>1, <1>2, <1>3 DEF AgreeInv
  <2>2. read[q].session # s /\ read[q].session \in Session
    BY <1>3, <2>1, Mine DEF HasToItself
  <2>3. \A p \in Run : Going(p)' /\ read[p].session = read[q].session => p = q
    BY <1>2, <2>1 DEF HasToItself
  <2>4. QED
    BY <2>1, <2>2, <2>3 DEF HasToItself, OtherTablesRest
<1>4. ASSUME NEW t \in Session, agreed[t] # None
      PROVE  t # s /\ (agreed'[t] = agreed[t] => AllAgree(t)')
  <2>1. AllAgree(t)
    BY <1>4 DEF AgreeInv
  <2>2. t # s
    BY <2>1 DEF AllAgree
  <2>3. pc[r] # "done" /\ agreed[t] \in Run
    BY <2>1, GoingSteps DEF AllAgree
  <2>4. agreed[t] # r /\ pc'[agreed[t]] = "done"
    BY <1>1, <2>1, <2>3 DEF AllAgree
  <2>5. \A p \in Run : Going(p)' => read'[p].session # t
    BY <1>2, <2>1 DEF AllAgree
  <2>6. ASSUME agreed'[t] = agreed[t]
        PROVE  AllAgree(t)'
    BY <2>1, <2>2, <2>3, <2>4, <2>5, <2>6 DEF AllAgree, OtherTablesRest
  <2>7. QED
    BY <2>2, <2>6
<1>5. QED
  BY <1>2, <1>3, <1>4

\* A run that goes on after a write.
LEMMA AgreeWrites ==
    ASSUME TypeInv, AgreeInv, NEW r \in Run, Going(r), OtherTablesRest(read[r].session),
           NEW step \in AfterSnapshot, pc' = [pc EXCEPT ![r] = step],
           UNCHANGED <<read, out, alone, agreed>>,
           alone[r] /\ (\A q \in Run : Going(q)' /\ read'[q].session = read[r].session => q = r)
                => HasToItself(r)'
    PROVE  AgreeInv'
<1>1. step \in Storing
  BY GoingSteps
<1>2. /\ \A q \in Run : q # r /\ alone'[q] /\ Going(q)' => HasToItself(q)'
      /\ \A t \in Session : agreed[t] # None => (agreed'[t] = agreed[t] => AllAgree(t)')
      /\ \A q \in Run : Going(q)' => Going(q)
  BY <1>1, OthersRest
<1>3. alone[r] => \A q \in Run : Going(q)' /\ read'[q].session = read[r].session => q = r
  BY <1>2 DEF AgreeInv, HasToItself
<1>4. alone'[r] /\ Going(r)' => HasToItself(r)'
  BY <1>3
<1>5. QED
  BY <1>2, <1>4 DEF AgreeInv

LEMMA AgreePutSnapshot == ASSUME TypeInv, AgreeInv, NEW r \in Run, PutSnapshot(r) PROVE AgreeInv'
<1> DEFINE s == read[r].session
<1>1. pc[r] = "put snapshot" /\ UNCHANGED <<session, runs, board, read, out, alone, agreed>>
  BY DEF PutSnapshot
<1>2. Going(r) /\ s \in Session
  BY <1>1, Mine DEF Going, Storing
<1>3. CASE pc' = [pc EXCEPT ![r] = "done"] /\ snapshot' = snapshot
  <2>1. ResultsStay
    BY <1>1 DEF ResultsStay
  <2>2. CallsKeep
    BY <1>1, <1>2, <1>3, Moves, GoingSteps DEF CallsKeep
  <2>3. QED
    BY <1>1, <1>3, <2>1, <2>2, AgreeCalm
<1>4. CASE pc' = [pc EXCEPT ![r] = "store run"] /\ snapshot' = [snapshot EXCEPT ![s] = r]
  <2>1. pc'[r] = "store run"
    BY <1>1, <1>4, Moves
  <2>2. snapshot'[s] = r /\ \A t \in Session : t # s => snapshot'[t] = snapshot[t]
    BY <1>2, <1>4 DEF TypeInv, TypeOK
  <2>3. OtherTablesRest(s)
    BY <1>1, <2>2 DEF OtherTablesRest
  <2>4. (\A q \in Run : Going(q)' /\ read'[q].session = s => q = r) => HasToItself(r)'
    BY <1>1, <2>1, <2>2 DEF HasToItself, AfterRun
  <2>5. "store run" \in AfterSnapshot
    BY DEF AfterSnapshot
  <2>6. QED
    BY <1>1, <1>2, <1>4, <2>3, <2>4, <2>5, AgreeWrites
<1>5. QED
  BY <1>3, <1>4 DEF PutSnapshot, Goto, Then

LEMMA AgreeStoreRun == ASSUME TypeInv, AgreeInv, NEW r \in Run, StoreRun(r) PROVE AgreeInv'
<1> DEFINE s == read[r].session
<1>1. /\ pc[r] = "store run" /\ pc' = [pc EXCEPT ![r] = "store result"]
      /\ runs' = [runs EXCEPT ![s] = Append(runs[s], r)]
      /\ UNCHANGED <<session, snapshot, board, read, out, alone, agreed>>
  BY DEF StoreRun, Goto, Then
<1>2. Going(r) /\ s \in Session
  BY <1>1, Mine DEF Going, Storing
<1>3. pc'[r] = "store result"
  BY <1>1, Moves
<1>4. Last(runs'[s]) = r /\ \A t \in Session : t # s => runs'[t] = runs[t]
  <2>1. runs \in [Session -> Seq(Run)]
    BY DEF TypeInv, TypeOK
  <2>2. runs'[s] = Append(runs[s], r) /\ \A t \in Session : t # s => runs'[t] = runs[t]
    BY <1>1, <1>2, <2>1
  <2>3. runs[s] \in Seq(Run)
    BY <1>2, <2>1
  <2>4. Last(Append(runs[s], r)) = r
    BY <2>3, Appended
  <2>5. QED
    BY <2>2, <2>4
<1>5. OtherTablesRest(s)
  BY <1>1, <1>4 DEF OtherTablesRest
<1>6. alone[r] => snapshot[s] = r
  BY <1>1, <1>2 DEF AgreeInv, HasToItself, AfterSnapshot
<1>7. alone[r] /\ (\A q \in Run : Going(q)' /\ read'[q].session = s => q = r) => HasToItself(r)'
  BY <1>1, <1>3, <1>4, <1>6 DEF HasToItself
<1>8. "store result" \in AfterSnapshot
  BY DEF AfterSnapshot
<1>9. QED
  BY <1>1, <1>2, <1>5, <1>7, <1>8, AgreeWrites

LEMMA AgreeStoreResult == ASSUME TypeInv, AgreeInv, NEW r \in Run, StoreResult(r) PROVE AgreeInv'
<1> DEFINE s == read[r].session
<1>1. /\ pc[r] = "store result" /\ pc' = [pc EXCEPT ![r] = "submit score"]
      /\ UNCHANGED <<snapshot, runs, board, read, out, alone, agreed>>
  BY DEF StoreResult, Goto, Then, tables
<1>2. Going(r) /\ s \in Session
  BY <1>1, Mine DEF Going, Storing
<1>3. pc'[r] = "submit score"
  BY <1>1, Moves
<1>4. /\ session'[s].result = r /\ session'[s].score = Score(out[r].total)
      /\ \A t \in Session : t # s => session'[t] = session[t]
  <2>1. PICK row \in Row : /\ session' = [session EXCEPT ![s] = row]
                           /\ row.result = r /\ row.score = Score(out[r].total)
    BY ResultStored
  <2>2. QED
    BY <1>2, <2>1 DEF TypeInv, TypeOK
<1>5. OtherTablesRest(s)
  BY <1>1, <1>4 DEF OtherTablesRest
<1>6. alone[r] => snapshot[s] = r /\ Last(runs[s]) = r
  BY <1>1, <1>2 DEF AgreeInv, HasToItself, AfterSnapshot, AfterRun
<1>7. alone[r] /\ (\A q \in Run : Going(q)' /\ read'[q].session = s => q = r) => HasToItself(r)'
  BY <1>1, <1>3, <1>4, <1>6 DEF HasToItself
<1>8. "submit score" \in AfterSnapshot
  BY DEF AfterSnapshot
<1>9. QED
  BY <1>1, <1>2, <1>5, <1>7, <1>8, AgreeWrites

LEMMA AgreeSubmitScore == ASSUME TypeInv, AgreeInv, NEW r \in Run, SubmitScore(r) PROVE AgreeInv'
<1> DEFINE s == read[r].session
           entry == Entry(read[r].name, Score(out[r].total), r)
<1>1. /\ pc[r] = "submit score" /\ pc' = [pc EXCEPT ![r] = "done"]
      /\ board' = [board EXCEPT ![s] = entry]
      /\ agreed' = [agreed EXCEPT ![s] = IF alone[r] THEN r ELSE None]
      /\ UNCHANGED <<session, snapshot, runs, read, out, alone>>
  BY DEF SubmitScore, Goto
<1>2. Going(r) /\ s \in Session /\ session[s] # None
  BY <1>1, Mine DEF Going, Storing
<1>3. pc'[r] = "done" /\ ~Going(r)'
  <2>1. pc'[r] = "done"
    BY <1>1, Moves
  <2>2. QED
    BY <2>1 DEF Going, Storing
<1>4. /\ board'[s] = entry /\ agreed'[s] = IF alone[r] THEN r ELSE None
      /\ \A t \in Session : t # s => board'[t] = board[t] /\ agreed'[t] = agreed[t]
  BY <1>1, <1>2 DEF TypeInv, TypeOK
<1>5. OtherTablesRest(s)
  BY <1>1, <1>4 DEF OtherTablesRest
<1>6. /\ \A q \in Run : q # r /\ alone'[q] /\ Going(q)' => HasToItself(q)'
      /\ \A t \in Session : agreed[t] # None => (agreed'[t] = agreed[t] => AllAgree(t)')
      /\ \A q \in Run : Going(q)' => Going(q)
  <2>1. "done" \in Storing \cup {"done"}
    OBVIOUS
  <2>2. QED
    BY <1>1, <1>2, <1>5, <2>1, OthersRest
<1>7. ASSUME agreed'[s] # None
      PROVE  AllAgree(s)'
  <2>1. alone[r] /\ agreed'[s] = r
    BY <1>4, <1>7
  <2>2. HasToItself(r) /\ "submit score" \in AfterRun /\ "submit score" \in AfterSnapshot
    BY <1>2, <2>1, GoingSteps DEF AgreeInv
  <2>3. /\ snapshot[s] = r /\ Last(runs[s]) = r
        /\ session[s].result = r /\ session[s].score = Score(out[r].total)
    BY <1>1, <2>2 DEF HasToItself
  <2>4. \A q \in Run : Going(q)' => read'[q].session # s
    BY <1>1, <1>3, <1>6, <2>2 DEF HasToItself
  <2>5. QED
    BY <1>1, <1>2, <1>3, <1>4, <2>1, <2>3, <2>4 DEF AllAgree
<1>8. ASSUME NEW t \in Session, agreed'[t] # None
      PROVE  AllAgree(t)'
  <2>1. CASE t = s
    BY <1>1, <1>7, <1>8, <2>1 DEF AllAgree
  <2>2. CASE t # s
    BY <1>4, <1>6, <1>8, <2>2
  <2>3. QED
    BY <2>1, <2>2
<1>9. \A q \in Run : alone'[q] /\ Going(q)' => HasToItself(q)'
  BY <1>3, <1>6
<1>10. QED
  BY <1>8, <1>9 DEF AgreeInv

LEMMA AgreeNext == TypeInv /\ AgreeInv /\ [Next]_vars => AgreeInv'
<1> SUFFICES ASSUME TypeInv, AgreeInv, [Next]_vars
             PROVE  AgreeInv'
  OBVIOUS
<1>1. CASE \E s \in Session : PostScore(s)
  BY <1>1, AgreePostScore
<1>2. CASE \E r \in Run, s \in Session : Begin(r, s)
  BY <1>2, AgreeBegin
<1>3. CASE \E r \in Run : PutSnapshot(r) \/ StoreRun(r) \/ StoreResult(r) \/ SubmitScore(r)
  BY <1>3, AgreePutSnapshot, AgreeStoreRun, AgreeStoreResult, AgreeSubmitScore
<1>4. CASE /\ Calm
           /\ \A s \in Session : ~PostScore(s)
           /\ \A r \in Run, s \in Session : ~Begin(r, s)
  BY <1>4, AgreeCalmStep
<1>5. QED
  BY <1>1, <1>2, <1>3, <1>4, CalmOrWrites

(* Whatever fails and overlaps before, once a run has gone through that no      *)
(* other run of its session overlapped, the four tables show that run.          *)
THEOREM LastRunShown == Spec => []StoresAgree
<1>1. Init => TypeInv /\ AgreeInv
  BY TypeInit, AgreeInit
<1>2. (TypeInv /\ AgreeInv) /\ [Next]_vars => (TypeInv /\ AgreeInv)'
  BY TypeNext, AgreeNext
<1>3. AgreeInv => StoresAgree
  BY DEF AgreeInv, AllAgree, StoresAgree
<1>4. QED
  BY <1>1, <1>2, <1>3, PTL DEF Spec

-----------------------------------------------------------------------------
(* Order statistics                                                        *)

\* The positions of the values that are less than x, and of those up to x.
Below(value, x) == {n \in DOMAIN value : value[n] < x}
UpTo(value, x) == {n \in DOMAIN value : value[n] <= x}

LEMMA Largest ==
    ASSUME NEW D, NEW value \in [D -> Int], NEW B \in SUBSET D, IsFiniteSet(B), B # {}
    PROVE  \E n \in B : \A m \in B : value[m] <= value[n]
<1> DEFINE Over(n) == {m \in B : value[m] > value[n]}
           T == {Over(n) : n \in B}
<1>1. T # {} /\ T \subseteq FiniteSubsetsOf(B)
  <2>1. \A n \in B : Over(n) \subseteq B /\ IsFiniteSet(Over(n))
    BY FS_Subset
  <2>2. QED
    BY <2>1 DEF FiniteSubsetsOf
<1>2. PICK s \in T : \A r \in T : r \subseteq s => r = s
  <2> HIDE DEF T
  <2>1. QED
    BY <1>1, MinimalFiniteSet
<1>3. PICK n \in B : s = Over(n)
  BY <1>2
<1>4. ASSUME NEW m \in B, value[m] > value[n]
      PROVE  FALSE
  <2>1. Over(m) \in T /\ m \in Over(n) /\ m \notin Over(m)
    BY <1>4
  <2>2. Over(m) \subseteq Over(n)
    BY <1>4
  <2>3. QED
    BY <1>2, <1>3, <2>1, <2>2
<1>5. \A m \in B : value[m] \in Int /\ value[n] \in Int
  OBVIOUS
<1>6. QED
  BY <1>3, <1>4, <1>5

\* The definition of Kth finds a value.
LEMMA KthFound ==
    ASSUME NEW D, IsFiniteSet(D), NEW value \in [D -> Int], NEW k \in 1..Cardinality(D)
    PROVE  /\ Kth(value, k) \in Range(value) /\ Kth(value, k) \in Int
           /\ Cardinality(Below(value, Kth(value, k))) < k
           /\ Cardinality(UpTo(value, Kth(value, k))) >= k
<1> DEFINE T == {s \in {UpTo(value, v) : v \in Range(value)} : Cardinality(s) >= k}
<1>1. Cardinality(D) \in Nat /\ D # {} /\ DOMAIN value = D /\ Range(value) = {value[n] : n \in D}
  BY FS_CardinalityType, FS_EmptySet DEF Range
<1>2. \A v : /\ Below(value, v) \subseteq D /\ IsFiniteSet(Below(value, v))
             /\ Cardinality(Below(value, v)) \in Nat
             /\ UpTo(value, v) \subseteq D /\ IsFiniteSet(UpTo(value, v))
  BY <1>1, FS_Subset, FS_CardinalityType DEF Below, UpTo
<1>3. T # {}
  <2>1. PICK n \in D : \A m \in D : value[m] <= value[n]
    BY <1>1, Largest
  <2>2. UpTo(value, value[n]) = D
    BY <1>1, <2>1 DEF UpTo
  <2>3. UpTo(value, value[n]) \in T
    BY <1>1, <2>2
  <2>4. QED
    BY <2>3
<1>4. T \subseteq FiniteSubsetsOf(D)
  BY <1>2 DEF FiniteSubsetsOf
<1>5. PICK s \in T : \A r \in T : r \subseteq s => r = s
  <2> HIDE DEF T
  <2>1. QED
    BY <1>3, <1>4, MinimalFiniteSet
<1>6. PICK i \in D : s = UpTo(value, value[i]) /\ Cardinality(s) >= k
  BY <1>1, <1>5
<1>7. ASSUME Cardinality(Below(value, value[i])) >= k
      PROVE  FALSE
  <2>1. Below(value, value[i]) # {}
    BY <1>7, FS_EmptySet
  <2>2. PICK n \in Below(value, value[i]) : \A m \in Below(value, value[i]) : value[m] <= value[n]
    BY <1>2, <2>1, Largest
  <2>3. n \in D /\ value[n] < value[i] /\ value[n] \in Int /\ value[i] \in Int
    BY <1>1 DEF Below
  <2>4. UpTo(value, value[n]) = Below(value, value[i])
    BY <1>1, <2>2, <2>3 DEF UpTo, Below
  <2>5. UpTo(value, value[n]) \in T
    BY <1>1, <1>7, <2>3, <2>4
  <2>6. UpTo(value, value[n]) \subseteq s
    BY <1>1, <1>6, <2>3 DEF UpTo
  <2>7. i \in s /\ i \notin UpTo(value, value[n])
    BY <1>1, <1>6, <2>3 DEF UpTo
  <2>8. QED
    BY <1>5, <2>5, <2>6, <2>7
<1>8. /\ value[i] \in Range(value) /\ Cardinality(UpTo(value, value[i])) >= k
      /\ Cardinality(Below(value, value[i])) < k
  BY <1>1, <1>2, <1>6, <1>7
<1>9. /\ Kth(value, k) \in Range(value)
      /\ Cardinality(Below(value, Kth(value, k))) < k
      /\ Cardinality(UpTo(value, Kth(value, k))) >= k
  BY <1>8 DEF Kth, Below, UpTo
<1>10. QED
  BY <1>1, <1>9

LEMMA KthAscends ==
    ASSUME NEW D, IsFiniteSet(D), NEW value \in [D -> Int],
           NEW j \in 1..Cardinality(D), NEW k \in 1..Cardinality(D), j <= k
    PROVE  Kth(value, j) <= Kth(value, k)
<1> DEFINE low == Kth(value, j)
           high == Kth(value, k)
<1>1. /\ low \in Int /\ high \in Int /\ Cardinality(Below(value, low)) < j
      /\ Cardinality(UpTo(value, high)) >= k
  BY KthFound
<1> HIDE DEF low, high
<1>2. ASSUME low > high
      PROVE  FALSE
  <2>1. UpTo(value, high) \subseteq Below(value, low)
    BY <1>1, <1>2 DEF UpTo, Below
  <2>2. Below(value, low) \subseteq D
    BY DEF Below
  <2>3. IsFiniteSet(Below(value, low))
    BY <2>2, FS_Subset
  <2>4. Cardinality(UpTo(value, high)) <= Cardinality(Below(value, low))
    BY <2>1, <2>3, FS_Subset
  <2>5. IsFiniteSet(UpTo(value, high))
    BY <2>1, <2>3, FS_Subset
  <2>6. Cardinality(UpTo(value, high)) \in Nat /\ Cardinality(Below(value, low)) \in Nat
    BY <2>3, <2>5, FS_CardinalityType
  <2>7. QED
    BY <1>1, <2>4, <2>6, FS_CardinalityType
<1>3. QED
  BY <1>1, <1>2 DEF low, high

\* The value at a quarter of an index, counted from 0.
At(value, index) ==
    LET lo == Kth(value, index \div 4 + 1)
        hi == IF index % 4 = 0 THEN lo ELSE Kth(value, index \div 4 + 2)
    IN  4 * lo + (hi - lo) * (index % 4)

LEMMA AtBetween ==
    ASSUME NEW D, IsFiniteSet(D), NEW value \in [D -> Int],
           NEW index \in 0..4 * (Cardinality(D) - 1)
    PROVE  LET q == index \div 4
               r == index % 4
           IN  /\ q \in 0..Cardinality(D) - 1 /\ r \in 0..3 /\ index = 4 * q + r
               /\ At(value, index) \in Int
               /\ Kth(value, q + 1) \in Int
               /\ 4 * Kth(value, q + 1) <= At(value, index)
               /\ r = 0 => At(value, index) = 4 * Kth(value, q + 1)
               /\ r # 0 => /\ q + 2 <= Cardinality(D) /\ Kth(value, q + 2) \in Int
                           /\ At(value, index) = (4 - r) * Kth(value, q + 1) + r * Kth(value, q + 2)
                           /\ At(value, index) <= 4 * Kth(value, q + 2)
                           /\ Kth(value, q + 1) <= Kth(value, q + 2)
<1> DEFINE q == index \div 4
           r == index % 4
           lo == Kth(value, q + 1)
           up == Kth(value, q + 2)
<1>1. Cardinality(D) \in Nat
  BY FS_CardinalityType
<1>2. q \in 0..Cardinality(D) - 1 /\ r \in 0..3 /\ index = 4 * q + r
  BY <1>1
<1>3. At(value, index) = IF r = 0 THEN 4 * lo + (lo - lo) * r ELSE 4 * lo + (up - lo) * r
  BY DEF At
<1> HIDE DEF q, r
<1>4. lo \in Int
  BY <1>1, <1>2, KthFound
<1>5. r # 0 => q + 2 <= Cardinality(D)
  BY <1>1, <1>2
<1>6. r # 0 => up \in Int /\ lo <= up
  BY <1>1, <1>2, <1>5, KthFound, KthAscends
<1> HIDE DEF lo, up
<1>7. r = 0 => At(value, index) = 4 * lo
  BY <1>3, <1>4
<1>8. r # 0 => /\ At(value, index) = (4 - r) * lo + r * up
               /\ 4 * lo <= At(value, index) /\ At(value, index) <= 4 * up
               /\ At(value, index) \in Int
  <2>1. CASE r = 1
    BY <1>3, <1>4, <1>6, <2>1
  <2>2. CASE r = 2
    BY <1>3, <1>4, <1>6, <2>2
  <2>3. CASE r = 3
    BY <1>3, <1>4, <1>6, <2>3
  <2>4. QED
    BY <1>2, <2>1, <2>2, <2>3
<1>9. At(value, index) \in Int /\ 4 * lo <= At(value, index)
  BY <1>4, <1>7, <1>8
<1>10. QED
  BY <1>2, <1>4, <1>5, <1>6, <1>7, <1>8, <1>9 DEF q, r, lo, up

LEMMA AtCuts ==
    ASSUME NEW D, IsFiniteSet(D), NEW value \in [D -> Int],
           NEW index \in 0..4 * (Cardinality(D) - 1)
    PROVE  LET under == Cardinality({n \in D : 4 * value[n] < At(value, index)})
               over == Cardinality({n \in D : 4 * value[n] > At(value, index)})
           IN  /\ under \in Nat /\ over \in Nat
               /\ under <= index \div 4 + (IF index % 4 = 0 THEN 0 ELSE 1)
               /\ over <= Cardinality(D) - index \div 4 - 1
<1> DEFINE q == index \div 4
           r == index % 4
           x == At(value, index)
           Less == {n \in D : 4 * value[n] < x}
           More == {n \in D : 4 * value[n] > x}
           top == IF r = 0 THEN q + 1 ELSE q + 2
<1>1. /\ q \in 0..Cardinality(D) - 1 /\ r \in 0..3 /\ x \in Int /\ Cardinality(D) \in Nat
      /\ Kth(value, q + 1) \in Int /\ 4 * Kth(value, q + 1) <= x
      /\ top \in 1..Cardinality(D) /\ x <= 4 * Kth(value, top) /\ Kth(value, top) \in Int
  <2>1. Cardinality(D) \in Nat
    BY FS_CardinalityType
  <2> HIDE DEF x
  <2>2. /\ q \in 0..Cardinality(D) - 1 /\ r \in 0..3 /\ x \in Int
        /\ Kth(value, q + 1) \in Int /\ 4 * Kth(value, q + 1) <= x
        /\ r = 0 => x = 4 * Kth(value, q + 1)
        /\ r # 0 => /\ q + 2 <= Cardinality(D) /\ x <= 4 * Kth(value, q + 2)
                    /\ Kth(value, q + 2) \in Int
    BY AtBetween DEF x
  <2> HIDE DEF q, r
  <2>3. CASE r = 0
    BY <2>1, <2>2, <2>3
  <2>4. CASE r # 0
    BY <2>1, <2>2, <2>4
  <2>5. QED
    BY <2>1, <2>2, <2>3, <2>4
<1> HIDE DEF q, r, x
<1>2. /\ IsFiniteSet(Less) /\ Cardinality(Less) \in Nat
      /\ IsFiniteSet(More) /\ Cardinality(More) \in Nat
  <2>1. Less \subseteq D /\ More \subseteq D
    OBVIOUS
  <2>2. QED
    BY <2>1, FS_Subset, FS_CardinalityType
<1>3. Cardinality(Less) < top
  <2>1. Less \subseteq Below(value, Kth(value, top))
    BY <1>1 DEF Below
  <2>2. Cardinality(Below(value, Kth(value, top))) < top
    BY <1>1, KthFound
  <2>3. Below(value, Kth(value, top)) \subseteq D
    BY DEF Below
  <2>4. IsFiniteSet(Below(value, Kth(value, top)))
    BY <2>3, FS_Subset
  <2>5. /\ Cardinality(Less) <= Cardinality(Below(value, Kth(value, top)))
        /\ Cardinality(Below(value, Kth(value, top))) \in Nat
    BY <2>1, <2>4, FS_Subset, FS_CardinalityType
  <2>6. QED
    BY <1>1, <1>2, <2>2, <2>5
<1>4. Cardinality(More) <= Cardinality(D) - q - 1
  <2> DEFINE U == UpTo(value, Kth(value, q + 1))
  <2>1. More \cap U = {}
    BY <1>1 DEF UpTo
  <2>2. U \subseteq D
    BY DEF UpTo
  <2>3. Cardinality(U) >= q + 1
    BY <1>1, KthFound
  <2>4. IsFiniteSet(U) /\ Cardinality(U) \in Nat
    BY <2>2, FS_Subset, FS_CardinalityType
  <2> HIDE DEF U
  <2>5. Cardinality(More \cup U) = Cardinality(More) + Cardinality(U)
    <3>1. Cardinality(More \cap U) = 0
      BY <2>1, FS_EmptySet
    <3> HIDE DEF More
    <3>2. Cardinality(More \cup U) = Cardinality(More) + Cardinality(U) - Cardinality(More \cap U)
      BY <1>2, <2>4, FS_Union
    <3>3. QED
      BY <1>2, <2>4, <3>1, <3>2
  <2>6. Cardinality(More \cup U) <= Cardinality(D)
    <3>1. More \cup U \subseteq D
      BY <2>2
    <3>2. QED
      BY <3>1, FS_Subset
  <2>7. QED
    BY <1>1, <1>2, <2>3, <2>4, <2>5, <2>6
<1>5. QED
  BY <1>1, <1>2, <1>3, <1>4 DEF q, r, x

LEMMA AtAscends ==
    ASSUME NEW D, IsFiniteSet(D), NEW value \in [D -> Int],
           NEW i \in 0..4 * (Cardinality(D) - 1), NEW j \in 0..4 * (Cardinality(D) - 1), i <= j
    PROVE  At(value, i) <= At(value, j)
<1> DEFINE p == i \div 4
           s == i % 4
           q == j \div 4
           t == j % 4
           x == At(value, i)
           y == At(value, j)
<1>1. Cardinality(D) \in Nat
  BY FS_CardinalityType
<1>2. /\ p \in 0..Cardinality(D) - 1 /\ s \in 0..3 /\ i = 4 * p + s /\ x \in Int
      /\ Kth(value, p + 1) \in Int
      /\ s = 0 => x = 4 * Kth(value, p + 1)
      /\ s # 0 => /\ p + 2 <= Cardinality(D) /\ Kth(value, p + 2) \in Int
                  /\ x = (4 - s) * Kth(value, p + 1) + s * Kth(value, p + 2)
                  /\ x <= 4 * Kth(value, p + 2) /\ Kth(value, p + 1) <= Kth(value, p + 2)
  <2> HIDE DEF x
  <2>1. QED
    BY AtBetween DEF x
<1>3. /\ q \in 0..Cardinality(D) - 1 /\ t \in 0..3 /\ j = 4 * q + t /\ y \in Int
      /\ Kth(value, q + 1) \in Int /\ 4 * Kth(value, q + 1) <= y
      /\ t # 0 => y = (4 - t) * Kth(value, q + 1) + t * Kth(value, q + 2)
  <2> HIDE DEF y
  <2>1. QED
    BY AtBetween DEF y
<1> HIDE DEF p, s, q, t, x, y
<1>4. p <= q /\ (p = q => s <= t)
  BY <1>2, <1>3
<1>5. CASE s = 0
  <2>1. Kth(value, p + 1) <= Kth(value, q + 1)
    BY <1>1, <1>2, <1>3, <1>4, KthAscends
  <2>2. QED
    BY <1>2, <1>3, <1>5, <2>1 DEF x, y
<1>6. CASE s # 0 /\ p < q
  <2>1. Kth(value, p + 2) <= Kth(value, q + 1)
    BY <1>1, <1>2, <1>3, <1>6, KthAscends
  <2>2. QED
    BY <1>2, <1>3, <1>6, <2>1 DEF x, y
<1>7. CASE s # 0 /\ p = q
  <2> DEFINE lo == Kth(value, p + 1)
             up == Kth(value, p + 2)
  <2>1. lo \in Int /\ up \in Int /\ lo <= up /\ x = (4 - s) * lo + s * up
    BY <1>2, <1>7
  <2>2. y = (4 - t) * lo + t * up /\ t # 0
    BY <1>2, <1>3, <1>4, <1>7
  <2> HIDE DEF lo, up
  <2>3. s \in 1..3 /\ t \in s..3
    BY <1>2, <1>3, <1>4, <1>7
  <2>4. CASE s = t
    BY <1>2, <2>1, <2>2, <2>4 DEF x, y
  <2>5. CASE s = 1 /\ t = 2
    BY <2>1, <2>2, <2>5 DEF x, y
  <2>6. CASE s = 1 /\ t = 3
    BY <2>1, <2>2, <2>6 DEF x, y
  <2>7. CASE s = 2 /\ t = 3
    BY <2>1, <2>2, <2>7 DEF x, y
  <2>8. QED
    BY <2>3, <2>4, <2>5, <2>6, <2>7
<1>8. QED
  BY <1>2, <1>3, <1>4, <1>5, <1>6, <1>7

\* The quartiles of any values stand between the halves and quarters that they should.
LEMMA StatsDescribe ==
    ASSUME NEW D, IsFiniteSet(D), D # {}, NEW value \in [D -> Int]
    PROVE  Describes(Stats(value), value)
<1> DEFINE N == Cardinality(D)
           under(x) == Cardinality({n \in D : 4 * value[n] < x})
           over(x) == Cardinality({n \in D : 4 * value[n] > x})
           q(k) == At(value, (N - 1) * k)
<1>1. N \in Nat /\ N >= 1
  BY FS_CardinalityType, FS_EmptySet
<1>2. DOMAIN value = D
  OBVIOUS
<1>3. \A k : Quartile(value, k) = q(k)
  BY <1>2 DEF Quartile, At
<1>4. /\ Stats(value).count = N /\ Stats(value).min = q(0) /\ Stats(value).q1 = q(1)
      /\ Stats(value).median = q(2) /\ Stats(value).q3 = q(3) /\ Stats(value).max = q(4)
  BY <1>2, <1>3 DEF Stats
<1> HIDE DEF N
<1>5. \A k \in 0..4 : (N - 1) * k \in 0..4 * (N - 1)
  <2>1. (N - 1) * 0 = 0 /\ (N - 1) * 1 = N - 1
    BY <1>1
  <2>2. QED
    BY <1>1, <2>1
<1>6. \A k \in 0..4 :
        LET index == (N - 1) * k
        IN  /\ under(q(k)) \in Nat /\ over(q(k)) \in Nat
            /\ under(q(k)) <= index \div 4 + (IF index % 4 = 0 THEN 0 ELSE 1)
            /\ over(q(k)) <= N - index \div 4 - 1
  <2> TAKE k \in 0..4
  <2> DEFINE index == (N - 1) * k
  <2>1. index \in 0..4 * (N - 1)
    BY <1>5
  <2> HIDE DEF index
  <2>2. QED
    BY <2>1, AtCuts DEF N, index
<1>7. q(0) <= q(1) /\ q(1) <= q(2) /\ q(2) <= q(3) /\ q(3) <= q(4)
  <2>1. /\ (N - 1) * 0 <= (N - 1) * 1 /\ (N - 1) * 1 <= (N - 1) * 2
        /\ (N - 1) * 2 <= (N - 1) * 3 /\ (N - 1) * 3 <= (N - 1) * 4
    BY <1>1
  <2>2. ASSUME NEW i \in 0..4 * (N - 1), NEW j \in 0..4 * (N - 1), i <= j
        PROVE  At(value, i) <= At(value, j)
    BY <2>2, AtAscends DEF N
  <2>3. QED
    BY <1>5, <2>1, <2>2
<1> HIDE DEF under, over, q
<1>8. under(q(0)) = 0 /\ over(q(4)) = 0
  BY <1>1, <1>6
<1>9. 2 * under(q(2)) <= N /\ 2 * over(q(2)) <= N
  <2>1. LET index == (N - 1) * 2
        IN  /\ under(q(2)) \in Nat /\ over(q(2)) \in Nat
            /\ under(q(2)) <= index \div 4 + (IF index % 4 = 0 THEN 0 ELSE 1)
            /\ over(q(2)) <= N - index \div 4 - 1
    BY <1>6
  <2>2. QED
    BY <1>1, <2>1
<1>10. 4 * under(q(1)) <= N + 2 /\ 4 * over(q(1)) <= 3 * N
  <2>1. LET index == (N - 1) * 1
        IN  /\ under(q(1)) \in Nat /\ over(q(1)) \in Nat
            /\ under(q(1)) <= index \div 4 + (IF index % 4 = 0 THEN 0 ELSE 1)
            /\ over(q(1)) <= N - index \div 4 - 1
    BY <1>6
  <2>2. QED
    BY <1>1, <2>1
<1>11. 4 * under(q(3)) <= 3 * N /\ 4 * over(q(3)) <= N + 2
  <2>1. LET index == (N - 1) * 3
        IN  /\ under(q(3)) \in Nat /\ over(q(3)) \in Nat
            /\ under(q(3)) <= index \div 4 + (IF index % 4 = 0 THEN 0 ELSE 1)
            /\ over(q(3)) <= N - index \div 4 - 1
    BY <1>6
  <2>2. QED
    BY <1>1, <2>1
<1>12. QED
  BY <1>2, <1>4, <1>7, <1>8, <1>9, <1>10, <1>11 DEF Describes, N, under, over

\* Where all values are positive, so is their median.
LEMMA MedianPositive ==
    ASSUME NEW D, IsFiniteSet(D), D # {}, NEW value \in [D -> Int], \A n \in D : value[n] >= 1
    PROVE  Stats(value).median \in Int /\ Stats(value).median > 0
<1> DEFINE index == (Cardinality(D) - 1) * 2
           lo == Kth(value, index \div 4 + 1)
<1>1. Cardinality(D) \in Nat /\ Cardinality(D) >= 1
  BY FS_CardinalityType, FS_EmptySet
<1>2. index \in 0..4 * (Cardinality(D) - 1)
  BY <1>1
<1>3. Stats(value).median = At(value, index)
  BY DEF Stats, Quartile, At
<1> HIDE DEF index
<1>4. /\ At(value, index) \in Int /\ 4 * lo <= At(value, index) /\ lo \in Int
      /\ index \div 4 \in 0..Cardinality(D) - 1
  BY <1>2, AtBetween
<1>5. lo \in Range(value)
  BY <1>1, <1>4, KthFound
<1>6. lo >= 1
  BY <1>5 DEF Range
<1> HIDE DEF lo
<1>7. QED
  BY <1>3, <1>4, <1>6

LEMMA ValuesWithin ==
    ASSUME NEW D, NEW f \in [D -> Int], NEW T
    PROVE  Range(f) \subseteq T <=> \A i \in D : f[i] \in T
BY DEF Range

LEMMA RacedRow ==
    ASSUME NEW row \in LapRow
    PROVE  /\ IsSample(row) <=> Raced(row)
           /\ row.time \in Int /\ \A i \in 1..3 : row.sector[i] \in Int
           /\ IsSample(row) => row.time >= 1 /\ \A i \in 1..3 : row.sector[i] >= 1
<1> DEFINE all == row.sector[1] + row.sector[2] + row.sector[3]
           Times == 120..1200
           fits == \A i \in 1..3 : row.sector[i] \in Times
           quick == row.time \in 450..2400
<1>1. /\ row.lap \in Int /\ row.time \in Int /\ row.sector \in [1..3 -> Int]
      /\ row.pitOut \in BOOLEAN
  BY DEF LapRow
<1>2. all \in Int
  BY <1>1
<1>3. \A x \in Times : x >= 1
  OBVIOUS
<1> HIDE DEF Times
<1>4. Range(row.sector) \subseteq Times <=> fits
  BY <1>1, ValuesWithin
<1>5. fits => \A i \in 1..3 : row.sector[i] >= 1
  BY <1>1, <1>3
<1>6. quick => row.time >= 1
  BY <1>1
<1> HIDE DEF fits, all
<1>7. Distance(all, row.time) <= 25 <=> all \in row.time - 25..row.time + 25
  BY <1>1, <1>2 DEF Distance
<1>8. row.lap >= 2 <=> row.lap > 1
  BY <1>1
<1>9. IsSample(row) <=> /\ row.lap >= 2 /\ ~row.pitOut /\ quick /\ fits
                        /\ Distance(all, row.time) <= 25
  BY DEF IsSample, fits, all, Times
<1>10. Raced(row) <=> /\ row.lap > 1 /\ ~row.pitOut /\ quick
                      /\ Range(row.sector) \subseteq Times
                      /\ all \in row.time - 25..row.time + 25
  BY Zenon DEF Raced, all, Times
<1> HIDE DEF quick
<1>11. IsSample(row) <=> Raced(row)
  BY <1>4, <1>7, <1>8, <1>9, <1>10, Zenon
<1>12. QED
  BY <1>1, <1>5, <1>6, <1>9, <1>11

LEMMA SamplesFit ==
    ASSUME NEW rows \in Seq(LapRow)
    PROVE  /\ Samples(rows) \subseteq 1..Len(rows) /\ IsFiniteSet(Samples(rows))
           /\ Samples(rows) = {n \in DOMAIN rows : Raced(rows[n])}
           /\ [n \in Samples(rows) |-> rows[n].time] \in [Samples(rows) -> Int]
           /\ \A n \in Samples(rows) : rows[n].time >= 1
           /\ \A i \in 1..3 :
                /\ [n \in Samples(rows) |-> rows[n].sector[i]] \in [Samples(rows) -> Int]
                /\ \A n \in Samples(rows) : rows[n].sector[i] >= 1
<1>1. Len(rows) \in Nat /\ DOMAIN rows = 1..Len(rows) /\ \A n \in DOMAIN rows : rows[n] \in LapRow
  OBVIOUS
<1>2. Samples(rows) \subseteq DOMAIN rows /\ \A n \in Samples(rows) : IsSample(rows[n])
  BY DEF Samples
<1>3. IsFiniteSet(Samples(rows))
  <2>1. IsFiniteSet(1..Len(rows))
    BY <1>1, FS_Interval
  <2>2. QED
    BY <1>1, <1>2, <2>1, FS_Subset
<1>4. \A n \in DOMAIN rows : IsSample(rows[n]) <=> Raced(rows[n])
  BY <1>1, RacedRow
<1>5. Samples(rows) = {n \in DOMAIN rows : Raced(rows[n])}
  BY <1>4, Zenon DEF Samples
<1>6. ASSUME NEW n \in Samples(rows)
      PROVE  /\ rows[n].time \in Int /\ rows[n].time >= 1
             /\ \A i \in 1..3 : rows[n].sector[i] \in Int /\ rows[n].sector[i] >= 1
  BY <1>1, <1>2, RacedRow
<1>7. QED
  BY <1>1, <1>2, <1>3, <1>5, <1>6

\* What the clamp does to a scale of target to simulated.
LEMMA ClampSound ==
    ASSUME NEW target \in Int, target > 0, NEW simulated \in Nat, simulated > 0
    PROVE  LET p == Clamped(target, simulated)[1]
               q == Clamped(target, simulated)[2]
           IN  /\ p \in Int /\ q \in Int /\ q > 0
               /\ 88 * q <= 100 * p /\ 100 * p <= 112 * q
               /\ Distance(p * simulated, q * target) <= q * Distance(simulated, target)
<1>1. CASE 100 * target < 88 * simulated
  <2>1. Clamped(target, simulated) = <<88, 100>>
    BY <1>1 DEF Clamped
  <2>2. Distance(88 * simulated, 100 * target) <= 100 * Distance(simulated, target)
    BY <1>1 DEF Distance
  <2>3. QED
    BY <2>1, <2>2
<1>2. CASE ~(100 * target < 88 * simulated) /\ 100 * target > 112 * simulated
  <2>1. Clamped(target, simulated) = <<112, 100>>
    BY <1>2 DEF Clamped
  <2>2. Distance(112 * simulated, 100 * target) <= 100 * Distance(simulated, target)
    BY <1>2 DEF Distance
  <2>3. QED
    BY <2>1, <2>2
<1>3. CASE ~(100 * target < 88 * simulated) /\ ~(100 * target > 112 * simulated)
  <2>1. Clamped(target, simulated) = <<target, simulated>>
    BY <1>3 DEF Clamped
  <2>2. Distance(target * simulated, simulated * target) = 0
    BY DEF Distance
  <2>3. Distance(simulated, target) \in Nat
    BY DEF Distance
  <2>4. simulated * Distance(simulated, target) >= 0
    BY <2>3
  <2>5. QED
    BY <1>3, <2>1, <2>2, <2>4
<1>4. QED
  BY <1>1, <1>2, <1>3

LEMMA ScaleSound ==
    ASSUME NEW rows \in Seq(LapRow), Samples(rows) # {}, NEW i \in 1..3
    PROVE  LET aggregates == Aggregate(rows)
               p == SectorScales(aggregates, SimMedians)[i][1]
               q == SectorScales(aggregates, SimMedians)[i][2]
               real == aggregates.sector[i].median
               simulated == SimMedians.sector[i]
           IN  /\ 88 * q <= 100 * p /\ 100 * p <= 112 * q
               /\ Distance(p * simulated, q * real) <= q * Distance(simulated, real)
<1> DEFINE aggregates == Aggregate(rows)
           scale == SectorScales(aggregates, SimMedians)[i]
           lap == aggregates.lap.median
           real == aggregates.sector[i].median
           simulated == SimMedians.sector[i]
<1>1. simulated \in Nat /\ SimMedians.lap \in Nat
  BY SoloRunAssumption
<1>2. lap \in Int /\ lap > 0
  <2> DEFINE value == [n \in Samples(rows) |-> rows[n].time]
  <2>1. aggregates.lap = Stats(value)
    BY DEF Aggregate
  <2>2. value \in [Samples(rows) -> Int] /\ \A n \in Samples(rows) : value[n] >= 1
    BY SamplesFit
  <2>3. IsFiniteSet(Samples(rows))
    BY SamplesFit
  <2> HIDE DEF value, aggregates
  <2>4. QED
    BY <2>1, <2>2, <2>3, MedianPositive
<1>3. real \in Int /\ real > 0
  <2> DEFINE value == [n \in Samples(rows) |-> rows[n].sector[i]]
  <2>1. aggregates.sector[i] = Stats(value)
    BY DEF Aggregate
  <2>2. value \in [Samples(rows) -> Int] /\ \A n \in Samples(rows) : value[n] >= 1
    BY SamplesFit
  <2>3. IsFiniteSet(Samples(rows))
    BY SamplesFit
  <2> HIDE DEF value, aggregates
  <2>4. QED
    BY <2>1, <2>2, <2>3, MedianPositive
<1>4. scale = IF SimMedians.lap <= 0 \/ lap <= 0 THEN Unscaled
              ELSE IF simulated > 0 /\ real > 0 THEN Clamped(real, simulated)
              ELSE Clamped(lap, SimMedians.lap)
  BY DEF SectorScales
<1> HIDE DEF aggregates, scale, lap, real, simulated
<1>5. CASE SimMedians.lap <= 0 \/ lap <= 0
  <2>1. scale = <<1, 1>>
    BY <1>4, <1>5 DEF Unscaled
  <2>2. 1 * simulated = simulated /\ 1 * real = real
    BY <1>1, <1>3
  <2>3. Distance(simulated, real) \in Int
    BY <1>1, <1>3 DEF Distance
  <2>4. QED
    BY <2>1, <2>2, <2>3 DEF scale, real, simulated, aggregates
<1>6. CASE ~(SimMedians.lap <= 0 \/ lap <= 0) /\ simulated > 0
  <2>1. scale = Clamped(real, simulated)
    BY <1>3, <1>4, <1>6
  <2>2. QED
    BY <1>1, <1>3, <1>6, <2>1, ClampSound DEF scale, real, simulated, aggregates
<1>7. CASE ~(SimMedians.lap <= 0 \/ lap <= 0) /\ ~(simulated > 0)
  <2>1. scale = Clamped(lap, SimMedians.lap) /\ simulated = 0
    BY <1>1, <1>4, <1>7
  <2>2. /\ scale[1] \in Int /\ scale[2] \in Int /\ scale[2] > 0
        /\ 88 * scale[2] <= 100 * scale[1] /\ 100 * scale[1] <= 112 * scale[2]
    BY <1>1, <1>2, <1>7, <2>1, ClampSound
  <2>3. Distance(simulated, real) = real
    BY <1>3, <2>1 DEF Distance
  <2>4. Distance(scale[1] * simulated, scale[2] * real) = scale[2] * real
    <3>1. scale[1] * simulated = 0
      BY <2>1, <2>2
    <3>2. scale[2] * real \in Int /\ scale[2] * real > 0
      BY <1>3, <2>2
    <3>3. QED
      BY <3>1, <3>2 DEF Distance
  <2>5. scale[2] * real <= scale[2] * real
    BY <1>3, <2>2
  <2>6. QED
    BY <2>2, <2>3, <2>4, <2>5 DEF scale, real, simulated, aggregates
<1>8. QED
  BY <1>5, <1>6, <1>7

-----------------------------------------------------------------------------
(* The stored calibration                                                  *)

\* What the row of track_lap_baselines holds when it was made from table.
MadeFrom(table) == [aggregates |-> Aggregate(table),
                    scales |-> SectorScales(Aggregate(table), SimMedians)]

Usable(table) == table \in LapTables /\ Samples(table) # {}

\* A refresh that is to store has a table with samples, and so had whichever stored.
BaselineInv ==
    /\ DOMAIN fetched = Refresh
    /\ \A f \in Refresh : pc[f] = "upsert" => Usable(fetched[f])
    /\ baseline # None => \E table \in LapTables : Usable(table) /\ baseline = MadeFrom(table)

LEMMA BaselineInit == Init => BaselineInv
BY DEF Init, BaselineInv

\* The steps of a refresh, and those of anything else.
RefreshesRest ==
    /\ UNCHANGED <<baseline, fetched>>
    /\ \A f \in Refresh : pc'[f] = pc[f] \/ pc'[f] = "done"

LEMMA RunsRestRefreshes ==
    ASSUME TypeInv, NEW r \in Run, NEW step, pc' = [pc EXCEPT ![r] = step]
    PROVE  \A f \in Refresh : pc'[f] = pc[f]
BY NoneIsNothing DEF TypeInv, CallsTyped

LEMMA OthersRestRefreshes ==
    ASSUME TypeInv, [Next]_vars, \A f \in Refresh : ~FetchLaps(f) /\ ~Upsert(f)
    PROVE  RefreshesRest
<1>1. ASSUME NEW s \in Session, Create(s) \/ Patch(s) \/ SubmitSetup(s) \/ PostScore(s)
      PROVE  RefreshesRest
  BY <1>1 DEF Create, Patch, SubmitSetup, PostScore, calls, RefreshesRest
<1>2. ASSUME NEW r \in Run, NEW s \in Session, Begin(r, s)
      PROVE  RefreshesRest
  <2>1. pc' = [pc EXCEPT ![r] = "simulate"] /\ UNCHANGED <<baseline, fetched>>
    BY <1>2 DEF Begin, Goto
  <2>2. QED
    BY <2>1, RunsRestRefreshes DEF RefreshesRest
<1>3. ASSUME NEW r \in Run, \/ Simulate(r) \/ FindSnapshot(r) \/ PutSnapshot(r)
                            \/ StoreRun(r) \/ StoreResult(r) \/ SubmitScore(r)
      PROVE  RefreshesRest
  <2>1. PICK step : pc' = [pc EXCEPT ![r] = step]
    BY <1>3 DEF Simulate, FindSnapshot, PutSnapshot, StoreRun, StoreResult, SubmitScore, Goto
  <2>2. UNCHANGED <<baseline, fetched>>
    BY <1>3 DEF Simulate, FindSnapshot, PutSnapshot, StoreRun, StoreResult, SubmitScore
  <2>3. QED
    BY <2>1, <2>2, RunsRestRefreshes DEF RefreshesRest
<1>4. ASSUME NEW c \in Run \cup Refresh, Fail(c)
      PROVE  RefreshesRest
  BY <1>4 DEF Fail, Goto, RefreshesRest, TypeInv, CallsTyped
<1>5. CASE UNCHANGED vars
  BY <1>5 DEF vars, RefreshesRest
<1>6. QED
  BY <1>1, <1>2, <1>3, <1>4, <1>5 DEF Next

LEMMA BaselineNext == TypeInv /\ BaselineInv /\ [Next]_vars => BaselineInv'
<1> SUFFICES ASSUME TypeInv, BaselineInv, [Next]_vars
             PROVE  BaselineInv'
  OBVIOUS
<1>1. pc \in [Run \cup Refresh -> Step]
  BY DEF TypeInv, CallsTyped
<1>2. ASSUME NEW f \in Refresh, FetchLaps(f)
      PROVE  BaselineInv'
  <2>1. PICK table \in LapTables :
            /\ fetched' = [fetched EXCEPT ![f] = table]
            /\ Goto(f, IF Samples(table) = {} THEN "done" ELSE "upsert")
    BY <1>2 DEF FetchLaps
  <2>2. baseline' = baseline
    BY <1>2 DEF FetchLaps
  <2>3. DOMAIN fetched' = Refresh /\ fetched'[f] = table
        /\ \A g \in Refresh : g # f => fetched'[g] = fetched[g] /\ pc'[g] = pc[g]
    BY <1>1, <2>1 DEF BaselineInv, Goto
  <2>4. pc'[f] = "upsert" => Samples(table) # {}
    BY <1>1, <2>1 DEF Goto
  <2>5. \A g \in Refresh : pc'[g] = "upsert" => Usable(fetched'[g])
    BY <2>1, <2>3, <2>4 DEF BaselineInv, Usable
  <2>6. QED
    BY <2>2, <2>3, <2>5 DEF BaselineInv
<1>3. ASSUME NEW f \in Refresh, Upsert(f)
      PROVE  BaselineInv'
  <2>1. /\ pc[f] = "upsert" /\ baseline' = MadeFrom(fetched[f]) /\ fetched' = fetched
        /\ pc' = [pc EXCEPT ![f] = "done"]
    BY <1>3 DEF Upsert, MadeFrom, Goto
  <2>2. Usable(fetched[f])
    BY <2>1 DEF BaselineInv
  <2>3. \A g \in Refresh : pc'[g] = "upsert" => pc[g] = "upsert"
    BY <1>1, <2>1
  <2>4. QED
    BY <2>1, <2>2, <2>3 DEF BaselineInv, Usable
<1>4. CASE \A f \in Refresh : ~FetchLaps(f) /\ ~Upsert(f)
  <2>1. RefreshesRest
    BY <1>4, OthersRestRefreshes
  <2>2. QED
    BY <2>1 DEF RefreshesRest, BaselineInv
<1>5. QED
  BY <1>2, <1>3, <1>4

\* Quartiles that describe the values, and scales that are sound, whatever the table.
LEMMA MadeSound ==
    ASSUME NEW table \in LapTables, Samples(table) # {}, baseline = MadeFrom(table)
    PROVE  BaselineSound
<1> DEFINE aggregates == Aggregate(table)
           raced == {n \in DOMAIN table : Raced(table[n])}
<1>1. table \in Seq(LapRow)
  BY SoloRunAssumption
<1>2. /\ baseline.aggregates = aggregates
      /\ baseline.scales = SectorScales(aggregates, SimMedians)
  BY DEF MadeFrom
<1>3. /\ raced = Samples(table) /\ IsFiniteSet(raced) /\ raced # {} /\ raced \subseteq 1..Len(table)
      /\ [n \in raced |-> table[n].time] \in [raced -> Int]
      /\ \A i \in 1..3 : [n \in raced |-> table[n].sector[i]] \in [raced -> Int]
  <2> HIDE DEF raced
  <2>1. raced = Samples(table)
    BY <1>1, SamplesFit DEF raced
  <2>2. QED
    BY <1>1, <2>1, SamplesFit
<1>4. /\ aggregates.lap = Stats([n \in raced |-> table[n].time])
      /\ \A i \in 1..3 : aggregates.sector[i] = Stats([n \in raced |-> table[n].sector[i]])
      /\ aggregates.excluded = Len(table) - Cardinality(raced)
  <2>1. raced = Samples(table)
    BY <1>3
  <2> HIDE DEF raced
  <2>2. QED
    BY <2>1 DEF Aggregate
<1> HIDE DEF raced, aggregates
<1>5. aggregates.lap.count + aggregates.excluded = Len(table)
  <2>1. aggregates.lap.count = Cardinality(raced)
    BY <1>4 DEF Stats
  <2>2. Cardinality(raced) \in Nat /\ Len(table) \in Nat
    BY <1>1, <1>3, FS_CardinalityType
  <2>3. QED
    BY <1>4, <2>1, <2>2
<1>6. Describes(aggregates.lap, [n \in raced |-> table[n].time])
  <2> DEFINE value == [n \in raced |-> table[n].time]
  <2>1. /\ value \in [raced -> Int] /\ IsFiniteSet(raced) /\ raced # {}
        /\ aggregates.lap = Stats(value)
    BY <1>3, <1>4
  <2> HIDE DEF value
  <2>2. Describes(aggregates.lap, value)
    BY <2>1, StatsDescribe
  <2>3. QED
    BY <2>2 DEF value
<1>7. \A i \in 1..3 : Describes(aggregates.sector[i], [n \in raced |-> table[n].sector[i]])
  <2> TAKE i \in 1..3
  <2> DEFINE value == [n \in raced |-> table[n].sector[i]]
  <2>1. value \in [raced -> Int] /\ IsFiniteSet(raced) /\ raced # {}
        /\ aggregates.sector[i] = Stats(value)
    BY <1>3, <1>4
  <2> HIDE DEF value
  <2>2. Describes(aggregates.sector[i], value)
    BY <2>1, StatsDescribe
  <2>3. QED
    BY <2>2 DEF value
<1>8. \A i \in 1..3 :
        LET p == baseline.scales[i][1]
            q == baseline.scales[i][2]
            real == aggregates.sector[i].median
            simulated == SimMedians.sector[i]
        IN  /\ 88 * q <= 100 * p /\ 100 * p <= 112 * q
            /\ Distance(p * simulated, q * real) <= q * Distance(simulated, real)
  BY <1>1, <1>2, ScaleSound DEF aggregates
<1>9. QED
  <2>1. \E t \in LapTables :
            LET run == {n \in DOMAIN t : Raced(t[n])} IN
            /\ aggregates.lap.count + aggregates.excluded = Len(t)
            /\ Describes(aggregates.lap, [n \in run |-> t[n].time])
            /\ \A i \in 1..3 : Describes(aggregates.sector[i], [n \in run |-> t[n].sector[i]])
    BY <1>5, <1>6, <1>7 DEF raced
  <2>2. QED
    BY <1>2, <1>8, <2>1, Zenon DEF BaselineSound

\* Whatever OpenF1 answers and however refreshes overlap, the stored row describes the
\* racing laps of one answer, and its scales neither explode lap times nor overshoot.
THEOREM BaselineStands == Spec => []BaselineSound
<1>1. BaselineInv => BaselineSound
  <2>1. CASE baseline = None
    BY <2>1 DEF BaselineSound
  <2>2. CASE baseline # None
    BY <2>2, MadeSound DEF BaselineInv, Usable
  <2>3. QED
    BY <2>1, <2>2
<1>2. QED
  BY <1>1, TypeInit, TypeNext, BaselineInit, BaselineNext, PTL DEF Spec

-----------------------------------------------------------------------------
(* The folds of the references                                             *)

\* t[n]: what Distinct has of the first n of s.
LEMMA DistinctSteps ==
    ASSUME NEW X, NEW s \in Seq(X)
    PROVE  \E t : /\ t[0] = <<>> /\ t[Len(s)] = Distinct(s)
                 /\ \A n \in 1..Len(s) :
                        t[n] = IF s[n] \in ToSet(t[n - 1]) THEN t[n - 1]
                               ELSE Append(t[n - 1], s[n])
<1> DEFINE N == Len(s)
           A == Seq(X)
           Go(u, n) == IF s[n] \in ToSet(u) THEN u ELSE Append(u, s[n])
           step == [p \in A \X (1..N) |-> Go(p[1], p[2])]
           Is(g) == g = [S \in SUBSET DOMAIN s |->
                            IF S = {} THEN <<>> ELSE Go(g[S \ {Max(S)}], Max(S))]
           iter == CHOOSE g : Is(g)
<1>1. N \in Nat /\ DOMAIN s = 1..N /\ \A n \in 1..N : s[n] \in X
  OBVIOUS
<1>2. Distinct(s) = iter[DOMAIN s]
  BY DEF Distinct, FoldLeft, MapThenFoldSet
<1> HIDE DEF N
<1>3. step \in [A \X (1..N) -> A]
  BY <1>1
<1>4. PICK g \in [SUBSET (1..N) -> A] : Steps(<<>>, step, N, g)
  <2>1. <<>> \in A
    OBVIOUS
  <2> HIDE DEF A, step
  <2>2. QED
    BY <1>1, <1>3, <2>1, StepsExist
<1>5. Is(g)
  <2>1. ASSUME NEW S \in SUBSET (1..N), S # {}
        PROVE  step[<<g[S \ {Max(S)}], Max(S)>>] = Go(g[S \ {Max(S)}], Max(S))
    <3>1. Max(S) \in 1..N
      BY <1>1, <2>1, TopIn
    <3>2. g[S \ {Max(S)}] \in A
      BY <1>4
    <3>3. QED
      BY <3>1, <3>2
  <2> HIDE DEF step, Go
  <2>2. g = [S \in SUBSET (1..N) |->
                IF S = {} THEN <<>> ELSE Go(g[S \ {Max(S)}], Max(S))]
    BY <1>4, <2>1 DEF Steps
  <2>3. QED
    BY <1>1, <2>2
<1>6. Is(iter)
  <2> HIDE DEF Is
  <2>1. QED
    BY <1>5
<1> DEFINE t == [n \in 0..N |-> iter[1..n]]
<1> HIDE DEF iter, Go
<1>7. t[0] = <<>>
  <2>1. 1..0 = {}
    OBVIOUS
  <2>2. QED
    BY <1>1, <1>6, <2>1
<1>8. ASSUME NEW n \in 1..N
      PROVE  t[n] = Go(t[n - 1], n)
  <2>1. /\ 1..n \in SUBSET (1..N) /\ 1..n # {} /\ Max(1..n) = n
        /\ (1..n) \ {Max(1..n)} = 1..n - 1
    BY <1>1, Initials
  <2>2. iter[1..n] = Go(iter[1..n - 1], n)
    BY <1>1, <1>6, <2>1
  <2>3. QED
    BY <1>1, <2>2
<1>9. t[N] = Distinct(s)
  BY <1>1, <1>2
<1>10. QED
  BY <1>7, <1>8, <1>9 DEF N, Go
\* t[n]: what Kept has of the first n of s.
LEMMA KeptSteps ==
    ASSUME NEW X, NEW s \in Seq(X), NEW good
    PROVE  \E t : /\ t[0] = <<>> /\ t[Len(s)] = Kept(s, good)
                 /\ \A n \in 1..Len(s) :
                        t[n] = IF s[n] \in good THEN Append(t[n - 1], s[n]) ELSE t[n - 1]
<1> DEFINE N == Len(s)
           A == Seq(X)
           Go(u, n) == IF s[n] \in good THEN Append(u, s[n]) ELSE u
           step == [p \in A \X (1..N) |-> Go(p[1], p[2])]
           Is(g) == g = [S \in SUBSET DOMAIN s |->
                            IF S = {} THEN <<>> ELSE Go(g[S \ {Max(S)}], Max(S))]
           iter == CHOOSE g : Is(g)
<1>1. N \in Nat /\ DOMAIN s = 1..N /\ \A n \in 1..N : s[n] \in X
  OBVIOUS
<1>2. Kept(s, good) = iter[DOMAIN s]
  BY DEF Kept, FoldLeft, MapThenFoldSet
<1> HIDE DEF N
<1>3. step \in [A \X (1..N) -> A]
  BY <1>1
<1>4. PICK g \in [SUBSET (1..N) -> A] : Steps(<<>>, step, N, g)
  <2>1. <<>> \in A
    OBVIOUS
  <2> HIDE DEF A, step
  <2>2. QED
    BY <1>1, <1>3, <2>1, StepsExist
<1>5. Is(g)
  <2>1. ASSUME NEW S \in SUBSET (1..N), S # {}
        PROVE  step[<<g[S \ {Max(S)}], Max(S)>>] = Go(g[S \ {Max(S)}], Max(S))
    <3>1. Max(S) \in 1..N
      BY <1>1, <2>1, TopIn
    <3>2. g[S \ {Max(S)}] \in A
      BY <1>4
    <3>3. QED
      BY <3>1, <3>2
  <2> HIDE DEF step, Go
  <2>2. g = [S \in SUBSET (1..N) |->
                IF S = {} THEN <<>> ELSE Go(g[S \ {Max(S)}], Max(S))]
    BY <1>4, <2>1 DEF Steps
  <2>3. QED
    BY <1>1, <2>2
<1>6. Is(iter)
  <2> HIDE DEF Is
  <2>1. QED
    BY <1>5
<1> DEFINE t == [n \in 0..N |-> iter[1..n]]
<1> HIDE DEF iter, Go
<1>7. t[0] = <<>>
  <2>1. 1..0 = {}
    OBVIOUS
  <2>2. QED
    BY <1>1, <1>6, <2>1
<1>8. ASSUME NEW n \in 1..N
      PROVE  t[n] = Go(t[n - 1], n)
  <2>1. /\ 1..n \in SUBSET (1..N) /\ 1..n # {} /\ Max(1..n) = n
        /\ (1..n) \ {Max(1..n)} = 1..n - 1
    BY <1>1, Initials
  <2>2. iter[1..n] = Go(iter[1..n - 1], n)
    BY <1>1, <1>6, <2>1
  <2>3. QED
    BY <1>1, <2>2
<1>9. t[N] = Kept(s, good)
  BY <1>1, <1>2
<1>10. QED
  BY <1>7, <1>8, <1>9 DEF N, Go
\* t[n]: the row that Closest prefers of the first n.
LEMMA ClosestSteps ==
    ASSUME NEW X, NEW s \in Seq(X), s # <<>>
    PROVE  \E t : /\ t[0] = Head(s) /\ t[Len(s)].id = Closest(s)
                 /\ \A n \in 1..Len(s) :
                        t[n] = IF Abs(s[n].delta) < Abs(t[n - 1].delta) THEN s[n]
                               ELSE t[n - 1]
<1> DEFINE N == Len(s)
           A == X
           Go(u, n) == IF Abs(s[n].delta) < Abs(u.delta) THEN s[n] ELSE u
           step == [p \in A \X (1..N) |-> Go(p[1], p[2])]
           Is(g) == g = [S \in SUBSET DOMAIN s |->
                            IF S = {} THEN Head(s) ELSE Go(g[S \ {Max(S)}], Max(S))]
           iter == CHOOSE g : Is(g)
<1>1. N \in Nat /\ DOMAIN s = 1..N /\ \A n \in 1..N : s[n] \in X
  OBVIOUS
<1>2. Closest(s) = iter[DOMAIN s].id
  BY DEF Closest, FoldLeft, MapThenFoldSet
<1> HIDE DEF N
<1>3. step \in [A \X (1..N) -> A]
  BY <1>1
<1>4. PICK g \in [SUBSET (1..N) -> A] : Steps(Head(s), step, N, g)
  <2>1. Head(s) \in A
    OBVIOUS
  <2> HIDE DEF A, step
  <2>2. QED
    BY <1>1, <1>3, <2>1, StepsExist
<1>5. Is(g)
  <2>1. ASSUME NEW S \in SUBSET (1..N), S # {}
        PROVE  step[<<g[S \ {Max(S)}], Max(S)>>] = Go(g[S \ {Max(S)}], Max(S))
    <3>1. Max(S) \in 1..N
      BY <1>1, <2>1, TopIn
    <3>2. g[S \ {Max(S)}] \in A
      BY <1>4
    <3>3. QED
      BY <3>1, <3>2
  <2> HIDE DEF step, Go
  <2>2. g = [S \in SUBSET (1..N) |->
                IF S = {} THEN Head(s) ELSE Go(g[S \ {Max(S)}], Max(S))]
    BY <1>4, <2>1 DEF Steps
  <2>3. QED
    BY <1>1, <2>2
<1>6. Is(iter)
  <2> HIDE DEF Is
  <2>1. QED
    BY <1>5
<1> DEFINE t == [n \in 0..N |-> iter[1..n]]
<1> HIDE DEF iter, Go
<1>7. t[0] = Head(s)
  <2>1. 1..0 = {}
    OBVIOUS
  <2>2. QED
    BY <1>1, <1>6, <2>1
<1>8. ASSUME NEW n \in 1..N
      PROVE  t[n] = Go(t[n - 1], n)
  <2>1. /\ 1..n \in SUBSET (1..N) /\ 1..n # {} /\ Max(1..n) = n
        /\ (1..n) \ {Max(1..n)} = 1..n - 1
    BY <1>1, Initials
  <2>2. iter[1..n] = Go(iter[1..n - 1], n)
    BY <1>1, <1>6, <2>1
  <2>3. QED
    BY <1>1, <2>2
<1>9. t[N].id = Closest(s)
  BY <1>1, <1>2
<1>10. QED
  BY <1>7, <1>8, <1>9 DEF N, Go

\* No element comes twice.
OneEach(s) == \A i, j \in 1..Len(s) : s[i] = s[j] => i = j

LEMMA OneMore ==
    ASSUME NEW X, NEW s \in Seq(X), NEW x \in X, x \notin ToSet(s), OneEach(s)
    PROVE  OneEach(Append(s, x))
<1>1. Len(s) \in Nat /\ DOMAIN s = 1..Len(s)
  OBVIOUS
<1>2. /\ Len(Append(s, x)) = Len(s) + 1 /\ Append(s, x)[Len(s) + 1] = x
      /\ \A i \in 1..Len(s) : Append(s, x)[i] = s[i]
  OBVIOUS
<1>3. \A i \in 1..Len(s) : s[i] # x
  BY <1>1 DEF ToSet
<1>4. QED
  BY <1>1, <1>2, <1>3 DEF OneEach

LEMMA DistinctIs ==
    ASSUME NEW X, NEW s \in Seq(X)
    PROVE  /\ Distinct(s) \in Seq(X) /\ ToSet(Distinct(s)) = ToSet(s)
           /\ OneEach(Distinct(s))
<1> DEFINE N == Len(s)
<1>1. N \in Nat /\ ToSet(s) = {s[i] : i \in 1..N} /\ \A n \in 1..N : s[n] \in X
  BY DEF ToSet
<1>2. PICK t : /\ t[0] = <<>> /\ t[N] = Distinct(s)
               /\ \A n \in 1..N : t[n] = IF s[n] \in ToSet(t[n - 1]) THEN t[n - 1]
                                         ELSE Append(t[n - 1], s[n])
  BY DistinctSteps
<1> DEFINE Good(n) == t[n] \in Seq(X) /\ ToSet(t[n]) = {s[i] : i \in 1..n} /\ OneEach(t[n])
           T == {n \in 0..N : Good(n)}
<1> HIDE DEF N
<1>3. Good(0)
  <2>1. t[0] \in Seq(X) /\ Len(t[0]) = 0
    BY <1>2
  <2>2. {s[i] : i \in 1..0} = {}
    OBVIOUS
  <2>3. ToSet(t[0]) = {}
    BY <1>2, NoMembers
  <2>4. OneEach(t[0])
    BY <2>1 DEF OneEach
  <2>5. QED
    BY <2>1, <2>2, <2>3, <2>4
<1>4. ASSUME NEW n \in 1..N, Good(n - 1)
      PROVE  Good(n)
  <2>1. {s[i] : i \in 1..n} = {s[i] : i \in 1..n - 1} \cup {s[n]}
    <3>1. \A i : i \in 1..n <=> i \in 1..n - 1 \/ i = n
      BY <1>1
    <3>2. QED
      BY <3>1
  <2>2. CASE s[n] \in ToSet(t[n - 1])
    BY <1>2, <1>4, <2>1, <2>2
  <2>3. CASE s[n] \notin ToSet(t[n - 1])
    <3>1. t[n] = Append(t[n - 1], s[n]) /\ s[n] \in X
      BY <1>1, <1>2, <2>3
    <3>2. t[n] \in Seq(X) /\ ToSet(t[n]) = ToSet(t[n - 1]) \cup {s[n]}
      BY <1>4, <3>1, Appended
    <3>3. OneEach(t[n])
      BY <1>4, <2>3, <3>1, OneMore
    <3>4. QED
      BY <1>4, <2>1, <3>2, <3>3
  <2>4. QED
    BY <2>2, <2>3
<1>5. Good(N)
  <2> HIDE DEF Good
  <2>1. \A n \in 1..N : n - 1 \in T => n \in T
    BY <1>1, <1>4
  <2>2. 0 \in T
    BY <1>1, <1>3
  <2> HIDE DEF T
  <2>3. N \in Nat
    BY <1>1
  <2> HIDE DEF N
  <2>4. \A n \in 0..N : n \in T
    BY <2>1, <2>2, <2>3, UpwardSet
  <2>5. N \in 0..N
    BY <2>3
  <2>6. QED
    BY <2>4, <2>5 DEF T
<1>6. QED
  BY <1>1, <1>2, <1>5

LEMMA KeptIs ==
    ASSUME NEW X, NEW s \in Seq(X), NEW good
    PROVE  /\ Kept(s, good) \in Seq(X) /\ ToSet(Kept(s, good)) = ToSet(s) \cap good
           /\ OneEach(s) => OneEach(Kept(s, good))
<1> DEFINE N == Len(s)
           First(n) == {s[i] : i \in 1..n} \cap good
<1>1. N \in Nat /\ ToSet(s) = {s[i] : i \in 1..N} /\ \A n \in 1..N : s[n] \in X
  BY DEF ToSet
<1>2. PICK t : /\ t[0] = <<>> /\ t[N] = Kept(s, good)
               /\ \A n \in 1..N : t[n] = IF s[n] \in good THEN Append(t[n - 1], s[n])
                                         ELSE t[n - 1]
  BY KeptSteps
<1> DEFINE Good(n) == /\ t[n] \in Seq(X) /\ ToSet(t[n]) = First(n)
                      /\ OneEach(s) => OneEach(t[n])
           T == {n \in 0..N : Good(n)}
<1>3. Good(0)
  <2>1. t[0] \in Seq(X) /\ Len(t[0]) = 0
    BY <1>2
  <2>2. First(0) = {}
    OBVIOUS
  <2>3. ToSet(t[0]) = {}
    BY <1>2, NoMembers
  <2>4. OneEach(t[0])
    BY <2>1 DEF OneEach
  <2> HIDE DEF First
  <2>5. QED
    BY <2>1, <2>2, <2>3, <2>4
<1>4. ASSUME NEW n \in 1..N, Good(n - 1)
      PROVE  Good(n)
  <2>1. First(n) = IF s[n] \in good THEN First(n - 1) \cup {s[n]} ELSE First(n - 1)
    <3>1. \A i : i \in 1..n <=> i \in 1..n - 1 \/ i = n
      BY <1>1
    <3>2. QED
      BY <3>1
  <2>2. OneEach(s) => s[n] \notin First(n - 1)
    <3>1. n \in 1..Len(s) /\ \A i \in 1..n - 1 : i \in 1..Len(s) /\ i # n
      BY <1>1
    <3>2. QED
      BY <3>1 DEF OneEach
  <2> HIDE DEF First, N
  <2>3. CASE s[n] \notin good
    BY <1>2, <1>4, <2>1, <2>3
  <2>4. CASE s[n] \in good
    <3>1. t[n] = Append(t[n - 1], s[n]) /\ s[n] \in X
      BY <1>1, <1>2, <2>4
    <3>2. t[n] \in Seq(X) /\ ToSet(t[n]) = ToSet(t[n - 1]) \cup {s[n]}
      BY <1>4, <3>1, Appended
    <3>3. OneEach(s) => OneEach(t[n])
      BY <1>4, <2>2, <3>1, OneMore
    <3>4. QED
      BY <1>4, <2>1, <2>4, <3>2, <3>3
  <2>5. QED
    BY <2>3, <2>4
<1>5. Good(N)
  <2> HIDE DEF Good
  <2>1. \A n \in 1..N : n - 1 \in T => n \in T
    BY <1>1, <1>4
  <2>2. 0 \in T
    BY <1>1, <1>3
  <2> HIDE DEF T
  <2>3. N \in Nat
    BY <1>1
  <2> HIDE DEF N
  <2>4. \A n \in 0..N : n \in T
    BY <2>1, <2>2, <2>3, UpwardSet
  <2>5. N \in 0..N
    BY <2>3
  <2>6. QED
    BY <2>4, <2>5 DEF T
<1>6. QED
  BY <1>1, <1>2, <1>5

LEMMA AbsNat == \A x \in Int : Abs(x) \in Nat
BY DEF Abs

LEMMA ClosestIs ==
    ASSUME NEW X, NEW s \in Seq(X), s # <<>>, \A x \in X : x.delta \in Int
    PROVE  \E row \in ToSet(s) : /\ row.id = Closest(s)
                                 /\ \A other \in ToSet(s) : Abs(row.delta) <= Abs(other.delta)
<1> DEFINE N == Len(s)
<1>1. /\ N \in Nat /\ N >= 1 /\ Head(s) = s[1]
      /\ ToSet(s) = {s[i] : i \in 1..N} /\ \A n \in 1..N : s[n] \in X
  BY DEF ToSet
<1>2. PICK t : /\ t[0] = Head(s) /\ t[N].id = Closest(s)
               /\ \A n \in 1..N : t[n] = IF Abs(s[n].delta) < Abs(t[n - 1].delta) THEN s[n]
                                         ELSE t[n - 1]
  BY ClosestSteps
<1> DEFINE Good(n) == /\ t[n] \in ToSet(s)
                      /\ \A i \in 1..n : Abs(t[n].delta) <= Abs(s[i].delta)
           T == {n \in 0..N : Good(n)}
<1> HIDE DEF N
<1>3. Good(0)
  BY <1>1, <1>2
<1>4. ASSUME NEW n \in 1..N, Good(n - 1)
      PROVE  Good(n)
  <2>1. \A i \in 1..N : Abs(s[i].delta) \in Nat
    BY <1>1, AbsNat
  <2>2. Abs(t[n - 1].delta) \in Nat
    BY <1>1, <1>4, <2>1
  <2>3. \A i \in 1..n : i \in 1..N /\ (i \in 1..n - 1 \/ i = n)
    BY <1>1
  <2>4. CASE Abs(s[n].delta) < Abs(t[n - 1].delta)
    <3>1. t[n] = s[n]
      BY <1>2, <2>4
    <3>2. \A i \in 1..n - 1 : Abs(s[n].delta) <= Abs(s[i].delta)
      BY <1>4, <2>1, <2>2, <2>4, <2>3
    <3>3. s[n] \in ToSet(s)
      BY <1>1
    <3>4. QED
      BY <2>1, <2>3, <3>1, <3>2, <3>3
  <2>5. CASE ~(Abs(s[n].delta) < Abs(t[n - 1].delta))
    <3>1. t[n] = t[n - 1] /\ Abs(t[n - 1].delta) <= Abs(s[n].delta)
      BY <1>2, <2>1, <2>2, <2>5
    <3>2. QED
      BY <1>4, <2>3, <3>1
  <2>6. QED
    BY <2>4, <2>5
<1>5. Good(N)
  <2> HIDE DEF Good
  <2>1. \A n \in 1..N : n - 1 \in T => n \in T
    BY <1>1, <1>4
  <2>2. 0 \in T
    BY <1>1, <1>3
  <2> HIDE DEF T
  <2>3. N \in Nat
    BY <1>1
  <2> HIDE DEF N
  <2>4. \A n \in 0..N : n \in T
    BY <2>1, <2>2, <2>3, UpwardSet
  <2>5. N \in 0..N
    BY <2>3
  <2>6. QED
    BY <2>4, <2>5 DEF T
<1>6. QED
  BY <1>1, <1>2, <1>5

-----------------------------------------------------------------------------
(* What a run is compared with                                             *)

LEMMA ReferenceRows ==
    ASSUME NEW track \in DOMAIN References
    PROVE  \E quali \in Nat, race \in Nat : ReferencesOf(track) = Pair(quali, race)
<1> USE DEF References, ReferencesOf
<1>1. DOMAIN References = {"monaco", "monza", "silverstone", "spa", "suzuka", "interlagos",
                           "bahrain", "singapore"}
  OBVIOUS
<1>2. CASE track = "monaco"
  BY <1>2
<1>3. CASE track = "monza"
  BY <1>3
<1>4. CASE track = "silverstone"
  BY <1>4
<1>5. CASE track = "spa"
  BY <1>5
<1>6. CASE track = "suzuka"
  BY <1>6
<1>7. CASE track = "interlagos"
  BY <1>7
<1>8. CASE track = "bahrain"
  BY <1>8
<1>9. CASE track = "singapore"
  BY <1>9
<1>10. QED
  BY <1>1, <1>2, <1>3, <1>4, <1>5, <1>6, <1>7, <1>8, <1>9

\* The ids of all references.
RefIdSet == {"quali_push", "race_manage"}

LEMMA ReferencesKnown ==
    ASSUME NEW track \in DOMAIN References
    PROVE  /\ ReferenceIds(track) \in Seq(RefIdSet)
           /\ \A id \in ToSet(ReferenceIds(track)) :
                (CHOOSE f \in ToSet(ReferencesOf(track)) : f.id = id).total \in Nat
<1>1. PICK quali \in Nat, race \in Nat : ReferencesOf(track) = Pair(quali, race)
  BY ReferenceRows
<1> DEFINE rows == ReferencesOf(track)
<1>2. /\ rows = <<Ref("quali_push", quali), Ref("race_manage", race)>>
      /\ Len(rows) = 2 /\ DOMAIN rows = 1..2
  BY <1>1 DEF Pair
<1>3. ToSet(rows) = {Ref("quali_push", quali), Ref("race_manage", race)}
  BY <1>2 DEF ToSet
<1>4. \A f \in ToSet(rows) : f.total \in Nat /\ f.id \in RefIdSet
  <2>1. \A id, total : Ref(id, total).id = id /\ Ref(id, total).total = total
    BY DEF Ref
  <2>2. "quali_push" \in RefIdSet /\ "race_manage" \in RefIdSet
    BY DEF RefIdSet
  <2>3. QED
    BY <1>1, <1>3, <2>1, <2>2
<1> HIDE DEF rows
<1>5. ReferenceIds(track) = [n \in 1..2 |-> rows[n].id]
  BY <1>2 DEF ReferenceIds, rows
<1>6. \A n \in 1..2 : rows[n] \in ToSet(rows)
  BY <1>2 DEF ToSet
<1>7. ReferenceIds(track) \in Seq(RefIdSet)
  <2> DEFINE two == 2
  <2>1. ReferenceIds(track) \in [1..two -> RefIdSet] /\ two \in Nat
    BY <1>4, <1>5, <1>6
  <2> HIDE DEF two
  <2>2. QED
    BY <2>1
<1>8. ASSUME NEW id \in ToSet(ReferenceIds(track))
      PROVE  \E f \in ToSet(rows) : f.id = id
  <2>1. PICK n \in 1..2 : id = rows[n].id
    BY <1>5 DEF ToSet
  <2>2. QED
    BY <1>6, <2>1
<1>9. QED
  BY <1>4, <1>7, <1>8 DEF rows

\* A sequence in which nothing comes twice has as many elements as places.
LEMMA AsManyAs ==
    ASSUME NEW X, NEW s \in Seq(X), OneEach(s)
    PROVE  Cardinality(ToSet(s)) = Len(s)
<1> DEFINE N == Len(s)
           f == [n \in 1..N |-> s[n]]
<1>1. N \in Nat /\ ToSet(s) = {s[n] : n \in 1..N}
  BY DEF ToSet
<1>2. ExistsBijection(1..N, ToSet(s))
  <2>1. f \in Bijection(1..N, ToSet(s))
    BY <1>1 DEF OneEach, Bijection, Injection, Surjection, IsInjective
  <2>2. QED
    BY <2>1 DEF ExistsBijection
<1>3. QED
  BY <1>1, <1>2, FS_CountingElements

LEMMA Joined ==
    ASSUME NEW X, NEW s \in Seq(X), NEW t \in Seq(X)
    PROVE  s \o t \in Seq(X) /\ ToSet(s \o t) = ToSet(s) \cup ToSet(t)
<1>1. /\ s \o t \in Seq(X) /\ Len(s \o t) = Len(s) + Len(t)
      /\ \A i \in 1..Len(s) : (s \o t)[i] = s[i]
      /\ \A i \in 1..Len(t) : (s \o t)[Len(s) + i] = t[i]
      /\ Len(s) \in Nat /\ Len(t) \in Nat
  OBVIOUS
<1>2. /\ ToSet(s) = {s[i] : i \in 1..Len(s)} /\ ToSet(t) = {t[i] : i \in 1..Len(t)}
      /\ ToSet(s \o t) = {(s \o t)[i] : i \in 1..Len(s) + Len(t)}
  BY <1>1 DEF ToSet
<1>3. \A i \in 1..Len(s) + Len(t) : i \in 1..Len(s) \/ \E j \in 1..Len(t) : i = Len(s) + j
  <2>1. \A i \in 1..Len(s) + Len(t) : i \notin 1..Len(s) => i - Len(s) \in 1..Len(t)
                                                             /\ i = Len(s) + (i - Len(s))
    BY <1>1
  <2>2. QED
    BY <2>1
<1>4. \A i \in 1..Len(s) : i \in 1..Len(s) + Len(t)
  BY <1>1
<1>5. \A i \in 1..Len(t) : Len(s) + i \in 1..Len(s) + Len(t)
  BY <1>1
<1>6. \A i \in 1..Len(s) + Len(t) : (s \o t)[i] \in ToSet(s) \cup ToSet(t)
  BY <1>1, <1>2, <1>3
<1>7. (\A x \in ToSet(s) : x \in ToSet(s \o t)) /\ (\A x \in ToSet(t) : x \in ToSet(s \o t))
  BY <1>1, <1>2, <1>4, <1>5
<1>8. QED
  BY <1>1, <1>2, <1>6, <1>7

\* What a run with this total tells, given what it was asked for.
Told(body, total, told) ==
    LET ids == RefIds(Track, body.ids, body.all)
        rows == Comparisons(Track, total, ids)
    IN  /\ told.compared = rows /\ told.unmatched = Unmatched(Track, ids)
        /\ told.closest = Closest(rows)

\* ReferencesTold, of one run.
ToldRight(body, told) ==
    LET compared == {row.id : row \in ToSet(told.compared)}
        unmatched == ToSet(told.unmatched)
        near(row) == \A other \in ToSet(told.compared) : Abs(row.delta) <= Abs(other.delta)
    IN  /\ compared \cup unmatched = ToSet(body.ids) \cup
                (IF body.all THEN ToSet(ReferenceIds(Track)) ELSE {})
        /\ compared \cap unmatched = {} /\ compared \subseteq ToSet(ReferenceIds(Track))
        /\ Cardinality(compared) = Len(told.compared)
        /\ IF compared = {} THEN told.closest = NoMatch
           ELSE \E row \in ToSet(told.compared) : row.id = told.closest /\ near(row)

LEMMA TellsRight ==
    ASSUME NEW body \in Bodies, NEW total \in Nat, NEW told, Told(body, total, told)
    PROVE  ToldRight(body, told)
<1> DEFINE known == ToSet(ReferenceIds(Track))
           asked == body.ids \o (IF body.all THEN ReferenceIds(Track) ELSE <<>>)
           ids == RefIds(Track, body.ids, body.all)
           found == Kept(ids, known)
           delta(id) == total - (CHOOSE f \in ToSet(ReferencesOf(Track)) : f.id = id).total
           rows == [n \in 1..Len(found) |-> [id |-> found[n], delta |-> delta(found[n])]]
           Ids == STRING \cup RefIdSet
           Rows == [id : Ids, delta : Int]
<1>1. Track \in DOMAIN References /\ body.ids \in Seq(Ids) /\ body.all \in BOOLEAN
  <2>1. Track \in DOMAIN References /\ body.ids \in Seq(STRING) /\ body.all \in BOOLEAN
    BY SoloRunAssumption DEF Body
  <2>2. QED
    BY <2>1
<1>2. /\ ReferenceIds(Track) \in Seq(Ids)
      /\ \A id \in known : delta(id) \in Int
  <2>1. /\ ReferenceIds(Track) \in Seq(RefIdSet)
        /\ \A id \in known : delta(id) \in Int
    BY <1>1, ReferencesKnown
  <2>2. QED
    BY <2>1
<1> HIDE DEF Ids
<1>3. /\ asked \in Seq(Ids)
      /\ ToSet(asked) = ToSet(body.ids) \cup (IF body.all THEN known ELSE {})
  <2>1. CASE body.all
    BY <1>1, <1>2, <2>1, Joined
  <2>2. CASE ~body.all
    <3>1. <<>> \in Seq(Ids) /\ ToSet(<<>>) = {}
      BY NoMembers
    <3>2. QED
      BY <1>1, <2>2, <3>1, Joined
  <2>3. QED
    BY <2>1, <2>2
<1>4. ids \in Seq(Ids) /\ ToSet(ids) = ToSet(asked) /\ OneEach(ids)
  <2>1. ids = Distinct(asked)
    BY DEF RefIds
  <2> HIDE DEF asked, ids
  <2>2. QED
    BY <1>3, <2>1, DistinctIs
<1> HIDE DEF asked, ids, delta, known
<1>5. found \in Seq(Ids) /\ ToSet(found) = ToSet(ids) \cap known /\ OneEach(found)
  BY <1>4, KeptIs
<1>6. /\ told.compared = rows
      /\ told.unmatched = Kept(ids, ToSet(ids) \ known)
      /\ told.closest = Closest(rows)
  BY DEF Told, Comparisons, Unmatched, ids, known, delta
<1> HIDE DEF found
<1>7. Len(found) \in Nat /\ \A n \in 1..Len(found) : found[n] \in Ids /\ found[n] \in known
  <2>1. /\ Len(found) \in Nat /\ DOMAIN found = 1..Len(found)
        /\ \A n \in 1..Len(found) : found[n] \in Ids
    BY <1>5
  <2>2. \A n \in 1..Len(found) : found[n] \in ToSet(found)
    BY <2>1 DEF ToSet
  <2>3. QED
    BY <1>5, <2>1, <2>2
<1>8. rows \in Seq(Rows) /\ Len(rows) = Len(found) /\ DOMAIN rows = 1..Len(found)
  <2>1. \A n \in 1..Len(found) : [id |-> found[n], delta |-> delta(found[n])] \in Rows
    BY <1>2, <1>7
  <2>2. rows \in [1..Len(found) -> Rows]
    BY <2>1
  <2> HIDE DEF rows, Rows
  <2>3. QED
    BY <1>7, <2>2
<1>9. \A n \in 1..Len(found) : rows[n].id = found[n]
  OBVIOUS
<1> HIDE DEF rows
<1>10. {row.id : row \in ToSet(rows)} = ToSet(found)
  <2>1. /\ ToSet(rows) = {rows[n] : n \in 1..Len(found)}
        /\ ToSet(found) = {found[n] : n \in 1..Len(found)}
    BY <1>5, <1>8 DEF ToSet
  <2>2. QED
    BY <1>9, <2>1
<1>11. ToSet(told.unmatched) = ToSet(ids) \ known
  <2>1. ToSet(Kept(ids, ToSet(ids) \ known)) = ToSet(ids) \cap (ToSet(ids) \ known)
    BY <1>4, KeptIs
  <2>2. QED
    BY <1>6, <2>1
<1>12. Cardinality(ToSet(found)) = Len(rows)
  BY <1>5, <1>8, AsManyAs
<1>13. CASE ToSet(found) = {}
  <2>1. Len(rows) = 0
    BY <1>12, <1>13, FS_EmptySet
  <2>2. rows = <<>>
    BY <1>8, <2>1
  <2>3. told.closest = NoMatch
    BY <1>6, <2>2 DEF Closest
  <2>4. QED
    BY <1>3, <1>4, <1>5, <1>6, <1>10, <1>11, <1>12, <1>13, <2>3 DEF ToldRight, known
<1>14. CASE ToSet(found) # {}
  <2>1. rows # <<>>
    BY <1>10, <1>14, NoMembers
  <2>2. \A x \in Rows : x.delta \in Int
    OBVIOUS
  <2> HIDE DEF Rows
  <2>3. \E row \in ToSet(rows) : /\ row.id = Closest(rows)
                                 /\ \A other \in ToSet(rows) : Abs(row.delta) <= Abs(other.delta)
    BY <1>8, <2>1, <2>2, ClosestIs
  <2>4. QED
    BY <1>3, <1>4, <1>5, <1>6, <1>10, <1>11, <1>12, <1>14, <2>3 DEF ToldRight, known
<1>15. QED
  BY <1>13, <1>14

\* What a run has told since its engine ran.
HasTold(r) ==
    out[r] # None =>
        /\ pc[r] \notin {"idle", "simulate"} /\ read[r].body \in Bodies
        /\ \E total \in Nat : Told(read[r].body, total, out[r])

ToldInv == \A r \in Run : HasTold(r)

LEMMA ToldInit == Init => ToldInv
BY DEF Init, ToldInv, HasTold

\* The calls that have told something leave it so; what the others tell is new.
LEMMA ToldRests ==
    ASSUME TypeInv, ToldInv, NEW r \in Run,
           out[r] = None \/ pc'[r] = pc[r] \/ pc'[r] \notin {"idle", "simulate"},
           out'[r] = out[r], out[r] = None \/ read'[r].body = read[r].body
    PROVE  HasTold(r)'
BY DEF ToldInv, HasTold

LEMMA ToldSimulate == ASSUME TypeInv, ToldInv, NEW r \in Run, Simulate(r) PROVE ToldInv'
<1>1. PICK total \in Totals[read[r].body] : out' = [out EXCEPT ![r] = Outcome(read[r].body, total)]
  BY DEF Simulate
<1>2. pc[r] = "simulate" /\ pc' = [pc EXCEPT ![r] = "find snapshot"] /\ read' = read
  BY DEF Simulate, Goto
<1>3. read[r].body \in Bodies /\ Totals[read[r].body] \in SUBSET Nat
  BY <1>2, Mine, SoloRunAssumption DEF Going, Read
<1> DEFINE told == Outcome(read[r].body, total)
<1>4. Told(read[r].body, total, told)
  BY DEF Told, Outcome
<1> HIDE DEF told
<1>5. /\ out'[r] = told /\ pc'[r] = "find snapshot"
      /\ \A q \in Run : q # r => out'[q] = out[q] /\ pc'[q] = pc[q]
  BY <1>1, <1>2 DEF TypeInv, CallsTyped, told
<1>6. HasTold(r)'
  <2>1. total \in Nat
    BY <1>1, <1>3
  <2>2. QED
    BY <1>2, <1>3, <1>4, <1>5, <2>1 DEF HasTold, Told
<1>7. ASSUME NEW q \in Run, q # r
      PROVE  HasTold(q)'
  BY <1>2, <1>5, <1>7, ToldRests
<1>8. QED
  BY <1>6, <1>7 DEF ToldInv

LEMMA ToldNext == TypeInv /\ ToldInv /\ [Next]_vars => ToldInv'
<1> SUFFICES ASSUME TypeInv, ToldInv, [Next]_vars
             PROVE  ToldInv'
  OBVIOUS
<1>1. ASSUME NEW s \in Session, Create(s) \/ Patch(s) \/ SubmitSetup(s) \/ PostScore(s)
      PROVE  ToldInv'
  <2>1. UNCHANGED <<pc, read, out>>
    BY <1>1 DEF Create, Patch, SubmitSetup, PostScore, calls
  <2>2. QED
    BY <2>1, ToldRests DEF ToldInv
<1>2. ASSUME NEW r \in Run, NEW s \in Session, Begin(r, s)
      PROVE  ToldInv'
  <2>1. PICK mine : read' = [read EXCEPT ![r] = mine]
    BY <1>2 DEF Begin
  <2>2. pc[r] = "idle" /\ pc' = [pc EXCEPT ![r] = "simulate"] /\ out' = out
    BY <1>2 DEF Begin, Goto
  <2>3. \A q \in Run : q # r => read'[q] = read[q] /\ pc'[q] = pc[q]
    BY <2>1, <2>2 DEF TypeInv, CallsTyped
  <2>4. out[r] = None
    BY <2>2 DEF ToldInv, HasTold
  <2>5. \A q \in Run : HasTold(q)'
    BY <2>2, <2>3, <2>4, ToldRests
  <2>6. QED
    BY <2>5 DEF ToldInv
<1>3. ASSUME NEW r \in Run, Simulate(r)
      PROVE  ToldInv'
  BY <1>3, ToldSimulate
<1>4. ASSUME NEW r \in Run, FindSnapshot(r)
      PROVE  ToldInv'
  <2>1. pc[r] = "find snapshot" /\ pc' = [pc EXCEPT ![r] = "put snapshot"] /\ out' = out
    BY <1>4 DEF FindSnapshot, Goto
  <2>2. read[r] \in Read
    BY <2>1, Mine DEF Going, Storing
  <2>3. PICK found : read' = [read EXCEPT ![r] = [read[r] EXCEPT !.found = found]]
    BY <1>4 DEF FindSnapshot
  <2> DEFINE mine == [read[r] EXCEPT !.found = found]
  <2>4. mine.body = read[r].body /\ read' = [read EXCEPT ![r] = mine]
    BY <2>2, <2>3 DEF Read
  <2> HIDE DEF mine
  <2>5. /\ read'[r] = mine /\ pc'[r] = "put snapshot"
        /\ \A q \in Run : q # r => read'[q] = read[q] /\ pc'[q] = pc[q]
    BY <2>1, <2>4 DEF TypeInv, CallsTyped
  <2>6. \A q \in Run : HasTold(q)'
    BY <2>1, <2>4, <2>5, ToldRests
  <2>7. QED
    BY <2>6 DEF ToldInv
<1>5. ASSUME NEW r \in Run, PutSnapshot(r) \/ StoreRun(r) \/ StoreResult(r) \/ SubmitScore(r)
      PROVE  ToldInv'
  <2>1. PICK step \in Storing \cup {"done"} : pc' = [pc EXCEPT ![r] = step]
    BY <1>5 DEF PutSnapshot, StoreRun, StoreResult, SubmitScore, Goto, Then, Storing
  <2>2. UNCHANGED <<read, out>>
    BY <1>5 DEF PutSnapshot, StoreRun, StoreResult, SubmitScore
  <2>3. \A q \in Run : pc'[q] = pc[q] \/ pc'[q] \notin {"idle", "simulate"}
    BY <2>1 DEF TypeInv, CallsTyped, Storing
  <2>4. \A q \in Run : HasTold(q)'
    BY <2>2, <2>3, ToldRests
  <2>5. QED
    BY <2>4 DEF ToldInv
<1>6. ASSUME NEW c \in Run \cup Refresh, CallMoves(c)
      PROVE  ToldInv'
  <2>1. PICK step \in {"upsert", "done"} : pc' = [pc EXCEPT ![c] = step]
    BY <1>6 DEF CallMoves, Goto
  <2>2. UNCHANGED <<read, out>>
    BY <1>6 DEF CallMoves
  <2>3. \A q \in Run : pc'[q] = pc[q] \/ pc'[q] \notin {"idle", "simulate"}
    BY <2>1 DEF TypeInv, CallsTyped
  <2>4. \A q \in Run : HasTold(q)'
    BY <2>2, <2>3, ToldRests
  <2>5. QED
    BY <2>4 DEF ToldInv
<1>7. CASE UNCHANGED vars
  <2>1. UNCHANGED <<pc, read, out>>
    BY <1>7 DEF vars
  <2>2. QED
    BY <2>1, ToldRests DEF ToldInv
<1>8. QED
  BY <1>1, <1>2, <1>3, <1>4, <1>5, <1>6, <1>7, OthersMove DEF Next

\* A run is compared once with each known reference it was asked for, the others are
\* reported unmatched, and the closest one is the closest, for any bodies and totals.
THEOREM ComparedAsAsked == Spec => []ReferencesTold
<1>1. ToldInv => ReferencesTold
  <2>1. ASSUME ToldInv, NEW r \in Run, out[r] # None
        PROVE  ToldRight(read[r].body, out[r])
    BY <2>1, TellsRight DEF ToldInv, HasTold
  <2>2. QED
    BY <2>1, Zenon DEF ReferencesTold, ToldRight
<1>2. QED
  BY <1>1, TypeInit, TypeNext, ToldInit, ToldNext, PTL DEF Spec
=============================================================================
