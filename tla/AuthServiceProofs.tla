--------------------------- MODULE AuthServiceProofs ---------------------------
(***************************************************************************)
(* Theorems about AuthService, for every set of names, passwords and       *)
(* handlers, every schedule of the handlers and of the blocking threads,   *)
(* and any number of kills and restarts.                                   *)
(***************************************************************************)
EXTENDS AuthService, SequenceTheorems, WellFoundedInduction, TLAPS

\* A record handed to the blocking threads is that of a handler which waits for
\* it, or of one that has gone; nothing outlives the process.
JobsInv ==
  /\ \A w \in writes : handlers[w[1]] # None =>
       handlers[w[1]].step = "flushing" /\ w[2] = Record(w[1])
  /\ \A v, w \in writes : v[1] = w[1] => v = w
  /\ ~up => lock = None /\ writes = {} /\ \A h \in Handler : handlers[h] = None

\* The sign-up that holds the lock is for this name.
Storing(n) == lock # None /\ handlers[lock].name = n

\* What memory and file hold of a name: the same, but while a sign-up stores it
\* memory has nothing, and the file has the record once it is written.
SyncInv ==
  \A n \in Name \ spoiled : up =>
    /\ Storing(n) => Stored(users, n) = None
    /\ Stored(file, n) = IF Storing(n) /\ handlers[lock].step = "written"
                         THEN handlers[lock].password ELSE Stored(users, n)

\* Whoever was told so is in the file, and in memory when there is one.
ToldInv ==
  \A n \in Name \ spoiled : told[n] # None =>
    /\ Stored(file, n) = told[n]
    /\ up => Stored(users, n) = told[n]

ServiceInv == TypeOK /\ JobsInv /\ SyncInv /\ ToldInv

-----------------------------------------------------------------------------
(* What a sequence of records says of a name                               *)

\* Every set of naturals has a least member.
LEMMA LeastNumber ==
  ASSUME NEW S \in SUBSET Nat, S # {}
  PROVE  \E m \in S : \A k \in S : m <= k
<1> DEFINE R == {ss \in Nat \X Nat : ss[1] < ss[2]}
<1>1. IsWellFoundedOn(R, Nat)
  BY NatLessThanWellFounded, Zenon DEF OpToRel
<1> HIDE DEF R
<1>2. PICK m \in S : \A k \in S : <<k, m>> \notin R
  BY <1>1, WFMin
<1>3. ASSUME NEW k \in S  PROVE m <= k
  <2>1. k \in Nat /\ m \in Nat
    OBVIOUS
  <2>2. ~(k < m)
    BY <1>2, <2>1 DEF R
  <2> QED  BY <2>1, <2>2
<1> QED  BY <1>3

Found(records, n) == {i \in DOMAIN records : records[i][1] = n}

\* The first place of a name is what CHOOSE finds.
LEMMA StoredIsFirst ==
  ASSUME NEW records \in Seq(Name \X Password), NEW n, NEW i \in Found(records, n),
         \A j \in Found(records, n) : i <= j
  PROVE  Stored(records, n) = records[i][2] /\ Stored(records, n) \in Password
<1>1. /\ DOMAIN records = 1..Len(records) /\ Len(records) \in Nat
      /\ \A k \in DOMAIN records : records[k] \in Name \X Password
  OBVIOUS
<1>2. Found(records, n) \subseteq Nat /\ i \in DOMAIN records
  BY <1>1 DEF Found
<1>3. \A k \in Found(records, n) : (\A j \in Found(records, n) : k <= j) => k = i
  BY <1>2
<1>4. (CHOOSE k \in Found(records, n) : \A j \in Found(records, n) : k <= j) = i
  BY <1>3
<1>5. Stored(records, n) = records[i][2]
  BY <1>4 DEF Stored, Found
<1> QED  BY <1>1, <1>2, <1>5

\* Finding no record of a name is finding no password for it.
LEMMA StoredIsNone ==
  ASSUME NEW records \in Seq(Name \X Password), NEW n
  PROVE  /\ Found(records, n) = {} <=> Stored(records, n) = None
         /\ Stored(records, n) \in Password \cup {None}
<1>1. CASE Found(records, n) = {}
  BY <1>1 DEF Stored, Found
<1>2. CASE Found(records, n) # {}
  <2>1. Found(records, n) \in SUBSET Nat
    BY DEF Found
  <2>2. PICK i \in Found(records, n) : \A j \in Found(records, n) : i <= j
    BY <1>2, <2>1, LeastNumber
  <2>3. Stored(records, n) \in Password
    BY <2>2, StoredIsFirst
  <2> QED  BY <1>2, <2>3, NoneAssumption
<1> QED  BY <1>1, <1>2

\* A record added at the end counts only for a name that had none.
LEMMA StoredAppend ==
  ASSUME NEW records \in Seq(Name \X Password), NEW rec \in Name \X Password, NEW n
  PROVE  Stored(Append(records, rec), n) =
           IF Stored(records, n) = None /\ rec[1] = n THEN rec[2] ELSE Stored(records, n)
<1> DEFINE Rec == Name \X Password
<1>1. PICK more \in Seq(Rec) : more = Append(records, rec)
  <2>1. Append(records, rec) \in Seq(Rec)
    OBVIOUS
  <2> QED  BY <2>1
<1>2. /\ Len(records) \in Nat
      /\ DOMAIN records = 1..Len(records) /\ DOMAIN more = 1..Len(records) + 1
      /\ \A i \in 1..Len(records) : more[i] = records[i]
      /\ more[Len(records) + 1] = rec
  BY <1>1
<1>3. /\ Found(records, n) \subseteq 1..Len(records)
      /\ rec[1] = n => Found(more, n) = Found(records, n) \cup {Len(records) + 1}
      /\ rec[1] # n => Found(more, n) = Found(records, n)
  BY <1>2 DEF Found
<1>4. CASE Found(records, n) = {} /\ rec[1] # n
  BY <1>1, <1>3, <1>4, StoredIsNone
<1>5. CASE Found(records, n) = {} /\ rec[1] = n
  <2>1. Found(more, n) = {Len(records) + 1}
    BY <1>3, <1>5
  <2>2. /\ Len(records) + 1 \in Found(more, n)
        /\ \A j \in Found(more, n) : Len(records) + 1 <= j
    BY <1>2, <2>1
  <2>3. Stored(more, n) = more[Len(records) + 1][2]
    BY <2>2, StoredIsFirst
  <2> QED  BY <1>1, <1>2, <1>5, <2>3, StoredIsNone
<1>6. CASE Found(records, n) # {}
  <2>1. PICK i \in Found(records, n) : \A j \in Found(records, n) : i <= j
    <3>1. Found(records, n) \in SUBSET Nat
      BY <1>3
    <3> QED  BY <1>6, <3>1, LeastNumber
  <2>2. i \in Found(more, n) /\ \A j \in Found(more, n) : i <= j
    BY <1>2, <1>3, <2>1
  <2>3. Stored(more, n) = more[i][2] /\ Stored(records, n) = records[i][2]
    BY <2>1, <2>2, StoredIsFirst
  <2>4. more[i] = records[i]
    BY <1>2, <1>3, <2>1
  <2>5. Stored(records, n) # None
    BY <1>6, StoredIsNone
  <2> QED  BY <1>1, <2>3, <2>4, <2>5
<1> QED  BY <1>4, <1>5, <1>6

-----------------------------------------------------------------------------
(* The steps                                                               *)

\* What a record of a handler is.
LEMMA RecordType ==
  ASSUME TypeOK, NEW h \in Handler, handlers[h] # None
  PROVE  /\ handlers[h] \in Job /\ Record(h) \in Name \X Password
         /\ Record(h)[1] = handlers[h].name /\ Record(h)[2] = handlers[h].password
         /\ handlers[h].name \in Name /\ handlers[h].password \in Password
BY DEF TypeOK, Job, Record

\* A new call only starts a handler.
LEMMA CallKeeps ==
  ASSUME ServiceInv, NEW h \in Handler, NEW kind \in {"login", "signin"}, NEW n \in Name,
         NEW p \in Password, Call(h, kind, n, p)
  PROVE  ServiceInv'
<1> DEFINE job == [kind |-> kind, name |-> n, password |-> p, step |-> "queued"]
<1>0. /\ TypeOK /\ JobsInv /\ SyncInv /\ ToldInv
      /\ up /\ handlers[h] = None /\ waiting' = h
      /\ handlers' = [handlers EXCEPT ![h] = job]
      /\ UNCHANGED <<up, users, lock, file, torn, writes, told, spoiled>>
      /\ \A w \in writes : w[1] # h
  BY DEF ServiceInv, Call, storageVars, history
<1>1. job \in Job /\ job # None /\ job.step = "queued"
  BY NoneAssumption DEF Job, Step
<1>2. lock # h
  BY <1>0, NoneAssumption DEF TypeOK
<1> HIDE DEF job
<1>3. TypeOK'
  BY <1>0, <1>1, <1>2 DEF TypeOK
<1>4. JobsInv'
  BY <1>0, <1>1 DEF JobsInv, TypeOK, Record
<1>5. SyncInv'
  BY <1>0, <1>2 DEF SyncInv, Storing, TypeOK
<1>6. ToldInv'
  BY <1>0 DEF ToldInv
<1> QED  BY <1>3, <1>4, <1>5, <1>6 DEF ServiceInv

\* A client that gives up waits for no handler any more.
LEMMA GiveUpKeeps ==
  ASSUME ServiceInv, GiveUp
  PROVE  ServiceInv'
BY DEF ServiceInv, GiveUp, serviceVars, storageVars, history, TypeOK, JobsInv, SyncInv,
       ToldInv, Storing, Record

\* An answer that says no, and that gives the lock back when the handler has it.
LEMMA RefusalKeeps ==
  ASSUME ServiceInv, NEW h \in Handler, handlers[h] # None,
         handlers' = [handlers EXCEPT ![h] = None],
         waiting' = IF waiting = h THEN None ELSE waiting,
         lock' = IF lock = h THEN None ELSE lock,
         lock = h => handlers[h].step # "written",
         UNCHANGED <<up, users, file, torn, writes, told, spoiled>>
  PROVE  ServiceInv'
<1>0. TypeOK /\ JobsInv /\ SyncInv /\ ToldInv
  BY DEF ServiceInv
<1>1. TypeOK'
  BY <1>0, NoneAssumption DEF TypeOK
<1>2. JobsInv'
  BY <1>0 DEF JobsInv, TypeOK, Record
<1>3. SyncInv'
  BY <1>0, NoneAssumption DEF SyncInv, Storing, TypeOK
<1>4. ToldInv'
  BY <1>0 DEF ToldInv
<1> QED  BY <1>1, <1>2, <1>3, <1>4 DEF ServiceInv

\* A login is answered.
LEMMA LogInKeeps ==
  ASSUME ServiceInv, NEW h \in Handler, LogIn(h)
  PROVE  ServiceInv'
BY RefusalKeeps, NoneAssumption DEF LogIn, Answer, ServiceInv, TypeOK, storageVars

\* A sign-in learns that its name is taken, or gets the lock.
LEMMA CheckNameKeeps ==
  ASSUME ServiceInv, NEW h \in Handler, CheckName(h)
  PROVE  ServiceInv'
<1>0. /\ TypeOK /\ JobsInv /\ SyncInv /\ ToldInv
      /\ handlers[h] # None /\ handlers[h].step = "queued" /\ lock = None
      /\ UNCHANGED <<up, users, file, torn, writes, spoiled>>
  BY DEF ServiceInv, CheckName, storageVars
<1>1. CASE Taken(handlers[h].name)
  BY <1>0, <1>1, RefusalKeeps, NoneAssumption DEF CheckName, Answer, TypeOK
<1>2. CASE ~Taken(handlers[h].name)
  <2>1. /\ lock' = h /\ waiting' = waiting /\ told' = told
        /\ handlers' = [handlers EXCEPT ![h].step = "opening"]
    BY <1>2 DEF CheckName
  <2>2. PICK job \in Job :
          /\ handlers' = [handlers EXCEPT ![h] = job] /\ job # None
          /\ job.step = "opening" /\ job.name = handlers[h].name
    <3>1. /\ [handlers[h] EXCEPT !.step = "opening"] \in Job
          /\ [handlers[h] EXCEPT !.step = "opening"].step = "opening"
          /\ [handlers[h] EXCEPT !.step = "opening"].name = handlers[h].name
      BY <1>0 DEF TypeOK, Job, Step
    <3> QED  BY <2>1, <3>1, NoneAssumption
  <2>3. TypeOK'
    <3>1. handlers' \in [Handler -> Job \cup {None}]
      BY <1>0, <2>2 DEF TypeOK
    <3>2. ASSUME NEW g \in Handler, handlers'[g] # None
          PROVE  (lock' = g) <=> (handlers'[g].step # "queued")
      <4>1. CASE g = h
        BY <1>0, <2>1, <2>2, <4>1 DEF TypeOK
      <4>2. CASE g # h
        <5>1. handlers'[g] = handlers[g] /\ lock # g /\ lock' # g
          BY <1>0, <2>1, <2>2, <4>2, NoneAssumption DEF TypeOK
        <5> QED  BY <1>0, <3>2, <5>1 DEF TypeOK
      <4> QED  BY <4>1, <4>2
    <3>3. lock' \in Handler /\ handlers'[lock'] # None
      BY <1>0, <2>1, <2>2 DEF TypeOK
    <3>4. waiting' # None => waiting' \in Handler /\ handlers'[waiting'] # None
      BY <1>0, <2>1, <2>2 DEF TypeOK
    <3> QED  BY <1>0, <2>1, <3>1, <3>2, <3>3, <3>4 DEF TypeOK
  <2>4. JobsInv'
    BY <1>0, <2>1, <2>2 DEF JobsInv, TypeOK, Record
  <2>5. SyncInv'
    BY <1>0, <1>2, <2>1, <2>2 DEF SyncInv, Storing, Taken, TypeOK
  <2>6. ToldInv'
    BY <1>0, <2>1 DEF ToldInv
  <2> QED  BY <2>3, <2>4, <2>5, <2>6 DEF ServiceInv
<1> QED  BY <1>1, <1>2

\* A handler that holds the lock takes its next step.
LEMMA Advance ==
  ASSUME TypeOK, NEW h \in Handler, handlers[h] # None, handlers[h].step # "queued",
         NEW s \in Step \ {"queued"}, handlers' = [handlers EXCEPT ![h].step = s]
  PROVE  /\ lock = h
         /\ handlers' \in [Handler -> Job \cup {None}]
         /\ handlers'[h] # None /\ handlers'[h].step = s
         /\ handlers'[h].name = handlers[h].name /\ handlers'[h].password = handlers[h].password
         /\ \A g \in Handler \ {h} : handlers'[g] = handlers[g]
         /\ \A g \in Handler : handlers'[g] # None => (lock = g) = (handlers'[g].step # "queued")
<1>1. PICK job \in Job :
        /\ handlers' = [handlers EXCEPT ![h] = job] /\ job # None
        /\ job.step = s /\ job.name = handlers[h].name /\ job.password = handlers[h].password
  <2>1. PICK old \in Job : old = handlers[h]
    BY DEF TypeOK
  <2>2. PICK job : job = [old EXCEPT !.step = s]
    OBVIOUS
  <2>3. job \in Job /\ job.step = s /\ job.name = old.name /\ job.password = old.password
    BY <2>1, <2>2 DEF Job, Step
  <2>4. handlers' = [handlers EXCEPT ![h] = job]
    BY <2>1, <2>2
  <2> QED  BY <2>1, <2>3, <2>4, NoneAssumption
<1>2. lock = h
  BY DEF TypeOK
<1>3. /\ handlers' \in [Handler -> Job \cup {None}]
      /\ handlers'[h] = job /\ \A g \in Handler \ {h} : handlers'[g] = handlers[g]
  <2>1. handlers \in [Handler -> Job \cup {None}]
    BY DEF TypeOK
  <2> QED  BY <1>1, <2>1
<1>4. ASSUME NEW g \in Handler, handlers'[g] # None
      PROVE  (lock = g) = (handlers'[g].step # "queued")
  <2>1. CASE g = h
    BY <1>1, <1>2, <1>3, <2>1
  <2>2. CASE g # h
    BY <1>3, <1>4, <2>2 DEF TypeOK
  <2> QED  BY <2>1, <2>2
<1> QED  BY <1>1, <1>2, <1>3, <1>4

\* A sign-in hands its record over to be written, or cannot open the file.
LEMMA HandOverKeeps ==
  ASSUME ServiceInv, NEW h \in Handler, HandOver(h)
  PROVE  ServiceInv'
<1>0. /\ TypeOK /\ JobsInv /\ SyncInv /\ ToldInv
      /\ handlers[h] # None /\ handlers[h].step = "opening" /\ lock = h
      /\ UNCHANGED <<up, users, file, torn, spoiled>>
  BY DEF ServiceInv, HandOver, TypeOK
<1>1. CASE Answer(h, FALSE) /\ lock' = None /\ UNCHANGED writes
  BY <1>0, <1>1, RefusalKeeps DEF Answer
<1>2. CASE /\ writes' = writes \cup {<<h, Record(h)>>}
           /\ handlers' = [handlers EXCEPT ![h].step = "flushing"]
           /\ UNCHANGED <<lock, waiting, told>>
  <2>1. /\ handlers' \in [Handler -> Job \cup {None}]
        /\ handlers'[h] # None /\ handlers'[h].step = "flushing"
        /\ handlers'[h].name = handlers[h].name /\ handlers'[h].password = handlers[h].password
        /\ \A g \in Handler \ {h} : handlers'[g] = handlers[g]
        /\ \A g \in Handler : handlers'[g] # None => (lock = g) = (handlers'[g].step # "queued")
    <3>1. "flushing" \in Step \ {"queued"}
      BY DEF Step
    <3> QED  BY <1>0, <1>2, <3>1, Advance
  <2>2. PICK new \in Handler \X (Name \X Password) :
          new = <<h, Record(h)>> /\ writes' = writes \cup {new}
    BY <1>0, <1>2, RecordType
  <2>3. \A w \in writes : w[1] # h
    BY <1>0 DEF JobsInv
  <2>4. TypeOK'
    BY <1>0, <1>2, <2>1, <2>2 DEF TypeOK
  <2>5. JobsInv'
    <3>1. Record(h)' = Record(h)
      BY <2>1 DEF Record
    <3>2. ASSUME NEW w \in writes', handlers'[w[1]] # None
          PROVE  handlers'[w[1]].step = "flushing" /\ w[2] = Record(w[1])'
      <4>1. CASE w = new
        BY <2>1, <2>2, <3>1, <4>1
      <4>2. CASE w \in writes
        <5>1. w[1] \in Handler \ {h}
          BY <1>0, <2>3, <4>2 DEF TypeOK
        <5> QED  BY <1>0, <2>1, <3>2, <4>2, <5>1 DEF JobsInv, Record
      <4> QED  BY <2>2, <4>1, <4>2
    <3>3. \A v, w \in writes' : v[1] = w[1] => v = w
      BY <1>0, <2>2, <2>3 DEF JobsInv
    <3>4. up'
      BY <1>0 DEF JobsInv
    <3> QED  BY <3>2, <3>3, <3>4 DEF JobsInv
  <2>6. SyncInv'
    BY <1>0, <1>2, <2>1 DEF SyncInv, Storing
  <2>7. ToldInv'
    BY <1>0, <1>2 DEF ToldInv
  <2> QED  BY <2>4, <2>5, <2>6, <2>7 DEF ServiceInv
<1> QED  BY <1>1, <1>2 DEF HandOver

\* What a write does to the handler that waits for it, and to the file.
LEMMA WriteKeeps ==
  ASSUME ServiceInv, NEW w \in writes, NEW whole \in BOOLEAN, Write(w, whole)
  PROVE  ServiceInv'
<1> DEFINE h == w[1]
           added == whole /\ ~torn
<1>0. /\ TypeOK /\ JobsInv /\ SyncInv /\ ToldInv
      /\ w = <<h, w[2]>> /\ h \in Handler /\ w[2] \in Name \X Password /\ w[2][1] \in Name
      /\ up /\ writes' = writes \ {w} /\ UNCHANGED <<up, users, lock, waiting, asked, told>>
      /\ file \in Seq(Name \X Password) /\ users \in Seq(Name \X Password)
  BY DEF ServiceInv, Write, TypeOK, JobsInv, callerVars
<1>1. file' = IF added THEN Append(file, w[2]) ELSE file
  BY DEF Write
<1>2. file' \in Seq(Name \X Password) /\ ((file' # file) <=> added)
  <2> DEFINE Rec == Name \X Password
  <2>1. Append(file, w[2]) \in Seq(Rec) /\ Len(Append(file, w[2])) = Len(file) + 1
        /\ Len(file) \in Nat
    BY <1>0
  <2> QED  BY <1>0, <1>1, <2>1
<1>a. \A n : Stored(Append(file, w[2]), n) =
                IF Stored(file, n) = None /\ w[2][1] = n THEN w[2][2] ELSE Stored(file, n)
  BY <1>0, StoredAppend, Zenon
<1>3. torn' \in BOOLEAN
  BY <1>0 DEF Write, TypeOK
<1>4. \A n \in Name : Stored(file', n) # Stored(file, n) =>
        added /\ n = w[2][1] /\ Stored(file, n) = None /\ Stored(file', n) = w[2][2]
  <2>1. ASSUME NEW n \in Name, Stored(file', n) # Stored(file, n)
        PROVE  added /\ n = w[2][1] /\ Stored(file, n) = None /\ Stored(file', n) = w[2][2]
    <3>1. added /\ file' = Append(file, w[2])
      BY <1>1, <2>1
    <3>2. Stored(file', n) = IF Stored(file, n) = None /\ w[2][1] = n THEN w[2][2]
                             ELSE Stored(file, n)
      BY <1>a, <3>1
    <3> QED  BY <2>1, <3>1, <3>2
  <2> QED  BY <2>1
<1>5. \A v \in writes' : v[1] # h /\ v[1] \in Handler
  BY <1>0 DEF JobsInv, TypeOK
<1>6. \A n \in Name \ spoiled : told[n] # None => Stored(file', n) = told[n]
  BY <1>0, <1>4 DEF ToldInv
<1>7. spoiled \subseteq spoiled' /\ spoiled' \subseteq Name
  BY <1>0 DEF Write, TypeOK
<1>8. ToldInv'
  BY <1>0, <1>6, <1>7 DEF ToldInv
<1>9. CASE handlers[h] # None
  <2> DEFINE s == IF whole THEN "written" ELSE "failed"
  <2>0. handlers[h].step = "flushing" /\ w[2] = Record(h)
    BY <1>0, <1>9 DEF JobsInv
  <2>1. handlers' = [handlers EXCEPT ![h].step = s]
    BY <1>9, <2>0 DEF Write
  <2>2. /\ lock = h
        /\ handlers' \in [Handler -> Job \cup {None}]
        /\ handlers'[h] # None /\ handlers'[h].step = s
        /\ handlers'[h].name = handlers[h].name /\ handlers'[h].password = handlers[h].password
        /\ \A g \in Handler \ {h} : handlers'[g] = handlers[g]
        /\ \A g \in Handler : handlers'[g] # None => (lock = g) = (handlers'[g].step # "queued")
    <3>1. s \in Step \ {"queued"}
      BY DEF Step
    <3>2. handlers[h].step # "queued"
      BY <2>0
    <3> HIDE DEF s
    <3> QED  BY <1>0, <1>9, <2>1, <3>1, <3>2, Advance
  <2>3. w[2][1] = handlers[h].name /\ w[2][2] = handlers[h].password
    BY <1>0, <1>9, <2>0, RecordType
  <2>4. spoiled' = IF added <=> whole THEN spoiled ELSE spoiled \cup {w[2][1]}
    BY <1>2, <1>9, <2>0 DEF Write
  <2>5. TypeOK'
    BY <1>0, <1>2, <1>3, <1>7, <2>2 DEF TypeOK
  <2>6. JobsInv'
    BY <1>0, <1>5, <2>2 DEF JobsInv, Record
  <2>7. ASSUME NEW n \in Name \ spoiled'
        PROVE  /\ Storing(n)' => Stored(users, n) = None
               /\ Stored(file', n) = IF Storing(n)' /\ handlers'[lock].step = "written"
                                     THEN handlers'[lock].password ELSE Stored(users, n)
    <3>1. n \in Name \ spoiled /\ (Storing(n)' <=> Storing(n)) /\ (Storing(n) <=> n = w[2][1])
      BY <1>0, <1>7, <2>2, <2>3, NoneAssumption DEF Storing
    <3>2. /\ Storing(n) => Stored(users, n) = None
          /\ Stored(file, n) = Stored(users, n)
      BY <1>0, <2>0, <2>2, <3>1 DEF SyncInv
    <3>3. CASE n # w[2][1]
      BY <1>4, <3>1, <3>2, <3>3
    <3>4. CASE n = w[2][1]
      <4>1. added <=> whole
        BY <2>4, <3>4
      <4>2. CASE whole
        <5>1. file' = Append(file, w[2]) /\ Stored(file, n) = None
          BY <1>1, <3>1, <3>2, <3>4, <4>1, <4>2
        <5>2. Stored(file', n) = IF Stored(file, n) = None /\ w[2][1] = n THEN w[2][2]
                                 ELSE Stored(file, n)
          BY <1>a, <5>1
        <5>3. Stored(file', n) = handlers'[lock].password /\ handlers'[lock].step = "written"
          BY <2>2, <2>3, <3>4, <4>2, <5>1, <5>2
        <5> QED  BY <3>1, <3>2, <3>4, <5>3
      <4>3. CASE ~whole
        <5>1. file' = file /\ handlers'[lock].step = "failed"
          BY <1>1, <2>2, <4>3
        <5> QED  BY <3>1, <3>2, <5>1
      <4> QED  BY <4>2, <4>3
    <3> QED  BY <3>3, <3>4
  <2>8. SyncInv'
    BY <1>0, <2>7 DEF SyncInv
  <2> QED  BY <1>8, <2>5, <2>6, <2>8 DEF ServiceInv
<1>10. CASE handlers[h] = None
  <2>1. /\ handlers' = handlers
        /\ spoiled' = IF added THEN spoiled \cup {w[2][1]} ELSE spoiled
    BY <1>2, <1>10 DEF Write
  <2>2. TypeOK'
    BY <1>0, <1>2, <1>3, <1>7, <2>1 DEF TypeOK
  <2>3. JobsInv'
    BY <1>0, <2>1 DEF JobsInv, Record
  <2>4. \A n \in Name \ spoiled' : n \in Name \ spoiled /\ Stored(file', n) = Stored(file, n)
    BY <1>4, <1>7, <2>1
  <2>5. SyncInv'
    BY <1>0, <2>1, <2>4 DEF SyncInv, Storing
  <2> QED  BY <1>8, <2>2, <2>3, <2>5 DEF ServiceInv
<1> QED  BY <1>9, <1>10

\* A sign-in whose write is over adds its user, if it was written, and answers.
LEMMA FinishKeeps ==
  ASSUME ServiceInv, NEW h \in Handler, Finish(h)
  PROVE  ServiceInv'
<1>0. /\ TypeOK /\ JobsInv /\ SyncInv /\ ToldInv
      /\ handlers[h] # None /\ handlers[h].step \in {"written", "failed"} /\ lock = h
      /\ handlers' = [handlers EXCEPT ![h] = None] /\ lock' = None
      /\ waiting' = IF waiting = h THEN None ELSE waiting
      /\ UNCHANGED <<up, file, torn, writes, spoiled>>
  BY DEF ServiceInv, Finish, Answer, TypeOK, storageVars
<1>1. CASE handlers[h].step = "failed"
  BY <1>0, <1>1, RefusalKeeps DEF Finish, Answer
<1>2. CASE handlers[h].step = "written"
  <2>0. PICK n \in Name, p \in Password : n = handlers[h].name /\ p = handlers[h].password
                                       /\ Record(h) = <<n, p>>
    BY <1>0, RecordType DEF Record
  <2>1. /\ users' = Append(users, <<n, p>>)
        /\ told' = told \/ told' = [told EXCEPT ![n] = p]
    BY <1>2, <2>0 DEF Finish, Answer
  <2>2. users \in Seq(Name \X Password) /\ users' \in Seq(Name \X Password)
    <3>1. users \in Seq(Name \X Password) /\ <<n, p>> \in Name \X Password
      BY <1>0 DEF TypeOK
    <3> DEFINE Rec == Name \X Password
    <3>2. Append(users, <<n, p>>) \in Seq(Rec)
      BY <3>1
    <3> QED  BY <2>1, <3>1, <3>2
  <2>3. \A m \in Name : Stored(users', m) = IF Stored(users, m) = None /\ n = m THEN p
                                            ELSE Stored(users, m)
    <3>1. \A m : Stored(Append(users, <<n, p>>), m) =
                   IF Stored(users, m) = None /\ <<n, p>>[1] = m THEN <<n, p>>[2] ELSE Stored(users, m)
      <4>1. <<n, p>> \in Name \X Password
        OBVIOUS
      <4> QED  BY <2>2, <4>1, StoredAppend, Zenon
    <3> QED  BY <2>1, <3>1
  <2>4. up
    BY <1>0 DEF JobsInv
  <2>5. n \notin spoiled => /\ Stored(users, n) = None /\ Stored(file, n) = p
                            /\ Stored(users', n) = p
    <3>1. Storing(n)
      BY <1>0, <2>0, NoneAssumption DEF Storing
    <3> QED  BY <1>0, <1>2, <2>0, <2>3, <2>4, <3>1 DEF SyncInv
  <2>6. \A m \in Name \ spoiled : m # n => /\ Stored(users', m) = Stored(users, m)
                                          /\ Stored(file, m) = Stored(users, m)
    <3>1. \A m \in Name : m # n => ~Storing(m)
      BY <1>0, <2>0 DEF Storing
    <3> QED  BY <1>0, <2>3, <2>4, <3>1 DEF SyncInv
  <2>7. TypeOK'
    <3>1. told' \in [Name -> Password \cup {None}]
      BY <1>0, <2>1 DEF TypeOK
    <3>2. /\ handlers' \in [Handler -> Job \cup {None}]
          /\ \A g \in Handler : handlers'[g] # None =>
                 (lock' = g) = (handlers'[g].step # "queued")
          /\ waiting' # None => waiting' \in Handler /\ handlers'[waiting'] # None
      BY <1>0, NoneAssumption DEF TypeOK
    <3> QED  BY <1>0, <2>2, <3>1, <3>2 DEF TypeOK
  <2>8. JobsInv'
    BY <1>0 DEF JobsInv, TypeOK, Record
  <2>9. SyncInv'
    <3>1. \A m \in Name \ spoiled : Stored(file, m) = Stored(users', m)
      BY <2>5, <2>6
    <3> QED  BY <1>0, <3>1 DEF SyncInv, Storing
  <2>10. ToldInv'
    <3>1. ASSUME NEW m \in Name \ spoiled, told'[m] # None
          PROVE  Stored(file, m) = told'[m] /\ Stored(users', m) = told'[m]
      <4>1. CASE m = n
        BY <1>0, <2>1, <2>4, <2>5, <3>1, <4>1 DEF ToldInv, TypeOK
      <4>2. CASE m # n
        BY <1>0, <2>1, <2>4, <2>6, <3>1, <4>2 DEF ToldInv, TypeOK
      <4> QED  BY <4>1, <4>2
    <3> QED  BY <1>0, <3>1 DEF ToldInv
  <2> QED  BY <2>7, <2>8, <2>9, <2>10 DEF ServiceInv
<1> QED  BY <1>0, <1>1, <1>2

\* A handler nobody waits for is dropped and gives back the lock.
LEMMA DropKeeps ==
  ASSUME ServiceInv, NEW h \in Handler, Drop(h)
  PROVE  ServiceInv'
<1>0. /\ TypeOK /\ JobsInv /\ SyncInv /\ ToldInv
      /\ handlers[h] # None /\ waiting # h
      /\ handlers' = [handlers EXCEPT ![h] = None] /\ lock' = IF lock = h THEN None ELSE lock
      /\ UNCHANGED <<up, users, file, torn, writes, waiting, told>>
  BY DEF ServiceInv, Drop, storageVars, callerVars
<1>1. CASE handlers[h].step # "written"
  <2>1. spoiled' = spoiled
    BY <1>1 DEF Drop
  <2> QED  BY <1>0, <1>1, <2>1, RefusalKeeps
<1>2. CASE handlers[h].step = "written"
  <2>1. lock = h /\ lock' = None /\ spoiled' = spoiled \cup {handlers[h].name}
    BY <1>0, <1>2 DEF Drop, TypeOK
  <2>2. handlers[h].name \in Name
    BY <1>0, RecordType
  <2>3. TypeOK'
    <3>1. /\ handlers' \in [Handler -> Job \cup {None}]
          /\ \A g \in Handler : handlers'[g] # None =>
                 (lock' = g) = (handlers'[g].step # "queued")
          /\ waiting' # None => waiting' \in Handler /\ handlers'[waiting'] # None
      BY <1>0, <2>1, NoneAssumption DEF TypeOK
    <3> QED  BY <1>0, <2>1, <2>2, <3>1 DEF TypeOK
  <2>4. JobsInv'
    BY <1>0, <2>1 DEF JobsInv, TypeOK, Record
  <2>5. SyncInv'
    <3>1. \A n \in Name \ spoiled' : n \in Name \ spoiled /\ ~Storing(n)
      BY <2>1 DEF Storing
    <3> QED  BY <1>0, <2>1, <3>1 DEF SyncInv, Storing
  <2>6. ToldInv'
    BY <1>0, <2>1 DEF ToldInv
  <2> QED  BY <2>3, <2>4, <2>5, <2>6 DEF ServiceInv
<1> QED  BY <1>1, <1>2

\* A kill leaves nothing but the file.
LEMMA KillKeeps ==
  ASSUME ServiceInv, Kill
  PROVE  ServiceInv'
<1>0. /\ TypeOK /\ JobsInv /\ SyncInv /\ ToldInv
      /\ up' = FALSE /\ users' = <<>> /\ lock' = None /\ writes' = {} /\ waiting' = None
      /\ handlers' = [h \in Handler |-> None]
      /\ UNCHANGED <<file, torn, told, spoiled>>
  BY DEF ServiceInv, Kill, history
<1>1. TypeOK'
  <2>1. <<>> \in Seq(Name \X Password)
    OBVIOUS
  <2> QED  BY <1>0, <2>1 DEF TypeOK
<1>2. JobsInv' /\ SyncInv' /\ ToldInv'
  BY <1>0 DEF JobsInv, SyncInv, ToldInv
<1> QED  BY <1>1, <1>2 DEF ServiceInv

\* A start loads the users from the file.
LEMMA StartKeeps ==
  ASSUME ServiceInv, Start
  PROVE  ServiceInv'
<1>0. /\ TypeOK /\ JobsInv /\ SyncInv /\ ToldInv
      /\ ~up /\ up' = TRUE /\ users' = file /\ lock = None
      /\ UNCHANGED <<lock, handlers, file, torn, writes, waiting, told, spoiled>>
  BY DEF ServiceInv, Start, JobsInv, storageVars, callerVars, history
<1>1. TypeOK' /\ JobsInv'
  BY <1>0 DEF TypeOK, JobsInv, Record
<1>2. SyncInv' /\ ToldInv'
  BY <1>0 DEF SyncInv, ToldInv, Storing
<1> QED  BY <1>1, <1>2 DEF ServiceInv

-----------------------------------------------------------------------------
(* The theorems                                                            *)

\* The mutex, the calls on their way to the file, memory and file fit together in
\* every state, whatever is abandoned, lost or killed.
THEOREM ServiceInvariant == Spec => []ServiceInv
<1>1. Init => ServiceInv
  <2> SUFFICES ASSUME Init  PROVE ServiceInv
    OBVIOUS
  <2>1. <<>> \in Seq(Name \X Password)
    OBVIOUS
  <2>2. TypeOK
    BY <2>1 DEF Init, TypeOK
  <2>3. JobsInv /\ SyncInv /\ ToldInv
    BY DEF Init, JobsInv, SyncInv, ToldInv, Storing
  <2> QED  BY <2>2, <2>3 DEF ServiceInv
<1>2. ServiceInv /\ [Next]_vars => ServiceInv'
  <2> SUFFICES ASSUME ServiceInv, [Next]_vars  PROVE ServiceInv'
    OBVIOUS
  <2>1. ASSUME NEW h \in Handler, NEW kind \in {"login", "signin"}, NEW n \in Name,
               NEW p \in Password, Call(h, kind, n, p)
        PROVE  ServiceInv'
    BY <2>1, CallKeeps
  <2>2. ASSUME NEW h \in Handler,
               LogIn(h) \/ CheckName(h) \/ HandOver(h) \/ Finish(h) \/ Drop(h)
        PROVE  ServiceInv'
    BY <2>2, LogInKeeps, CheckNameKeeps, HandOverKeeps, FinishKeeps, DropKeeps
  <2>3. ASSUME NEW w \in writes, NEW whole \in BOOLEAN, Write(w, whole)
        PROVE  ServiceInv'
    BY <2>3, WriteKeeps
  <2>4. CASE GiveUp \/ Kill \/ Start
    BY <2>4, GiveUpKeeps, KillKeeps, StartKeeps
  <2>5. CASE UNCHANGED vars
    <3>1. /\ TypeOK /\ JobsInv /\ SyncInv /\ ToldInv
          /\ UNCHANGED <<up, users, lock, handlers, file, torn, writes, waiting, told, spoiled>>
      BY <2>5 DEF ServiceInv, vars, serviceVars, storageVars, callerVars, history
    <3> QED  BY <3>1 DEF ServiceInv, TypeOK, JobsInv, SyncInv, ToldInv, Storing, Record
  <2> QED  BY <2>1, <2>2, <2>3, <2>4, <2>5 DEF Next
<1> QED  BY <1>1, <1>2, PTL DEF Spec

\* The types, and that the mutex over the records is held by the sign-up that is
\* storing and by nobody else: no request that went away keeps it.
THEOREM LockFollowsSignUp == Spec => []TypeOK
<1>1. ServiceInv => TypeOK
  BY DEF ServiceInv
<1> QED  BY <1>1, ServiceInvariant, PTL

\* What the running service knows of a name is what it would know after a restart.
THEOREM RestartForgetsNothing == Spec => []MemoryFollowsFile
<1>1. ServiceInv => MemoryFollowsFile
  BY DEF ServiceInv, SyncInv, Storing, MemoryFollowsFile
<1> QED  BY <1>1, ServiceInvariant, PTL

\* An account that was confirmed is an account, through any number of restarts.
THEOREM ConfirmedAccountsLast == Spec => []ToldCanLogIn
<1>1. ServiceInv => ToldCanLogIn
  BY DEF ServiceInv, ToldInv, ToldCanLogIn
<1> QED  BY <1>1, ServiceInvariant, PTL

=============================================================================
