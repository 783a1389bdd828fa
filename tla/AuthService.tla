---------------------------- MODULE AuthService -----------------------------
(***************************************************************************)
(* The authentication service and its one caller, the broker's goroutine   *)
(* of the lobby server, which waits a second for each answer.              *)
(*                                                                         *)
(* A request is a handler of the service.  A handler whose caller has      *)
(* given up may run to its end or be dropped at any of its awaits; a write *)
(* that it has handed to the runtime's blocking threads is done all the    *)
(* same.  The service may be killed and started again.  A record is a name *)
(* and a password; a line that was not written whole takes the next record *)
(* with it, for it has no end of line.                                     *)
(***************************************************************************)
EXTENDS Integers, Sequences, FiniteSets, SequencesExt

CONSTANTS
  Name, Password, \* not empty: empty ones are refused without a look at anything
  Handler,        \* bound: requests in the service at once
  None,
  MaxAsked        \* bound: sign-ups asked for

\* A request in the service; a sign-up takes all the steps, in this order.
Step == {"queued", "opening", "flushing", "written", "failed"}
Job  == [kind : {"login", "signin"}, name : Name, password : Password, step : Step]

ASSUME NoneAssumption == None \notin Name \cup Password \cup Handler \cup Job
ASSUME BoundAssumption == MaxAsked \in Nat

VARIABLES
  up,       \* the service runs
  users,    \* UserRecords in memory: a sequence of <<name, password>>
  lock,     \* the handler that holds the mutex over them, or None
  handlers, \* [Handler -> Job or None]
  file,     \* the records of whole lines in the file
  torn,     \* the file ends in the middle of a line
  writes,   \* records handed to the blocking threads: {<<handler, record>>}
  waiting,  \* the handler whose answer the caller waits for, or None
  asked,    \* sign-ups asked for
  told,     \* history: [Name -> password the caller was told is set up, or None]
  spoiled   \* history: names with a record that memory or file did not get

serviceVars == <<up, users, lock, handlers>>
storageVars == <<file, torn, writes>>
callerVars  == <<waiting, asked>>
history     == <<told, spoiled>>
vars == <<serviceVars, storageVars, callerVars, history>>

Record(h) == <<handlers[h].name, handlers[h].password>>

\* The password of the first record with a name.
Stored(records, n) ==
  LET found == {i \in DOMAIN records : records[i][1] = n}
  IN  IF found = {} THEN None ELSE records[CHOOSE i \in found : \A j \in found : i <= j][2]

Init ==
  /\ up = TRUE
  /\ users = <<>>
  /\ lock = None
  /\ handlers = [h \in Handler |-> None]
  /\ file = <<>> /\ torn = FALSE /\ writes = {}
  /\ waiting = None
  /\ asked = 0
  /\ told = [n \in Name |-> None]
  /\ spoiled = {}

-----------------------------------------------------------------------------
(* The caller                                                              *)

\* A call reaches a running service; otherwise it fails and is answered 0.
Call(h, kind, n, p) ==
  /\ up /\ waiting = None /\ handlers[h] = None
  /\ ~\E w \in writes : w[1] = h
  /\ kind = "signin" => asked < MaxAsked
  /\ asked' = IF kind = "signin" THEN asked + 1 ELSE asked
  /\ handlers' = [handlers EXCEPT ![h] =
                    [kind |-> kind, name |-> n, password |-> p, step |-> "queued"]]
  /\ waiting' = h
  /\ UNCHANGED <<up, users, lock, storageVars, history>>

\* The deadline: the caller answers 0 and takes the next request.
GiveUp ==
  /\ waiting # None
  /\ waiting' = None
  /\ UNCHANGED <<serviceVars, storageVars, asked, history>>

-----------------------------------------------------------------------------
(* The handlers                                                            *)

\* The answer of h, and what the caller learns from it if it still waits.
Answer(h, success) ==
  /\ handlers' = [handlers EXCEPT ![h] = None]
  /\ waiting' = IF waiting = h THEN None ELSE waiting
  /\ told' = IF waiting = h /\ success /\ handlers[h].kind = "signin"
             THEN [told EXCEPT ![handlers[h].name] = handlers[h].password] ELSE told

\* authentificate: the lock is taken and given back without an await between.
LogIn(h) ==
  /\ handlers[h] # None /\ handlers[h].kind = "login"
  /\ lock = None
  /\ Answer(h, Stored(users, handlers[h].name) = handlers[h].password)
  /\ UNCHANGED <<up, users, lock, storageVars, asked, spoiled>>

TakenNever(n) == FALSE

Taken(n) == Stored(users, n) # None

CheckNameLetsGo(h) ==
  /\ handlers[h] # None /\ handlers[h].kind = "signin" /\ handlers[h].step = "queued"
  /\ lock = None
  /\ IF Taken(handlers[h].name)
     THEN Answer(h, FALSE)
     ELSE handlers' = [handlers EXCEPT ![h].step = "opening"] /\ UNCHANGED <<waiting, told>>
  /\ UNCHANGED <<up, users, lock, storageVars, asked, spoiled>>

\* signin up to the opening of the file.
CheckName(h) ==
  /\ handlers[h] # None /\ handlers[h].kind = "signin" /\ handlers[h].step = "queued"
  /\ lock = None
  /\ IF Taken(handlers[h].name)
     THEN Answer(h, FALSE) /\ UNCHANGED lock
     ELSE /\ lock' = h
          /\ handlers' = [handlers EXCEPT ![h].step = "opening"]
          /\ UNCHANGED <<waiting, told>>
  /\ UNCHANGED <<up, users, storageVars, asked, spoiled>>

\* The file is open and the line is handed over, or opening it failed.
HandOver(h) ==
  /\ handlers[h] # None /\ handlers[h].step = "opening"
  /\ \/ /\ writes' = writes \cup {<<h, Record(h)>>}
        /\ handlers' = [handlers EXCEPT ![h].step = "flushing"]
        /\ UNCHANGED <<lock, waiting, told>>
     \/ Answer(h, FALSE) /\ lock' = None /\ UNCHANGED writes
  /\ UNCHANGED <<up, users, file, torn, asked, spoiled>>

\* A blocking thread writes: the whole line, nothing, or a part of it; the
\* handler, if it is still there, learns whether it was the whole line.
Write(w, whole) ==
  /\ w \in writes
  /\ writes' = writes \ {w}
  /\ file' = IF whole /\ ~torn THEN Append(file, w[2]) ELSE file
  /\ torn' \in IF whole THEN {FALSE} ELSE {torn, TRUE}
  /\ LET h == w[1]
         waits == handlers[h] # None /\ handlers[h].step = "flushing"
         kept  == file' # file
         known == waits /\ whole
     IN  /\ handlers' = IF waits
                        THEN [handlers EXCEPT ![h].step = IF whole THEN "written" ELSE "failed"]
                        ELSE handlers
         /\ spoiled' = IF kept = known THEN spoiled ELSE spoiled \cup {w[2][1]}
  /\ UNCHANGED <<up, users, lock, callerVars, told>>

\* The flush has returned: the record is kept and the caller is answered.
FinishAnyway(h) ==
  /\ handlers[h] # None /\ handlers[h].step \in {"written", "failed"}
  /\ users' = Append(users, Record(h))
  /\ Answer(h, handlers[h].step = "written")
  /\ lock' = None
  /\ UNCHANGED <<up, storageVars, asked, spoiled>>

Finish(h) ==
  /\ handlers[h] # None /\ handlers[h].step \in {"written", "failed"}
  /\ users' = IF handlers[h].step = "written" THEN Append(users, Record(h)) ELSE users
  /\ Answer(h, handlers[h].step = "written")
  /\ lock' = None
  /\ UNCHANGED <<up, storageVars, asked, spoiled>>

\* The future of a handler that nobody waits for is dropped, its guard with it.
Drop(h) ==
  /\ handlers[h] # None /\ waiting # h
  /\ handlers' = [handlers EXCEPT ![h] = None]
  /\ lock' = IF lock = h THEN None ELSE lock
  /\ spoiled' = spoiled \cup IF handlers[h].step = "written" THEN {handlers[h].name} ELSE {}
  /\ UNCHANGED <<up, users, storageVars, callerVars, told>>

-----------------------------------------------------------------------------
(* The process                                                             *)

\* Writes that were handed over may be lost.
Kill ==
  /\ up
  /\ up' = FALSE
  /\ users' = <<>> /\ lock' = None
  /\ handlers' = [h \in Handler |-> None]
  /\ writes' = {}
  /\ waiting' = None
  /\ UNCHANGED <<file, torn, asked, history>>

\* load_users skips what it cannot parse.  A start that fails, as on a line that was
\* cut inside a character, is one that does not come.
Start ==
  /\ ~up
  /\ up' = TRUE
  /\ users' = file
  /\ UNCHANGED <<lock, handlers, storageVars, callerVars, history>>

Next ==
  \/ \E h \in Handler :
       \/ \E kind \in {"login", "signin"}, n \in Name, p \in Password : Call(h, kind, n, p)
       \/ LogIn(h) \/ CheckName(h) \/ HandOver(h) \/ Finish(h) \/ Drop(h)
  \/ \E w \in writes, whole \in BOOLEAN : Write(w, whole)
  \/ GiveUp
  \/ Kill \/ Start

Spec == Init /\ [][Next]_vars

-----------------------------------------------------------------------------
(* Properties                                                              *)

\* Types, and that the mutex is held exactly by the sign-up that is storing.
TypeOK ==
  /\ up \in BOOLEAN /\ torn \in BOOLEAN
  /\ users \in Seq(Name \X Password) /\ file \in Seq(Name \X Password)
  /\ handlers \in [Handler -> Job \cup {None}]
  /\ \A h \in Handler : handlers[h] # None => (lock = h) = (handlers[h].step # "queued")
  /\ lock # None => lock \in Handler /\ handlers[lock] # None
  /\ writes \subseteq Handler \X (Name \X Password)
  /\ waiting # None => waiting \in Handler /\ handlers[waiting] # None
  /\ told \in [Name -> Password \cup {None}] /\ spoiled \subseteq Name

\* While no sign-up stores a name, the running service knows of it what it would
\* know after a restart, unless an earlier one was abandoned in the middle or its
\* line was glued to a torn one.
MemoryFollowsFile ==
  \A n \in Name \ spoiled :
    up /\ (lock # None => handlers[lock].name # n) => Stored(users, n) = Stored(file, n)

\* Whoever was told that the account is set up can log in with that password,
\* before and after any number of restarts, with the same exceptions.
ToldCanLogIn ==
  \A n \in Name \ spoiled : up /\ told[n] # None => Stored(users, n) = told[n]

=============================================================================
