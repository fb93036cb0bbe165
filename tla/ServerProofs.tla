---------------------------- MODULE ServerProofs ----------------------------
(***************************************************************************)
(* Proofs about Server, for any number of processes and calls, any inputs  *)
(* and any number of crashes.                                              *)
(***************************************************************************)
EXTENDS Server, TLAPS

Phases == {"down", "started", "clean", "listening", "serving"}
Accesses == [mode : {"read", "write"}, type : PutTypes]
Answers == [code   : {"OK", "Aborted", "NotFound", "Unimplemented"},
            output : Inputs \union {Nil, "Bad configuration", "empty", "fatal", "done"}]
CallRecords ==
  [image : Images \union {Nil}, input : Inputs \union {Nil},
   state : {"idle", "sent", "running", "answered"}, on : Procs \union {Nil},
   todo : Seq(Accesses), at : {"none", "read", "write"}, failed : BOOLEAN,
   waiting : BOOLEAN, reply : Answers \union {Nil}]

Typed ==
  /\ proc \in [Procs -> Phases]
  /\ socket \in Procs \union {Nil, "stale"}
  /\ scheme \in [Procs -> SUBSET GoTypes]
  /\ raced \in [Procs -> BOOLEAN]
  /\ call \in [Calls -> CallRecords]
  /\ crashes \in 0 .. MaxCrashes

(* What main has registered by the time a process serves.                  *)
Registered ==
  \A p \in Procs : /\ proc[p] # "down" => InitTypes \subseteq scheme[p]
                   /\ proc[p] = "serving" => StackGresTypes \subseteq scheme[p]

(* A call k is in a process that serves, and nowhere else.  While it looks *)
(* a type up there is a lookup to be done.  Its first access is the write  *)
(* that registers the type of the alertmanager configuration, and lookups  *)
(* come only after it; one has failed only where the map was damaged.      *)
Sound(k, procs, types, damaged) ==
  /\ k.state # "idle" => k.input \in Inputs
  /\ IF k.state = "running"
     THEN
       /\ k.on \in Procs /\ procs[k.on] = "serving"
       /\ \A i \in DOMAIN k.todo : i > 1 => k.todo[i].mode = "read"
       /\ \A i \in DOMAIN k.todo : k.todo[i].mode = "write" => k.todo[i] = Write
       /\ \/ "AlertmanagerConfig" \in types[k.on]
          \/ k.todo = <<>>
          \/ k.todo[1] = Write
       /\ k.at # "none" => k.todo # <<>>
       /\ k.failed => damaged[k.on]
     ELSE /\ k.on = Nil /\ k.at = "none"
          /\ k.state # "answered" => ~ k.failed

Inv ==
  /\ Typed
  /\ Registered
  /\ \A c \in Calls : Sound(call[c], proc, scheme, raced)
------------------------------------------------------------------------------
LEMMA WorkIsTyped ==
  ASSUME NEW image, NEW input \in Inputs
  PROVE  LET w == Work(image, input)
         IN  /\ w \in Seq(Accesses)
             /\ w # <<>> => w[1] = Write
             /\ \A i \in DOMAIN w : /\ i > 1 => w[i].mode = "read"
                                    /\ w[i].mode = "write" => w[i] = Write
<1> DEFINE r == Reads(Puts[input])
<1>1. Puts[input] \in Seq(PutTypes)
  BY ServerAssumption
<1>2. r \in Seq(Accesses) /\ \A i \in DOMAIN r : r[i].mode = "read"
  <2> DEFINE types == Puts[input]
             f == [i \in 1 .. Len(types) |-> [mode |-> "read", type |-> types[i]]]
  <2>1. DOMAIN types = 1 .. Len(types) /\ \A i \in 1 .. Len(types) : types[i] \in PutTypes
    BY <1>1
  <2>2. r = f
    BY <2>1 DEF Reads
  <2>3. \A i \in 1 .. Len(types) : f[i] \in Accesses /\ f[i].mode = "read"
    BY <2>1 DEF Accesses
  <2>4. Len(types) \in Nat
    BY <1>1
  <2> HIDE DEF r, types
  <2>. QED
    BY <2>2, <2>3, <2>4
<1>3. Write \in Accesses /\ Write.mode = "write"
  BY DEF Write, Accesses, PutTypes
<1> HIDE DEF r
<1>4. CASE image = "postgresql" /\ input # Bad
  <2> DEFINE w == <<Write>> \o r
  <2>1. /\ w \in Seq(Accesses) /\ Len(w) = Len(r) + 1 /\ w[1] = Write
        /\ \A i \in DOMAIN w : i > 1 => w[i] = r[i - 1]
    BY <1>2, <1>3
  <2>2. \A i \in DOMAIN w : i > 1 => w[i].mode = "read"
    BY <2>1, <1>2
  <2>3. Work(image, input) = w
    BY <1>4 DEF Work, r
  <2> HIDE DEF w
  <2>. QED
    BY <2>1, <2>2, <2>3, <1>3
<1>5. CASE ~(image = "postgresql" /\ input # Bad)
  BY <1>5 DEF Work
<1>. QED
  BY <1>4, <1>5

LEMMA InitInv == Init => Inv
  BY ServerAssumption DEF Init, Inv, Typed, Registered, Sound, Idle, CallRecords, Phases, Accesses

(* A record with another value in one field is the record of a call.       *)
LEMMA Updates ==
  ASSUME NEW k \in CallRecords
  PROVE  /\ \A x \in Images : [k EXCEPT !.image = x] \in CallRecords
         /\ \A x \in Inputs : [k EXCEPT !.input = x] \in CallRecords
         /\ \A x \in {"idle", "sent", "running", "answered"} : [k EXCEPT !.state = x] \in CallRecords
         /\ \A x \in Procs \union {Nil} : [k EXCEPT !.on = x] \in CallRecords
         /\ \A x \in Seq(Accesses) : [k EXCEPT !.todo = x] \in CallRecords
         /\ \A x \in {"none", "read", "write"} : [k EXCEPT !.at = x] \in CallRecords
         /\ \A x \in BOOLEAN : [k EXCEPT !.failed = x] \in CallRecords
         /\ \A x \in BOOLEAN : [k EXCEPT !.waiting = x] \in CallRecords
         /\ \A x \in Answers \union {Nil} : [k EXCEPT !.reply = x] \in CallRecords
<1>1. /\ \A x \in Images : [k EXCEPT !.image = x] \in CallRecords
      /\ \A x \in Inputs : [k EXCEPT !.input = x] \in CallRecords
      /\ \A x \in {"idle", "sent", "running", "answered"} : [k EXCEPT !.state = x] \in CallRecords
  BY DEF CallRecords
<1>2. /\ \A x \in Procs \union {Nil} : [k EXCEPT !.on = x] \in CallRecords
      /\ \A x \in Seq(Accesses) : [k EXCEPT !.todo = x] \in CallRecords
      /\ \A x \in {"none", "read", "write"} : [k EXCEPT !.at = x] \in CallRecords
  BY DEF CallRecords
<1>3. /\ \A x \in BOOLEAN : [k EXCEPT !.failed = x] \in CallRecords
      /\ \A x \in BOOLEAN : [k EXCEPT !.waiting = x] \in CallRecords
      /\ \A x \in Answers \union {Nil} : [k EXCEPT !.reply = x] \in CallRecords
  BY DEF CallRecords
<1>. QED
  BY <1>1, <1>2, <1>3

(* A call stays sound in a process that goes on.                           *)
LEMMA SoundStays ==
  ASSUME NEW k, NEW procs, NEW procs2, NEW types, NEW types2, NEW damaged, NEW damaged2,
         Sound(k, procs, types, damaged),
         k.state = "running" => /\ procs2[k.on] = procs[k.on]
                                /\ types[k.on] \subseteq types2[k.on]
                                /\ damaged[k.on] => damaged2[k.on]
  PROVE  Sound(k, procs2, types2, damaged2)
  BY DEF Sound

(* A call that is not running is sound, and it may begin to run.           *)
LEMMA IdleIsSound ==
  ASSUME NEW procs, NEW types, NEW damaged
  PROVE  Sound(Idle, procs, types, damaged)
  BY DEF Sound, Idle
------------------------------------------------------------------------------
(* Steps of main and of the processes.                                     *)
LEMMA MainInv ==
  ASSUME Inv, NEW p \in Procs, Main(p)
  PROVE  Inv'
<1>1. proc[p] # "serving" /\ UNCHANGED call
  BY DEF Main, Start, CleanStart, Listen, Serve
<1>2. /\ proc' \in [Procs -> Phases] /\ scheme' \in [Procs -> SUBSET GoTypes]
      /\ raced' \in [Procs -> BOOLEAN] /\ socket' \in Procs \union {Nil, "stale"}
      /\ \A q \in Procs \ {p} :
           proc'[q] = proc[q] /\ scheme'[q] = scheme[q] /\ raced'[q] = raced[q]
  <2>. InitTypes \in SUBSET GoTypes /\ StackGresTypes \in SUBSET GoTypes
    BY DEF GoTypes
  <2>1. CASE Start(p)
    BY <2>1 DEF Inv, Typed, Phases, Start
  <2>2. CASE CleanStart(p)
    BY <2>2 DEF Inv, Typed, Phases, CleanStart
  <2>3. CASE Listen(p)
    BY <2>3 DEF Inv, Typed, Phases, Listen
  <2>4. CASE Serve(p)
    BY <2>4 DEF Inv, Typed, Phases, Serve
  <2>. QED
    BY <2>1, <2>2, <2>3, <2>4 DEF Main
<1>3. Typed'
  BY <1>2 DEF Inv, Typed, Main, Start, CleanStart, Listen, Serve
<1>4. ASSUME NEW q \in Procs
      PROVE  /\ proc'[q] # "down" => InitTypes \subseteq scheme'[q]
             /\ proc'[q] = "serving" => StackGresTypes \subseteq scheme'[q]
  <2>1. CASE q # p
    BY <2>1, <1>2 DEF Inv, Registered
  <2>2. CASE q = p /\ Start(p)
    BY <2>2 DEF Inv, Typed, Start
  <2>3. CASE q = p /\ (CleanStart(p) \/ Listen(p))
    BY <2>3 DEF Inv, Typed, Registered, CleanStart, Listen
  <2>4. CASE q = p /\ Serve(p)
    BY <2>4 DEF Inv, Typed, Registered, Serve
  <2>. QED
    BY <2>1, <2>2, <2>3, <2>4 DEF Main
<1>5. ASSUME NEW c \in Calls PROVE Sound(call[c], proc, scheme, raced)'
  <2>1. call[c].state = "running" => call[c].on \in Procs \ {p}
    BY <1>1 DEF Inv, Sound
  <2>2. Sound(call[c], proc', scheme', raced')
    BY <2>1, <1>2, SoundStays DEF Inv
  <2>. QED
    BY <2>2, <1>1
<1>. QED
  BY <1>3, <1>4, <1>5 DEF Inv, Registered

LEMMA DieInv ==
  ASSUME Inv, NEW p \in Procs, Die(p)
  PROVE  Inv'
<1>1. Idle \in CallRecords
  BY DEF Idle, CallRecords
<1>2. Typed'
  BY <1>1, ServerAssumption DEF Inv, Die, Typed, Phases
<1>3. Registered'
  BY DEF Inv, Typed, Registered, Die
<1>4. ASSUME NEW c \in Calls PROVE Sound(call[c], proc, scheme, raced)'
  <2>1. CASE call[c].on = p
    BY <2>1, IdleIsSound DEF Die
  <2>2. CASE call[c].on # p
    <3>1. Sound(call[c], proc', scheme', raced')
      BY <2>2, SoundStays DEF Inv, Typed, Sound, Die
    <3>. QED
      BY <2>2, <3>1 DEF Die
  <2>. QED
    BY <2>1, <2>2
<1>. QED
  BY <1>2, <1>3, <1>4 DEF Inv
------------------------------------------------------------------------------
(* Steps of the calls.                                                     *)

(* A step of one call leaves the invariant to its new record.              *)
LEMMA CallStep ==
  ASSUME Inv, NEW c \in Calls, NEW k \in CallRecords,
         call' = [call EXCEPT ![c] = k],
         UNCHANGED <<proc, socket, crashes>>,
         scheme' \in [Procs -> SUBSET GoTypes], raced' \in [Procs -> BOOLEAN],
         \A p \in Procs : scheme[p] \subseteq scheme'[p] /\ (raced[p] => raced'[p]),
         Sound(k, proc', scheme', raced')
  PROVE  Inv'
<1>1. Typed'
  BY DEF Inv, Typed
<1>2. Registered'
  BY DEF Inv, Typed, Registered
<1>3. ASSUME NEW d \in Calls PROVE Sound(call[d], proc, scheme, raced)'
  <2>1. CASE d = c
    BY <2>1 DEF Inv, Typed
  <2>2. CASE d # c
    <3>1. Sound(call[d], proc', scheme', raced')
      BY SoundStays DEF Inv, Sound
    <3>. QED
      BY <3>1, <2>2 DEF Inv, Typed
  <2>. QED
    BY <2>1, <2>2
<1>. QED
  BY <1>1, <1>2, <1>3 DEF Inv

LEMMA SendInv ==
  ASSUME Inv, NEW c \in Calls, NEW image \in Images, NEW input \in Inputs,
         Send(c, image, input)
  PROVE  Inv'
<1> DEFINE k == [Idle EXCEPT !.image = image, !.input = input,
                             !.state = "sent", !.waiting = TRUE]
<1>1. k \in CallRecords
  <2>1. Idle \in CallRecords
    BY DEF Idle, CallRecords
  <2>. QED
    BY <2>1, Updates
<1>2. Sound(k, proc', scheme', raced')
  BY DEF Sound, Idle
<1>3. /\ call' = [call EXCEPT ![c] = k]
      /\ UNCHANGED <<proc, socket, scheme, raced, crashes>>
  BY DEF Send
<1> HIDE DEF k
<1>. QED
  BY <1>1, <1>2, <1>3, CallStep DEF Inv, Typed

LEMMA ForgetInv ==
  ASSUME Inv, NEW c \in Calls, call' = [call EXCEPT ![c] = Idle],
         UNCHANGED <<proc, socket, scheme, raced, crashes>>
  PROVE  Inv'
<1>1. Idle \in CallRecords
  BY DEF Idle, CallRecords
<1>2. Sound(Idle, proc', scheme', raced')
  BY IdleIsSound
<1>. QED
  BY <1>1, <1>2, CallStep DEF Inv, Typed

LEMMA AcceptInv ==
  ASSUME Inv, NEW c \in Calls, Accept(c)
  PROVE  Inv'
<1>1. CASE call' = [call EXCEPT ![c] = Idle]
  BY <1>1, ForgetInv DEF Accept
<1>2. CASE socket \in Procs /\ proc[socket] = "serving"
  <2> DEFINE w == Work(call[c].image, call[c].input)
             k == [call[c] EXCEPT !.state = "running", !.on = socket, !.todo = w]
  <2>1. /\ w \in Seq(Accesses)
        /\ w # <<>> => w[1] = Write
        /\ \A i \in DOMAIN w : /\ i > 1 => w[i].mode = "read"
                               /\ w[i].mode = "write" => w[i] = Write
    BY WorkIsTyped DEF Inv, Accept, Sound
  <2> HIDE DEF w
  <2>2. k \in CallRecords
    BY <1>2, <2>1, Updates DEF Inv, Typed
  <2>3. Sound(k, proc', scheme', raced')
    <3>1. /\ k.on = socket /\ k.todo = w /\ k.state = "running"
          /\ k.input = call[c].input /\ k.at = call[c].at /\ k.failed = call[c].failed
      BY <2>2 DEF Inv, Typed, CallRecords
    <3>2. call[c].input \in Inputs /\ call[c].at = "none" /\ ~ call[c].failed
      BY DEF Inv, Typed, Sound, Accept
    <3> HIDE DEF k
    <3>. QED
      BY <1>2, <2>1, <3>1, <3>2 DEF Accept, Sound
  <2>4. call' = [call EXCEPT ![c] = k]
    BY <1>2 DEF Accept, Inv, Typed, w
  <2> HIDE DEF k
  <2>. QED
    BY <2>2, <2>3, <2>4, CallStep DEF Inv, Typed, Accept
<1>. QED
  BY <1>1, <1>2 DEF Accept

LEMMA BeginAccessInv ==
  ASSUME Inv, NEW c \in Calls, BeginAccess(c)
  PROVE  Inv'
<1> DEFINE mode == Head(call[c].todo).mode
           k == [call[c] EXCEPT !.at = mode]
<1>1. call[c] \in CallRecords /\ call[c].on \in Procs /\ call[c].todo # <<>>
  BY DEF Inv, Typed, Sound, BeginAccess, Running
<1>2. mode \in {"read", "write"}
  <2>1. call[c].todo \in Seq(Accesses)
    BY <1>1 DEF CallRecords
  <2>2. Head(call[c].todo) \in Accesses
    BY <1>1, <2>1
  <2>. QED
    BY <2>2 DEF Accesses
<1>3. k \in CallRecords
  BY <1>1, <1>2, Updates
<1>4. /\ raced' \in [Procs -> BOOLEAN]
      /\ \A p \in Procs : raced[p] => raced'[p]
  BY <1>1 DEF BeginAccess, Inv, Typed
<1>5. Sound(k, proc', scheme', raced')
  <2>1. Sound(call[c], proc', scheme', raced')
    <3>1. proc' = proc /\ scheme' = scheme /\ Sound(call[c], proc, scheme, raced)
      BY DEF BeginAccess, Inv
    <3>. QED
      BY <1>1, <1>4, <3>1, SoundStays
  <2>2. /\ k.on = call[c].on /\ k.todo = call[c].todo /\ k.state = call[c].state
        /\ k.input = call[c].input /\ k.failed = call[c].failed
    BY <1>1 DEF CallRecords
  <2> HIDE DEF k
  <2>. QED
    BY <1>1, <2>1, <2>2 DEF Sound, BeginAccess, Running
<1>6. call' = [call EXCEPT ![c] = k]
  BY DEF BeginAccess, Inv, Typed
<1> HIDE DEF k
<1>. QED
  BY <1>3, <1>4, <1>5, <1>6, CallStep DEF Inv, Typed, BeginAccess

LEMMA EndAccessInv ==
  ASSUME Inv, NEW c \in Calls, EndAccess(c)
  PROVE  Inv'
<1> DEFINE todo == call[c].todo
           a == Head(todo)
           p == call[c].on
           k(miss) == [call[c] EXCEPT !.at = "none", !.todo = Tail(@), !.failed = @ \/ miss]
<1>1. call[c] \in CallRecords /\ Sound(call[c], proc, scheme, raced)
  BY DEF Inv, Typed
<1>2. p \in Procs /\ proc[p] = "serving" /\ todo # <<>> /\ call[c].state = "running"
  BY <1>1 DEF Sound, EndAccess, Running
<1>3. /\ Tail(todo) \in Seq(Accesses)
      /\ \A i \in DOMAIN Tail(todo) : Tail(todo)[i] = todo[i + 1] /\ i + 1 \in DOMAIN todo /\ i + 1 > 1
      /\ a = todo[1] /\ a \in Accesses /\ 1 \in DOMAIN todo
  BY <1>1, <1>2 DEF CallRecords
<1>4. \A i \in DOMAIN Tail(todo) : Tail(todo)[i].mode = "read"
  BY <1>1, <1>2, <1>3 DEF Sound
<1>5. ASSUME NEW miss \in BOOLEAN
      PROVE  /\ k(miss) \in CallRecords
             /\ k(miss).on = p /\ k(miss).todo = Tail(todo) /\ k(miss).at = "none"
             /\ k(miss).state = "running" /\ k(miss).input = call[c].input
             /\ k(miss).failed = (call[c].failed \/ miss)
  <2>1. (call[c].failed \/ miss) \in BOOLEAN
    OBVIOUS
  <2>2. k(miss) \in CallRecords
    <3>1. [call[c] EXCEPT !.at = "none"] \in CallRecords
      BY <1>1, Updates
    <3>2. [call[c] EXCEPT !.at = "none", !.todo = Tail(todo)] \in CallRecords
      BY <1>3, <3>1, Updates
    <3>3. [call[c] EXCEPT !.at = "none", !.todo = Tail(todo), !.failed = (call[c].failed \/ miss)]
            \in CallRecords
      BY <2>1, <3>2, Updates
    <3>. QED
      BY <3>3, <1>1 DEF CallRecords
  <2>. QED
    BY <1>1, <1>2, <2>2 DEF CallRecords
<1>6. CASE /\ a.mode = "write" /\ scheme' = [scheme EXCEPT ![p] = @ \union {a.type}]
           /\ call' = [call EXCEPT ![c] = k(FALSE)]
  <2>1. a = Write
    BY <1>1, <1>2, <1>3, <1>6 DEF Sound
  <2>2. /\ scheme' \in [Procs -> SUBSET GoTypes] /\ "AlertmanagerConfig" \in scheme'[p]
        /\ \A q \in Procs : scheme[q] \subseteq scheme'[q]
    BY <1>2, <1>6, <2>1 DEF Inv, Typed, Write, GoTypes
  <2>3. Sound(k(FALSE), proc', scheme', raced')
    <3>1. /\ k(FALSE).on = p /\ k(FALSE).todo = Tail(todo) /\ k(FALSE).at = "none"
          /\ k(FALSE).state = "running" /\ k(FALSE).input = call[c].input
          /\ k(FALSE).failed => call[c].failed
      BY <1>5
    <3>2. call[c].input \in Inputs /\ (call[c].failed => raced[p])
      BY <1>1, <1>2 DEF Sound
    <3>3. proc'[p] = "serving" /\ raced' = raced
      BY <1>2 DEF EndAccess
    <3> HIDE DEF k, todo, p
    <3>4. k(FALSE).state = "running" /\ k(FALSE).input \in Inputs
      BY <3>1, <3>2
    <3>5. k(FALSE).on \in Procs /\ proc'[k(FALSE).on] = "serving" /\ "AlertmanagerConfig" \in scheme'[k(FALSE).on]
      BY <1>2, <2>2, <3>1, <3>3
    <3>6. \A i \in DOMAIN k(FALSE).todo : k(FALSE).todo[i].mode = "read"
      BY <1>4, <3>1
    <3>7. k(FALSE).at = "none" /\ (k(FALSE).failed => raced'[k(FALSE).on])
      BY <3>1, <3>2, <3>3
    <3>. QED
      BY <3>4, <3>5, <3>6, <3>7 DEF Sound
  <2>4. k(FALSE) \in CallRecords
    BY <1>5
  <2> HIDE DEF k
  <2>. QED
    BY <1>6, <2>2, <2>3, <2>4, CallStep DEF Inv, Typed, EndAccess
<1>7. ASSUME NEW miss \in BOOLEAN, a.mode = "read", miss => a.type \notin scheme[p] \/ raced[p],
             call' = [call EXCEPT ![c] = k(miss)], UNCHANGED scheme
      PROVE  Inv'
  <2>1. a.type \in scheme[p]
    <3>1. InitTypes \subseteq scheme[p] /\ StackGresTypes \subseteq scheme[p]
      BY <1>2 DEF Inv, Registered
    <3>2. "AlertmanagerConfig" \in scheme[p]
      BY <1>1, <1>2, <1>3, <1>7 DEF Sound, Write
    <3>. QED
      BY <1>3, <3>1, <3>2 DEF Accesses, PutTypes, InitTypes, StackGresTypes
  <2>2. Sound(k(miss), proc', scheme', raced')
    <3>1. /\ k(miss).on = p /\ k(miss).todo = Tail(todo) /\ k(miss).at = "none"
          /\ k(miss).state = "running" /\ k(miss).input = call[c].input
          /\ k(miss).failed => call[c].failed \/ miss
      BY <1>5
    <3>2. call[c].input \in Inputs /\ (call[c].failed => raced[p])
      BY <1>1, <1>2 DEF Sound
    <3>3. "AlertmanagerConfig" \in scheme[p]
      BY <1>1, <1>2, <1>3, <1>7 DEF Sound, Write
    <3>4. proc'[p] = "serving" /\ raced' = raced /\ scheme' = scheme
      BY <1>2, <1>7 DEF EndAccess
    <3>5. miss => raced[p]
      BY <1>7, <2>1
    <3> HIDE DEF k, todo, p
    <3>6. k(miss).state = "running" /\ k(miss).input \in Inputs
      BY <3>1, <3>2
    <3>7. k(miss).on \in Procs /\ proc'[k(miss).on] = "serving" /\ "AlertmanagerConfig" \in scheme'[k(miss).on]
      BY <1>2, <3>1, <3>3, <3>4
    <3>8. \A i \in DOMAIN k(miss).todo : k(miss).todo[i].mode = "read"
      BY <1>4, <3>1
    <3>9. k(miss).at = "none" /\ (k(miss).failed => raced'[k(miss).on])
      BY <3>1, <3>2, <3>4, <3>5
    <3>. QED
      BY <3>6, <3>7, <3>8, <3>9 DEF Sound
  <2>3. k(miss) \in CallRecords
    BY <1>5
  <2> HIDE DEF k
  <2>. QED
    BY <1>7, <2>2, <2>3, CallStep DEF Inv, Typed, EndAccess
<1>. QED
  BY <1>6, <1>7 DEF EndAccess

LEMMA AnswerInv ==
  ASSUME Inv, NEW c \in Calls, Answer(c)
  PROVE  Inv'
<1> DEFINE reply == IF call[c].waiting THEN Received(Returned(c)) ELSE Nil
           k == [call[c] EXCEPT !.state = "answered", !.on = Nil, !.reply = reply]
<1>1. call[c] \in CallRecords /\ Sound(call[c], proc, scheme, raced)
  BY DEF Inv, Typed
<1>2. call[c].input \in Inputs /\ call[c].at = "none"
  BY <1>1 DEF Sound, Answer, Running
<1>3. Returned(c) \in Answers
  BY <1>1, <1>2 DEF Returned, Answers, CallRecords, Images
<1>4. Received(Returned(c)) \in Answers
  BY <1>3 DEF Received, Answers
<1>5. reply \in Answers \union {Nil}
  BY <1>4
<1> HIDE DEF reply
<1>6. k \in CallRecords
  BY <1>1, <1>5, Updates
<1>7. k.on = Nil /\ k.state = "answered" /\ k.at = "none" /\ k.input \in Inputs
  BY <1>1, <1>2 DEF CallRecords
<1>8. call' = [call EXCEPT ![c] = k]
  BY DEF Answer, reply
<1> HIDE DEF k
<1>9. Sound(k, proc', scheme', raced')
  BY <1>7 DEF Sound
<1>. QED
  BY <1>6, <1>8, <1>9, CallStep DEF Inv, Typed, Answer

LEMMA DeadlineInv ==
  ASSUME Inv, NEW c \in Calls, Deadline(c)
  PROVE  Inv'
<1> DEFINE k == [call[c] EXCEPT !.waiting = FALSE]
<1>1. CASE ~ Running(c)
  BY <1>1, ForgetInv DEF Deadline
<1>2. CASE Running(c)
  <2>1. call[c] \in CallRecords /\ Sound(call[c], proc, scheme, raced)
    BY DEF Inv, Typed
  <2>2. k \in CallRecords
    BY <2>1, Updates
  <2>3. /\ k.on = call[c].on /\ k.todo = call[c].todo /\ k.state = call[c].state
        /\ k.input = call[c].input /\ k.failed = call[c].failed /\ k.at = call[c].at
    BY <2>1 DEF CallRecords
  <2>4. call' = [call EXCEPT ![c] = k] /\ UNCHANGED <<proc, socket, scheme, raced, crashes>>
    BY <1>2 DEF Deadline, Inv, Typed
  <2> HIDE DEF k
  <2>5. Sound(k, proc', scheme', raced')
    BY <2>1, <2>3, <2>4 DEF Sound
  <2>. QED
    BY <2>2, <2>4, <2>5, CallStep DEF Inv, Typed
<1>. QED
  BY <1>1, <1>2

LEMMA NextInv == Inv /\ [Next]_vars => Inv'
<1> SUFFICES ASSUME Inv, [Next]_vars PROVE Inv'
  OBVIOUS
<1>1. ASSUME NEW p \in Procs, Main(p) \/ Crash(p) PROVE Inv'
  BY <1>1, MainInv, DieInv DEF Crash
<1>2. ASSUME NEW c \in Calls, NEW image \in Images, NEW input \in Inputs, Send(c, image, input)
      PROVE  Inv'
  BY <1>2, SendInv
<1>3. ASSUME NEW c \in Calls, Handle(c) PROVE Inv'
  BY <1>3, AcceptInv, BeginAccessInv, EndAccessInv, AnswerInv DEF Handle
<1>4. ASSUME NEW c \in Calls, MapThrow(c) PROVE Inv'
  <2>1. call[c].on \in Procs
    BY <1>4 DEF MapThrow, Inv, Sound, Running
  <2>. QED
    BY <1>4, <2>1, DieInv DEF MapThrow
<1>5. ASSUME NEW c \in Calls, Deadline(c) PROVE Inv'
  BY <1>5, DeadlineInv
<1>6. ASSUME NEW c \in Calls, Finish(c) PROVE Inv'
  BY <1>6, ForgetInv DEF Finish
<1>7. CASE UNCHANGED vars
  BY <1>7 DEF vars, Inv, Typed, Registered, Sound
<1>. QED
  BY <1>1, <1>2, <1>3, <1>4, <1>5, <1>6, <1>7 DEF Next

LEMMA InvHolds == Spec => []Inv
  BY InitInv, NextInv, PTL DEF Spec
------------------------------------------------------------------------------
(* A function finds every type that it puts, in every process that serves  *)
(* and for every input, unless the map of the scheme was written during an *)
(* access: main registers the StackGres types before it serves             *)
(* (main.go:116-125), the packages the rest (runtime.go:46-50), and        *)
(* AddUserAlerting its own before the functions look anything up           *)
(* (alerting.go:23).                                                       *)
THEOREM LookupsAlwaysSucceed == Spec => []LookupsSucceed
<1>1. Inv => LookupsSucceed
  BY DEF Inv, LookupsSucceed, Sound, Running
<1>. QED
  BY <1>1, InvHolds, PTL
------------------------------------------------------------------------------
(* Where the server runs: alone in its container, or behind an abstract    *)
(* address, which the kernel gives to one process at a time.  A file is    *)
(* taken away by the cleanStart of any other process.                      *)
Exclusive == AbstractSocket \/ \E p \in Procs : Procs = {p}

(* A process that has got the socket keeps it until it ends.               *)
Owner == \A p \in Procs : proc[p] \in {"listening", "serving"} => socket = p

LEMMA OwnerInit == Init => Owner
  BY DEF Init, Owner

LEMMA OwnerNext ==
  ASSUME Exclusive, Inv, Owner, [Next]_vars
  PROVE  Owner'
<1>1. ASSUME NEW p \in Procs, Start(p) PROVE Owner'
  BY <1>1 DEF Inv, Typed, Owner, Start
<1>2. ASSUME NEW p \in Procs, CleanStart(p) PROVE Owner'
  BY <1>2 DEF Exclusive, Inv, Typed, Owner, CleanStart
<1>3. ASSUME NEW p \in Procs, Listen(p) PROVE Owner'
  BY <1>3, ServerAssumption DEF Inv, Typed, Owner, Listen
<1>4. ASSUME NEW p \in Procs, Serve(p) PROVE Owner'
  BY <1>4 DEF Inv, Typed, Owner, Serve
<1>5. ASSUME NEW p \in Procs, Die(p) PROVE Owner'
  BY <1>5 DEF Inv, Typed, Owner, Die
<1>6. CASE UNCHANGED <<proc, socket>>
  BY <1>6 DEF Owner
<1>7. ASSUME NEW c \in Calls, MapThrow(c) PROVE Owner'
  <2>1. call[c].on \in Procs
    BY <1>7 DEF MapThrow, Inv, Sound, Running
  <2>. QED
    BY <1>5, <1>7, <2>1 DEF MapThrow
<1>. QED
  BY <1>1, <1>2, <1>3, <1>4, <1>5, <1>6, <1>7
     DEF Next, vars, Main, Crash, Handle, Send, Accept, BeginAccess, EndAccess, Answer, Deadline, Finish

(* The state of the server has its types, a call is served by one process  *)
(* and only while it runs, and a process that listens is the one that the  *)
(* socket leads to, so that no two serve at a time, whatever crashes       *)
(* (main.go:107-138), for a server that is alone or behind an abstract     *)
(* address.                                                                *)
THEOREM ServerTypesCorrect ==
  ASSUME Exclusive
  PROVE  Spec => []TypeOK
<1>1. Inv /\ Owner => TypeOK
  <2>. SUFFICES ASSUME Inv, Owner PROVE TypeOK
    OBVIOUS
  <2>1. \A c \in Calls :
          /\ call[c].state \in {"idle", "sent", "running", "answered"}
          /\ call[c].on \in IF Running(c) THEN Procs ELSE {Nil}
          /\ call[c].at # "none" => Running(c) /\ call[c].todo # <<>>
    BY DEF Inv, Typed, CallRecords, Sound, Running
  <2>. QED
    BY <2>1 DEF TypeOK, Inv, Typed, Owner, Phases
<1>2. Owner /\ Inv /\ [Next]_vars => Owner'
  BY OwnerNext
<1>. QED
  BY <1>1, <1>2, OwnerInit, InvHolds, PTL DEF Spec
------------------------------------------------------------------------------
(* What it takes for a race, and for a call to end.                        *)

(* A process serves one call after the other. *)
OneAtATime ==
  \A c, d \in Calls : Running(c) /\ Running(d) /\ call[c].on = call[d].on => c = d

CompleteReplies == \A c \in Calls : call[c].reply # Nil /\ call[c].reply.code = "OK" => call[c].reply.output = "done"

LEMMA RacesNeedTwo ==
  ASSUME Inv, OneAtATime, NoDataRace, [Next]_vars
  PROVE  NoDataRace'
<1>1. raced \in [Procs -> BOOLEAN]
  BY DEF Inv, Typed
<1>2. ASSUME NEW p \in Procs, Start(p) PROVE NoDataRace'
  BY <1>1, <1>2 DEF Start, NoDataRace
<1>3. ASSUME NEW c \in Calls, BeginAccess(c) PROVE NoDataRace'
  <2>1. \A mode : Conflicting(c, mode) = {}
    BY <1>3 DEF OneAtATime, Conflicting, BeginAccess
  <2>. QED
    BY <1>1, <1>3, <2>1 DEF BeginAccess, NoDataRace
<1>4. CASE UNCHANGED raced
  BY <1>4 DEF NoDataRace
<1>. QED
  BY <1>2, <1>3, <1>4 DEF Next, vars, Main, CleanStart, Listen, Serve, Crash, Die, Handle, Send, Accept,
     EndAccess, Answer, MapThrow, Deadline, Finish

LEMMA RepliesStayComplete ==
  ASSUME Inv, NoDataRace, CompleteReplies, [Next]_vars
  PROVE  CompleteReplies'
<1>1. call \in [Calls -> CallRecords]
  BY DEF Inv, Typed
<1>2. ASSUME NEW c \in Calls, Answer(c) PROVE CompleteReplies'
  <2> DEFINE reply == IF call[c].waiting THEN Received(Returned(c)) ELSE Nil
  <2>1. ~ call[c].failed
    BY <1>2 DEF Inv, Sound, NoDataRace, Answer, Running
  <2>2. reply # Nil /\ reply.code = "OK" => reply.output = "done"
    BY <2>1 DEF Returned, Received
  <2>. HIDE DEF reply
  <2>3. call'[c].reply = reply /\ \A d \in Calls : d # c => call'[d] = call[d]
    BY <1>1, <1>2 DEF Answer, reply, CallRecords
  <2>. QED
    BY <2>2, <2>3 DEF CompleteReplies
<1>3. CASE \A c \in Calls : call'[c].reply \in {call[c].reply, Nil}
  BY <1>3 DEF CompleteReplies
<1>4. ASSUME NEW c \in Calls, NEW k \in CallRecords, call' = [call EXCEPT ![c] = k],
             k.reply \in {call[c].reply, Nil}
      PROVE  CompleteReplies'
  BY <1>1, <1>4 DEF CompleteReplies
<1>5. Idle.reply = Nil
  BY DEF Idle
<1>6. ASSUME NEW p \in Procs, Die(p) PROVE CompleteReplies'
  BY <1>3, <1>5, <1>6 DEF Die
<1>7. ASSUME NEW c \in Calls, Handle(c), ~Answer(c) PROVE CompleteReplies'
  <2>1. CASE Accept(c)
    <3>1. call'[c].reply \in {call[c].reply, Nil} /\ \A d \in Calls \ {c} : call'[d] = call[d]
      BY <1>1, <1>5, <2>1 DEF Accept, CallRecords
    <3>. QED
      BY <1>3, <3>1
  <2>2. CASE BeginAccess(c)
    <3>1. call'[c].reply = call[c].reply /\ \A d \in Calls \ {c} : call'[d] = call[d]
      BY <1>1, <2>2 DEF BeginAccess, CallRecords
    <3>. QED
      BY <1>3, <3>1
  <2>3. CASE EndAccess(c)
    <3>1. PICK miss \in BOOLEAN :
            call' = [call EXCEPT ![c].at = "none", ![c].todo = Tail(@), ![c].failed = @ \/ miss]
      BY <2>3 DEF EndAccess
    <3>2. call'[c].reply = call[c].reply /\ \A d \in Calls \ {c} : call'[d] = call[d]
      BY <1>1, <3>1 DEF CallRecords
    <3>. QED
      BY <1>3, <3>2
  <2>. QED
    BY <1>7, <2>1, <2>2, <2>3 DEF Handle
<1>8. ASSUME NEW c \in Calls, Deadline(c) \/ Finish(c) \/ \E image \in Images, input \in Inputs : Send(c, image, input)
      PROVE  CompleteReplies'
  <2>1. call'[c].reply \in {call[c].reply, Nil} /\ \A d \in Calls \ {c} : call'[d] = call[d]
    <3>1. CASE Deadline(c)
      BY <1>1, <1>5, <3>1 DEF Deadline, CallRecords
    <3>2. CASE Finish(c)
      BY <1>1, <1>5, <3>2 DEF Finish
    <3>3. ASSUME NEW image \in Images, NEW input \in Inputs, Send(c, image, input)
          PROVE  call'[c].reply \in {call[c].reply, Nil} /\ \A d \in Calls \ {c} : call'[d] = call[d]
      BY <1>1, <3>3 DEF Send, Idle
    <3>. QED
      BY <1>8, <3>1, <3>2, <3>3
  <2>. QED
    BY <1>3, <2>1
<1>9. ASSUME NEW c \in Calls, MapThrow(c) PROVE CompleteReplies'
  <2>1. call[c].on \in Procs
    BY <1>9 DEF MapThrow, Inv, Sound, Running
  <2>. QED
    BY <1>6, <1>9, <2>1 DEF MapThrow
<1>10. CASE UNCHANGED call
  BY <1>3, <1>10
<1>. QED
  BY <1>2, <1>6, <1>7, <1>8, <1>9, <1>10
     DEF Next, vars, Main, Start, CleanStart, Listen, Serve, Crash

(* The race that server_race shows needs two calls in one process.  One    *)
(* that serves them one by one, as main does not ask of grpc (main.go:121),*)
(* has none, whatever else happens: no lookup fails, and each OK is that   *)
(* of a complete answer.                                                   *)
THEOREM RaceNeedsTwoCalls ==
  Spec => ([]OneAtATime => [](NoDataRace /\ CompleteReplies /\ \A c \in Calls : ~(Running(c) /\ call[c].failed)))
<1>1. Init => NoDataRace /\ CompleteReplies
  BY DEF Init, NoDataRace, CompleteReplies, Idle
<1>2. Inv /\ NoDataRace => \A c \in Calls : ~(Running(c) /\ call[c].failed)
  BY DEF Inv, Sound, NoDataRace, Running
<1>. QED
  BY <1>1, <1>2, RacesNeedTwo, RepliesStayComplete, InvHolds, PTL DEF Spec

(* The accesses of a call that are still to be begun or ended. *)
ToDo(c) == 2 * Len(call[c].todo) - (IF call[c].at = "none" THEN 0 ELSE 1)

(* A step of a call that goes on running is one access less to begin or to *)
(* end; only its client may come in between, by giving up.                 *)
CallGoesOn(c) ==
  Running(c) /\ Running(c)' =>
    /\ ToDo(c) \in Nat
    /\ \/ ToDo(c)' = ToDo(c) - 1
       \/ call'[c] = call[c] \/ call'[c] = [call[c] EXCEPT !.waiting = FALSE]

LEMMA StepCallGoesOn ==
  ASSUME Inv, [Next]_vars, NEW c \in Calls
  PROVE  CallGoesOn(c)
<1>. SUFFICES ASSUME Running(c), Running(c)' PROVE CallGoesOn(c)
  BY DEF CallGoesOn
<1>1. call \in [Calls -> CallRecords] /\ call[c] \in CallRecords
  BY DEF Inv, Typed
<1>2. call[c].todo \in Seq(Accesses) /\ (call[c].at # "none" => call[c].todo # <<>>)
  BY <1>1 DEF Inv, Sound, CallRecords
<1>3. ToDo(c) \in Nat
  BY <1>2 DEF ToDo
<1>4. CASE call'[c] = call[c]
  BY <1>3, <1>4 DEF CallGoesOn
<1>5. ASSUME NEW d \in Calls, BeginAccess(d) PROVE CallGoesOn(c)
  <2>1. CASE d = c
    <3>. DEFINE mode == Head(call[c].todo).mode
    <3>1. Head(call[c].todo) \in Accesses
      BY <1>2, <1>5, <2>1 DEF BeginAccess
    <3>2. mode \in {"read", "write"} /\ call' = [call EXCEPT ![c].at = mode]
      BY <1>5, <2>1, <3>1 DEF BeginAccess, Accesses
    <3>. HIDE DEF mode
    <3>3. call'[c].at # "none" /\ call'[c].todo = call[c].todo /\ call[c].at = "none"
      BY <1>1, <1>5, <2>1, <3>2 DEF CallRecords, BeginAccess
    <3>4. ToDo(c)' = ToDo(c) - 1
      BY <1>2, <3>3 DEF ToDo
    <3>. QED
      BY <1>3, <3>4 DEF CallGoesOn
  <2>2. CASE d # c
    BY <1>1, <1>4, <1>5, <2>2 DEF BeginAccess
  <2>. QED
    BY <2>1, <2>2
<1>6. ASSUME NEW d \in Calls, EndAccess(d) PROVE CallGoesOn(c)
  <2>1. PICK miss \in BOOLEAN :
          call' = [call EXCEPT ![d].at = "none", ![d].todo = Tail(@), ![d].failed = @ \/ miss]
    BY <1>6 DEF EndAccess
  <2>2. CASE d = c
    <3>1. call'[c].at = "none" /\ call'[c].todo = Tail(call[c].todo) /\ call[c].at # "none"
      BY <1>1, <1>6, <2>1, <2>2 DEF CallRecords, EndAccess
    <3>2. Len(Tail(call[c].todo)) = Len(call[c].todo) - 1 /\ Len(call[c].todo) \in Nat
      BY <1>2, <3>1
    <3>3. ToDo(c)' = ToDo(c) - 1
      BY <3>1, <3>2 DEF ToDo
    <3>. QED
      BY <1>3, <3>3 DEF CallGoesOn
  <2>3. CASE d # c
    BY <1>1, <1>4, <2>1, <2>3
  <2>. QED
    BY <2>2, <2>3
<1>7. ASSUME NEW d \in Calls, Accept(d) PROVE CallGoesOn(c)
  <2>1. d # c
    BY <1>7 DEF Accept, Running
  <2>. QED
    BY <1>1, <1>4, <1>7, <2>1 DEF Accept
<1>8. ASSUME NEW d \in Calls, Answer(d) PROVE CallGoesOn(c)
  <2>1. call'[d].state = "answered" /\ \A e \in Calls \ {d} : call'[e] = call[e]
    BY <1>1, <1>8 DEF Answer, CallRecords
  <2>. QED
    BY <1>4, <2>1 DEF Running
<1>9. ASSUME NEW d \in Calls, Deadline(d) PROVE CallGoesOn(c)
  <2>1. CASE d = c
    BY <1>1, <1>3, <1>9, <2>1 DEF Deadline, CallGoesOn
  <2>2. CASE d # c
    BY <1>1, <1>4, <1>9, <2>2 DEF Deadline
  <2>. QED
    BY <2>1, <2>2
<1>10. ASSUME NEW d \in Calls, Finish(d) \/ \E image \in Images, input \in Inputs : Send(d, image, input)
       PROVE  CallGoesOn(c)
  <2>1. d # c
    BY <1>10 DEF Finish, Send, Running
  <2>. QED
    BY <1>1, <1>4, <1>10, <2>1 DEF Finish, Send
<1>11. ASSUME NEW p \in Procs, Die(p) PROVE CallGoesOn(c)
  <2>1. call'[c] \in {call[c], Idle}
    BY <1>11 DEF Die
  <2>. QED
    BY <1>4, <2>1 DEF Running, Idle
<1>12. ASSUME NEW d \in Calls, MapThrow(d) PROVE CallGoesOn(c)
  <2>1. call[d].on \in Procs
    BY <1>12 DEF MapThrow, Inv, Sound, Running
  <2>. QED
    BY <1>11, <1>12, <2>1 DEF MapThrow
<1>. QED
  BY <1>4, <1>5, <1>6, <1>7, <1>8, <1>9, <1>10, <1>11, <1>12
     DEF Next, vars, Main, Start, CleanStart, Listen, Serve, Crash, Handle

(* No step adds to the work of a call that has been accepted, also when    *)
(* its client has given up (main.go:65-88 does not look at the context):   *)
(* the safety half of CallsEnd, which needs no fairness.                   *)
THEOREM CallsGoOn == Spec => [][\A c \in Calls : CallGoesOn(c)]_vars
<1>1. Inv /\ [Next]_vars => [\A c \in Calls : CallGoesOn(c)]_vars
  BY StepCallGoesOn
<1>. QED
  BY <1>1, InvHolds, PTL DEF Spec
=============================================================================
