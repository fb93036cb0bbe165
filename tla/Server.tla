------------------------------- MODULE Server -------------------------------
(***************************************************************************)
(* The gRPC server (main.go): processes that compete for one socket, and   *)
(* the calls of RunFunction that a process serves, each in a goroutine of  *)
(* its own.  The goroutines of a process share its runtime.Scheme, a Go    *)
(* map without a lock.  An access to it has a beginning and an end, so     *)
(* that two of them may overlap.                                           *)
(*                                                                         *)
(* A call is reduced to what it does to the scheme: the functions it runs  *)
(* are the subject of Pipeline.                                            *)
(***************************************************************************)
EXTENDS Naturals, SequencesExt, FiniteSets

CONSTANTS
  Procs,           \* server processes: one, and one that replaces it
  Calls,           \* calls that may be under way at the same time
  Nil,
  Inputs,          \* FunctionIOs, Bad among them
  Bad,             \* bytes that are no FunctionIO
  Puts,            \* the Go types that the functions put for each input
  AbstractSocket,  \* TRUE for "@crossplane/fn/default.sock", FALSE for a file
  MaxCrashes       \* bound on the crashes of a behaviour

(* The Go types that the functions of postgresFunctions put: the manifests *)
(* and the kube objects that hold them.                                    *)
PutTypes == {"AlertmanagerConfig", "Secret", "SGCluster", "SGDbOps", "Object"}

ASSUME ServerAssumption ==
  /\ AbstractSocket \in BOOLEAN /\ MaxCrashes \in Nat
  /\ Nil \notin Procs /\ "stale" \notin Procs /\ Bad \in Inputs
  /\ Puts \in [Inputs -> Seq(PutTypes)]

VARIABLES
  proc,     \* how far main has come in each process
  socket,   \* the process the socket leads to, "stale", or Nil
  scheme,   \* the types registered in each process
  raced,    \* whether a write of the scheme has overlapped with an access
  call,     \* the calls, see Idle
  crashes   \* how often a process has died

vars == <<proc, socket, scheme, raced, call, crashes>>

(* A call: its request, what has become of it, the process that serves it, *)
(* the accesses to the scheme that are left, the access under way, whether *)
(* a lookup failed, whether the client still waits, and what it received.  *)
Idle == [image |-> Nil, input |-> Nil, state |-> "idle", on |-> Nil, todo |-> <<>>,
         at |-> "none", failed |-> FALSE, waiting |-> FALSE, reply |-> Nil]

Images == {"postgresql", "redis", "other"}

(* Registered by the init functions of the packages, and by main. *)
InitTypes == {"Object", "Secret", "VSHNPostgreSQL"}
StackGresTypes == {"SGCluster", "SGDbOps"}

(* Everything that may be registered: AddUserAlerting adds one type more.  *)
GoTypes == InitTypes \union StackGresTypes \union {"AlertmanagerConfig"}

Init ==
  /\ proc = [p \in Procs |-> "down"]
  /\ socket = Nil
  /\ scheme = [p \in Procs |-> {}]
  /\ raced = [p \in Procs |-> FALSE]
  /\ call = [c \in Calls |-> Idle]
  /\ crashes = 0
------------------------------------------------------------------------------
(* main *)

Start(p) ==
  /\ proc[p] = "down"
  /\ proc' = [proc EXCEPT ![p] = "started"]
  /\ scheme' = [scheme EXCEPT ![p] = InitTypes]
  /\ raced' = [raced EXCEPT ![p] = FALSE]
  /\ UNCHANGED <<socket, call, crashes>>

(* Faulty main: nobody removes what an earlier process has left. *)
NoCleanStart(p) ==
  /\ proc[p] = "started"
  /\ proc' = [proc EXCEPT ![p] = "clean"]
  /\ UNCHANGED <<socket, scheme, raced, call, crashes>>

(* cleanStart removes the file; an abstract socket has none. *)
CleanStart(p) ==
  /\ proc[p] = "started"
  /\ proc' = [proc EXCEPT ![p] = "clean"]
  /\ socket' = IF AbstractSocket THEN socket ELSE Nil
  /\ UNCHANGED <<scheme, raced, call, crashes>>

(* net.Listen; log.Fatalf when the address is in use. *)
Listen(p) ==
  /\ proc[p] = "clean"
  /\ IF socket = Nil
     THEN socket' = p /\ proc' = [proc EXCEPT ![p] = "listening"]
     ELSE UNCHANGED socket /\ proc' = [proc EXCEPT ![p] = "down"]
  /\ UNCHANGED <<scheme, raced, call, crashes>>

(* Faulty main: Serve starts before the StackGres types are registered. *)
ServeUnregistered(p) ==
  /\ proc[p] = "listening"
  /\ proc' = [proc EXCEPT ![p] = "serving"]
  /\ UNCHANGED <<socket, scheme, raced, call, crashes>>

(* Faulty main: cleanStart is called after Listen. *)
ServeThenClean(p) ==
  /\ proc[p] = "listening"
  /\ proc' = [proc EXCEPT ![p] = "serving"]
  /\ scheme' = [scheme EXCEPT ![p] = @ \union StackGresTypes]
  /\ socket' = IF AbstractSocket THEN socket ELSE Nil
  /\ UNCHANGED <<raced, call, crashes>>

(* AddToScheme of the StackGres types, and Serve. *)
Serve(p) ==
  /\ proc[p] = "listening"
  /\ proc' = [proc EXCEPT ![p] = "serving"]
  /\ scheme' = [scheme EXCEPT ![p] = @ \union StackGresTypes]
  /\ UNCHANGED <<socket, raced, call, crashes>>

Main(p) == Start(p) \/ CleanStart(p) \/ Listen(p) \/ Serve(p)

(* The process ends, without a handler that would close the listener: a    *)
(* file stays behind.  Its calls fail.                                     *)
Die(p) ==
  /\ crashes < MaxCrashes
  /\ crashes' = crashes + 1
  /\ proc' = [proc EXCEPT ![p] = "down"]
  /\ socket' = IF socket # p THEN socket ELSE IF AbstractSocket THEN Nil ELSE "stale"
  /\ call' = [c \in Calls |-> IF call[c].on = p THEN Idle ELSE call[c]]
  /\ UNCHANGED <<scheme, raced>>

Crash(p) == proc[p] # "down" /\ Die(p)
------------------------------------------------------------------------------
(* RunFunction *)

Send(c, image, input) ==
  /\ call[c].state = "idle"
  /\ call' = [call EXCEPT ![c] = [Idle EXCEPT !.image = image, !.input = input,
                                              !.state = "sent", !.waiting = TRUE]]
  /\ UNCHANGED <<proc, socket, scheme, raced, crashes>>

Reads(types) == [i \in DOMAIN types |-> [mode |-> "read", type |-> types[i]]]
Write == [mode |-> "write", type |-> "AlertmanagerConfig"]

(* What a request does to the scheme: NewRuntime fails before any access,  *)
(* AddUserAlerting always registers its types, and PutIntoObject looks up  *)
(* the type of the manifest and that of the kube object.                   *)
Work(image, input) ==
  IF image = "postgresql" /\ input # Bad THEN <<Write>> \o Reads(Puts[input]) ELSE <<>>

(* The goroutine of a call starts.  A client that finds nobody behind the  *)
(* socket gets an error.                                                   *)
Accept(c) ==
  /\ call[c].state = "sent"
  /\ \/ /\ socket \in Procs /\ proc[socket] = "serving"
        /\ call' = [call EXCEPT ![c].state = "running", ![c].on = socket,
                                ![c].todo = Work(call[c].image, call[c].input)]
     \/ /\ socket \notin Procs
        /\ call' = [call EXCEPT ![c] = Idle]
  /\ UNCHANGED <<proc, socket, scheme, raced, crashes>>

Running(c) == call[c].state = "running"

(* The calls of the same process whose access and one of this mode exclude *)
(* each other.                                                             *)
Conflicting(c, mode) ==
  {d \in Calls \ {c} : /\ Running(d) /\ call[d].on = call[c].on
                       /\ call[d].at # "none" /\ "write" \in {mode, call[d].at}}

BeginAccess(c) ==
  /\ Running(c) /\ call[c].at = "none" /\ call[c].todo # <<>>
  /\ LET mode == Head(call[c].todo).mode
     IN /\ call' = [call EXCEPT ![c].at = mode]
        /\ raced' = [raced EXCEPT ![call[c].on] = @ \/ Conflicting(c, mode) # {}]
  /\ UNCHANGED <<proc, socket, scheme, crashes>>

(* In a map that was written during an access a lookup may miss any type.  *)
EndAccess(c) ==
  /\ Running(c) /\ call[c].at # "none"
  /\ LET a == Head(call[c].todo)
         p == call[c].on
         after(miss) == [call EXCEPT ![c].at = "none", ![c].todo = Tail(@),
                                     ![c].failed = @ \/ miss]
     IN \/ /\ a.mode = "write"
           /\ scheme' = [scheme EXCEPT ![p] = @ \union {a.type}]
           /\ call' = after(FALSE)
        \/ /\ a.mode = "read"
           /\ \E miss \in BOOLEAN :
                /\ a.type \notin scheme[p] => miss
                /\ miss => a.type \notin scheme[p] \/ raced[p]
                /\ call' = after(miss)
           /\ UNCHANGED scheme
  /\ UNCHANGED <<proc, socket, raced, crashes>>

(* The Go runtime stops a process that reads and writes a map at once. *)
MapThrow(c) ==
  /\ Running(c)
  /\ call[c].at # "none" /\ Conflicting(c, call[c].at) # {}
  /\ Die(call[c].on)

(* The status code and the output that RunFunction returns. *)
Returned(c) ==
  CASE call[c].image = "redis" -> [code |-> "Unimplemented", output |-> call[c].input]
    [] call[c].image = "other" -> [code |-> "NotFound", output |-> "Bad configuration"]
    [] call[c].image = "postgresql" /\ call[c].input = Bad -> [code |-> "Aborted", output |-> "empty"]
    [] OTHER -> [code |-> "OK", output |-> IF call[c].failed THEN "fatal" ELSE "done"]

(* grpc sends the response only with the code OK. *)
Received(answer) == IF answer.code = "OK" THEN answer ELSE [answer EXCEPT !.output = Nil]

(* Faulty RunFunction: it starts over until the answer can be delivered. *)
AnswerOrRetry(c) ==
  /\ Running(c) /\ call[c].todo = <<>>
  /\ call' = IF call[c].waiting
             THEN [call EXCEPT ![c].state = "answered", ![c].on = Nil,
                               ![c].reply = Received(Returned(c))]
             ELSE [call EXCEPT ![c].todo = Work(call[c].image, call[c].input)]
  /\ UNCHANGED <<proc, socket, scheme, raced, crashes>>

(* RunFunction returns, to a client that may be gone. *)
Answer(c) ==
  /\ Running(c) /\ call[c].todo = <<>>
  /\ call' = [call EXCEPT ![c].state = "answered", ![c].on = Nil,
                          ![c].reply = IF call[c].waiting THEN Received(Returned(c)) ELSE Nil]
  /\ UNCHANGED <<proc, socket, scheme, raced, crashes>>

(* The client gives up: RunFunction does not look at its context and goes  *)
(* on, while the client may call again.                                    *)
Deadline(c) ==
  /\ call[c].state \in {"sent", "running"} /\ call[c].waiting
  /\ call' = IF Running(c) THEN [call EXCEPT ![c].waiting = FALSE] ELSE [call EXCEPT ![c] = Idle]
  /\ UNCHANGED <<proc, socket, scheme, raced, crashes>>

Finish(c) ==
  /\ call[c].state = "answered"
  /\ call' = [call EXCEPT ![c] = Idle]
  /\ UNCHANGED <<proc, socket, scheme, raced, crashes>>

Handle(c) == Accept(c) \/ BeginAccess(c) \/ EndAccess(c) \/ Answer(c)

Next ==
  \/ \E p \in Procs : Main(p) \/ Crash(p)
  \/ \E c \in Calls :
       \/ \E image \in Images, input \in Inputs : Send(c, image, input)
       \/ Handle(c) \/ MapThrow(c) \/ Deadline(c) \/ Finish(c)

(* Kubernetes starts a container again, main does not wait for anything,   *)
(* and neither does a goroutine that has been started.                     *)
Spec ==
  /\ Init /\ [][Next]_vars
  /\ \A p \in Procs : WF_vars(Main(p))
  /\ \A c \in Calls : WF_vars(Handle(c))
------------------------------------------------------------------------------
TypeOK ==
  /\ proc \in [Procs -> {"down", "started", "clean", "listening", "serving"}]
  /\ socket \in Procs \union {Nil, "stale"}
  /\ scheme \in [Procs -> SUBSET GoTypes]
  /\ raced \in [Procs -> BOOLEAN]
  /\ crashes \in 0 .. MaxCrashes
  /\ \A p \in Procs : proc[p] \in {"listening", "serving"} => socket = p
  /\ \A c \in Calls :
       /\ call[c].state \in {"idle", "sent", "running", "answered"}
       /\ call[c].on \in IF Running(c) THEN Procs ELSE {Nil}
       /\ call[c].at # "none" => Running(c) /\ call[c].todo # <<>>

(* A function finds every type that it puts: main, the init functions and  *)
(* AddUserAlerting register them before the first lookup of each request   *)
(* in each process, unless the map of the scheme was written during an     *)
(* access (runtime.go:46-50, main.go:116-119, alerting.go:23).             *)
LookupsSucceed == \A c \in Calls : Running(c) /\ call[c].failed => raced[call[c].on]

(* No write of the scheme overlaps with another access to it, as the tests *)
(* are run with the race detector (Makefile:46).                           *)
NoDataRace == \A p \in Procs : ~ raced[p]

(* A goroutine that serves a call ends, also when its client has gone, or  *)
(* its process does: no call stays in the server (main.go:65-88).          *)
CallsEnd == \A c \in Calls : Running(c) ~> ~ Running(c)

(* After any crash a process serves again behind the socket: the socket    *)
(* that a stopped server leaves does not block the next start, as the      *)
(* comment of cleanStart says (main.go:130-138).                           *)
Recovers == []<> \E p \in Procs : proc[p] = "serving" /\ socket = p

=============================================================================
