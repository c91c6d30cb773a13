--------------------------- MODULE SignalHandling ---------------------------
(***************************************************************************)
(* SignalHandlerManager and the calls of ClusterClient that reach it:      *)
(* connect() registers the client, its destructor unregisters it, and the  *)
(* handler of SIGINT and SIGTERM disconnects every client.                 *)
(*                                                                         *)
(* Clients are owned by shared_ptrs: those the application's threads hold, *)
(* and those that weak_ptr::lock() makes in the handler and in             *)
(* unregister_client().  The thread that drops the last one runs the       *)
(* destructor there and then.  A handler runs on top of whatever its       *)
(* thread is doing, and is interrupted by the other signal only            *)
(* (sa_mask is empty, SA_NODEFER is not set).                              *)
(*                                                                         *)
(* All of them log, and a call that logs takes mutexes of the logger: the  *)
(* factory's in getLogger(), and the sink's in Logger::log().              *)
(***************************************************************************)
EXTENDS Naturals, Sequences, FiniteSets, SequencesExt

CONSTANTS Clients, Threads,
          Signals,            \* SIGINT and SIGTERM
          None,               \* nobody owns the mutex
          MaxRegistrations,   \* bound on calls of register_client
          MaxSignals,         \* bound on signals delivered
          MaxLogs             \* bound on messages the application logs

ASSUME NoneAssumption == None \notin Threads
ASSUME LimitsAssumption == MaxRegistrations \in Nat /\ MaxSignals \in Nat /\ MaxLogs \in Nat

VARIABLES clients_,           \* the registered weak_ptrs, in order
          mutex,              \* the owner of each mutex, or None
          handlers_installed_,
          held,               \* the clients each thread has a shared_ptr to
          alive,              \* the clients whose destructor has not begun
          connected,          \* the clients that are connected
          stack,              \* the calls each thread is in, innermost first
          registered,         \* history: clients whose registration is complete
          registrations, signals, logs   \* how many there were

vars == <<clients_, mutex, handlers_installed_, held, alive, connected,
          stack, registered, registrations, signals, logs>>

\* clients_mutex_ of the manager, mutex_ of LoggerFactory, and the mutexes under
\* which Logger::log() writes: sinks_mutex_ and, inside it, that of the sink
\* which all loggers share.
Mutexes == {"clients_mutex_", "factory", "sink"}

\* The calls of the logger, and the mutex each call locks.
LogCalls == {"getLogger", "log"}
MutexOf(op) == CASE op = "getLogger" -> "factory"
                 [] op = "log" -> "sink"
                 [] OTHER -> "clients_mutex_"

\* A call: what it does, the client or signal it is about if any, where it stands,
\* the shared_ptrs among its locals, and its loop: where it is and what
\* remove_if keeps.
Call(op, arg) == [op |-> op, arg |-> arg, pc |-> "lock", refs |-> <<>>,
                  next |-> 1, kept |-> <<>>]

Top(t) == Head(stack[t])
At(t, op, pc) == stack[t] # <<>> /\ Top(t).op = op /\ Top(t).pc = pc

\* The stack of t with its innermost call replaced, ended or interrupted.
Replace(t, call) == [stack EXCEPT ![t] = <<call>> \o Tail(@)]
Return(t) == [stack EXCEPT ![t] = Tail(@)]
Enter(s, t, call) == [s EXCEPT ![t] = <<call>> \o @]

\* Some shared_ptr to c exists.
Referenced(h, s, c) ==
    \E t \in Threads : \/ c \in h[t]
                       \/ \E i \in DOMAIN s[t] : c \in ToSet(s[t][i].refs)

\* Mutant: handlers keep raw pointers, which own nothing.
Dropped_Raw(t, h, s, c) ==
    /\ held' = h
    /\ IF \E u \in Threads : c \in h[u]
       THEN stack' = s /\ UNCHANGED alive
       ELSE stack' = Enter(s, t, Call("unregister", c)) /\ alive' = alive \ {c}

\* Thread t has just dropped a shared_ptr to c, which leaves h and s: if it
\* was the last one, ~ClusterClient() begins, and calls unregister_client().
Dropped(t, h, s, c) ==
    /\ held' = h
    /\ IF Referenced(h, s, c)
       THEN stack' = s /\ UNCHANGED alive
       ELSE stack' = Enter(s, t, Call("unregister", c)) /\ alive' = alive \ {c}

Init ==
    /\ clients_ = <<>>
    /\ mutex = [m \in Mutexes |-> None]
    /\ handlers_installed_ = FALSE
    /\ held = [t \in Threads |-> Clients]
    /\ alive = Clients
    /\ connected = {}
    /\ stack = [t \in Threads |-> <<>>]
    /\ registered = {}
    /\ registrations = 0
    /\ signals = 0
    /\ logs = 0

-----------------------------------------------------------------------------
\* The application.

\* connect(), connect_async() and connect_with_timeout() register the client
\* each time, before they connect.
Connect(t, c) ==
    /\ stack[t] = <<>>
    /\ c \in held[t]
    /\ registrations < MaxRegistrations
    /\ registrations' = registrations + 1
    /\ stack' = Enter(stack, t, Call("register", c))
    /\ UNCHANGED <<clients_, mutex, handlers_installed_, held, alive,
                   connected, registered, signals, logs>>

\* A thread drops its shared_ptr to a client.
Drop(t, c) ==
    /\ stack[t] = <<>>
    /\ c \in held[t]
    /\ Dropped(t, [held EXCEPT ![t] = @ \ {c}], stack, c)
    /\ UNCHANGED <<clients_, mutex, handlers_installed_, connected,
                   registered, registrations, signals, logs>>

\* A thread logs in a call of a client, as most calls do.
Log(t) ==
    /\ stack[t] = <<>>
    /\ held[t] # {}
    /\ logs < MaxLogs
    /\ logs' = logs + 1
    /\ stack' = Enter(stack, t, Call("log", None))
    /\ UNCHANGED <<clients_, mutex, handlers_installed_, held, alive, connected, registered,
                   registrations, signals>>

\* The kernel runs signal_handler() on thread t, whose first call is getLogger().
Signal(t, sig) ==
    /\ handlers_installed_
    /\ signals < MaxSignals
    /\ \A i \in DOMAIN stack[t] : ~(stack[t][i].op = "handler" /\ stack[t][i].arg = sig)
    /\ signals' = signals + 1
    /\ stack' = Enter(Enter(stack, t, Call("handler", sig)), t, Call("getLogger", None))
    /\ UNCHANGED <<clients_, mutex, handlers_installed_, held, alive,
                   connected, registered, registrations, logs>>

-----------------------------------------------------------------------------
\* Mutant: the mutexes let their owner in again.
Lock_Recursive(t) ==
    LET m == MutexOf(Top(t).op)
    IN  /\ stack[t] # <<>>
        /\ Top(t).pc = "lock"
        /\ mutex[m] \in {None, t}
        /\ mutex' = [mutex EXCEPT ![m] = t]
        /\ stack' = Replace(t, [Top(t) EXCEPT !.pc = "locked"])
        /\ UNCHANGED <<clients_, handlers_installed_, held, alive, connected,
                       registered, registrations, signals, logs>>

\* std::lock_guard on the mutex of the call, which is not recursive: a thread
\* that owns it waits for itself.
Lock(t) ==
    LET m == MutexOf(Top(t).op)
    IN  /\ stack[t] # <<>>
        /\ Top(t).pc = "lock"
        /\ mutex[m] = None
        /\ mutex' = [mutex EXCEPT ![m] = t]
        /\ stack' = Replace(t, [Top(t) EXCEPT !.pc = "locked"])
        /\ UNCHANGED <<clients_, handlers_installed_, held, alive, connected,
                       registered, registrations, signals, logs>>

\* The lock_guard of the innermost call of t goes.
Unlock(t) == mutex' = [mutex EXCEPT ![MutexOf(Top(t).op)] = None]

\* getLogger() returns.  register_client() and install_handlers() then log at
\* level info, unregister_client() at level debug, which may be disabled, and
\* the handler goes on.
GotLogger(t) ==
    /\ At(t, "getLogger", "locked")
    /\ Unlock(t)
    /\ \/ /\ stack[t][2].op \in {"register", "unregister"}
          /\ stack' = Replace(t, Call("log", None))
       \/ /\ stack[t][2].op \in {"unregister", "handler"}
          /\ stack' = Return(t)
    /\ UNCHANGED <<clients_, handlers_installed_, held, alive, connected,
                   registered, registrations, signals, logs>>

\* Logger::log() has written the message.
Logged(t) ==
    /\ At(t, "log", "locked")
    /\ Unlock(t)
    /\ stack' = Return(t)
    /\ UNCHANGED <<clients_, handlers_installed_, held, alive, connected,
                   registered, registrations, signals, logs>>

\* install_handlers(), in the first registration, with the lock held: from here
\* on a signal may interrupt it.
install_handlers(t) ==
    /\ At(t, "register", "locked")
    /\ ~handlers_installed_
    /\ handlers_installed_' = TRUE
    /\ stack' = Enter(stack, t, Call("getLogger", None))
    /\ UNCHANGED <<clients_, mutex, held, alive, connected, registered, registrations,
                   signals, logs>>

\* Mutant: expired clients are first taken out with unregister_client(), which
\* locks the mutex once more.
register_client_Prunes(t) ==
    LET c == Top(t).arg
    IN  /\ At(t, "register", "locked")
        /\ handlers_installed_
        /\ clients_' = Append(clients_, c)
        /\ registered' = registered \cup {c}
        /\ stack' = Enter(Replace(t, [Top(t) EXCEPT !.pc = "logged"]), t, Call("unregister", c))
        /\ UNCHANGED <<mutex, handlers_installed_, held, alive, connected, registrations,
                       signals, logs>>

\* The rest of register_client(): the client is added, and that is logged with
\* the lock held.
register_client(t) ==
    /\ At(t, "register", "locked")
    /\ handlers_installed_
    /\ clients_' = Append(clients_, Top(t).arg)
    /\ registered' = registered \cup {Top(t).arg}
    /\ stack' = Enter(Replace(t, [Top(t) EXCEPT !.pc = "logged"]), t,
                      Call("getLogger", None))
    /\ UNCHANGED <<mutex, handlers_installed_, held, alive, connected, registrations, signals, logs>>

\* register_client() returns; the connect that follows may fail.
Registered(t) ==
    /\ At(t, "register", "logged")
    /\ Unlock(t)
    /\ connected' \in {connected, connected \cup {Top(t).arg}}
    /\ stack' = Return(t)
    /\ UNCHANGED <<clients_, handlers_installed_, held, alive, registered, registrations,
                   signals, logs>>

\* Mutant: the test for an expired client is inverted.
UnregisterTest_Inverted(t) ==
    LET f == Top(t)
        c == clients_[f.next]
    IN  /\ At(t, "unregister", "locked")
        /\ f.next <= Len(clients_)
        /\ stack' = Replace(t,
               [f EXCEPT !.pc = "testing",
                         !.refs = IF c \in alive THEN <<c>> ELSE <<>>,
                         !.kept = IF c \notin alive THEN Append(@, c) ELSE @])
        /\ UNCHANGED <<clients_, mutex, handlers_installed_, held, alive,
                       connected, registered, registrations, signals, logs>>

\* unregister_client(), one call of the predicate: weak_client.lock() makes a
\* shared_ptr if the client is alive; an expired client, and the one being
\* unregistered, are not kept.
UnregisterTest(t) ==
    LET f == Top(t)
        c == clients_[f.next]
    IN  /\ At(t, "unregister", "locked")
        /\ f.next <= Len(clients_)
        /\ stack' = Replace(t,
               [f EXCEPT !.pc = "testing",
                         !.refs = IF c \in alive THEN <<c>> ELSE <<>>,
                         !.kept = IF c \in alive /\ c # f.arg THEN Append(@, c) ELSE @])
        /\ UNCHANGED <<clients_, mutex, handlers_installed_, held, alive,
                       connected, registered, registrations, signals, logs>>

\* The predicate returns, and its shared_ptr goes.
UnregisterTested(t) ==
    LET f == Top(t)
        s == Replace(t, [f EXCEPT !.pc = "locked", !.refs = <<>>, !.next = @ + 1])
    IN  /\ At(t, "unregister", "testing")
        /\ IF f.refs = <<>> THEN stack' = s /\ UNCHANGED <<held, alive>>
           ELSE Dropped(t, held, s, f.refs[1])
        /\ UNCHANGED <<clients_, mutex, handlers_installed_, connected,
                       registered, registrations, signals, logs>>

\* clients_.erase(); that clients went is logged with the lock held.
UnregisterErase(t) ==
    LET f == [Top(t) EXCEPT !.pc = "logged"]
    IN  /\ At(t, "unregister", "locked")
        /\ Top(t).next > Len(clients_)
        /\ clients_' = f.kept
        /\ stack' = IF Len(f.kept) # Len(clients_)
                    THEN Enter(Replace(t, f), t, Call("getLogger", None))
                    ELSE Replace(t, f)
        /\ UNCHANGED <<mutex, handlers_installed_, held, alive, connected, registered,
                       registrations, signals, logs>>

\* The end of unregister_client(), and of the destructor, which disconnects the
\* client.
Unregistered(t) ==
    /\ At(t, "unregister", "logged")
    /\ Unlock(t)
    /\ connected' = connected \ {Top(t).arg}
    /\ stack' = Return(t)
    /\ UNCHANGED <<clients_, handlers_installed_, held, alive, registered, registrations,
                   signals, logs>>

\* Mutant: what weak_client.lock() returns is collected without a test.
CollectNext_Unchecked(t) ==
    LET f == Top(t)
        c == clients_[f.next]
    IN  /\ At(t, "handler", "locked")
        /\ f.next <= Len(clients_)
        /\ stack' = Replace(t, [f EXCEPT !.refs = Append(@, IF c \in alive THEN c ELSE None),
                                         !.next = @ + 1])
        /\ UNCHANGED <<clients_, mutex, handlers_installed_, held, alive,
                       connected, registered, registrations, signals, logs>>

\* disconnect_all_clients(), one turn of its first loop: a client that is
\* alive is collected, once for each time it was registered.
CollectNext(t) ==
    LET f == Top(t)
        c == clients_[f.next]
    IN  /\ At(t, "handler", "locked")
        /\ f.next <= Len(clients_)
        /\ stack' = Replace(t, [f EXCEPT !.refs = IF c \in alive THEN Append(@, c) ELSE @,
                                         !.next = @ + 1])
        /\ UNCHANGED <<clients_, mutex, handlers_installed_, held, alive,
                       connected, registered, registrations, signals, logs>>

\* The end of the loop: what was found is logged with the lock held.
Collected(t) ==
    /\ At(t, "handler", "locked")
    /\ Top(t).next > Len(clients_)
    /\ stack' = Enter(Replace(t, [Top(t) EXCEPT !.pc = "logged"]), t,
                      Call("log", None))
    /\ UNCHANGED <<clients_, mutex, handlers_installed_, held, alive, connected,
                   registered, registrations, signals, logs>>

\* The lock goes, and the handler logs without it.
HandlerUnlocks(t) ==
    /\ At(t, "handler", "logged")
    /\ Unlock(t)
    /\ stack' = Enter(Replace(t, [Top(t) EXCEPT !.pc = "disconnecting", !.next = 1]), t,
                      Call("log", None))
    /\ UNCHANGED <<clients_, handlers_installed_, held, alive, connected,
                   registered, registrations, signals, logs>>

\* disconnect_all_clients(): disconnect the next one; what it throws is caught.
\* Then comes a message: of the error, of the next client or of the end.
DisconnectNext(t) ==
    /\ At(t, "handler", "disconnecting")
    /\ Top(t).next <= Len(Top(t).refs)
    /\ connected' = connected \ {Top(t).refs[Top(t).next]}
    /\ stack' = Enter(Replace(t, [Top(t) EXCEPT !.next = @ + 1]), t,
                      Call("log", None))
    /\ UNCHANGED <<clients_, mutex, handlers_installed_, held, alive,
                   registered, registrations, signals, logs>>

\* The vector of shared_ptrs goes, one after the other.
DropNext(t) ==
    LET f == Top(t)
    IN  /\ At(t, "handler", "disconnecting")
        /\ f.next > Len(f.refs)
        /\ f.refs # <<>>
        /\ Dropped(t, held, Replace(t, [f EXCEPT !.refs = Tail(@), !.next = @ - 1]),
                   Head(f.refs))
        /\ UNCHANGED <<clients_, mutex, handlers_installed_, connected,
                       registered, registrations, signals, logs>>

\* Mutant: the handler waits until every client has been unregistered.
HandlerReturns_Waits(t) ==
    /\ At(t, "handler", "disconnecting")
    /\ Top(t).refs = <<>>
    /\ clients_ = <<>>
    /\ stack' = Return(t)
    /\ UNCHANGED <<clients_, mutex, handlers_installed_, held, alive,
                   connected, registered, registrations, signals, logs>>

\* signal_handler() returns to what it interrupted.
HandlerReturns(t) ==
    /\ At(t, "handler", "disconnecting")
    /\ Top(t).refs = <<>>
    /\ stack' = Return(t)
    /\ UNCHANGED <<clients_, mutex, handlers_installed_, held, alive,
                   connected, registered, registrations, signals, logs>>

\* A thread goes on with the call it is in.
Step(t) == \/ Lock(t) \/ GotLogger(t) \/ Logged(t)
           \/ install_handlers(t) \/ register_client(t) \/ Registered(t)
           \/ UnregisterTest(t) \/ UnregisterTested(t) \/ UnregisterErase(t) \/ Unregistered(t)
           \/ CollectNext(t) \/ Collected(t) \/ HandlerUnlocks(t)
           \/ DisconnectNext(t) \/ DropNext(t) \/ HandlerReturns(t)

Next == \E t \in Threads :
            \/ \E c \in Clients : Connect(t, c) \/ Drop(t, c)
            \/ Log(t)
            \/ \E sig \in Signals : Signal(t, sig)
            \/ Step(t)

\* Threads are scheduled; nobody has to connect, drop or send a signal.  The
\* calls are bounded, so that a mutex which is free from some time on is got.
Spec == Init /\ [][Next]_vars /\ \A t \in Threads : WF_vars(Step(t))

-----------------------------------------------------------------------------
Calls == [op : {"register", "unregister", "handler"} \cup LogCalls,
          arg : Clients \cup Signals \cup {None},
          pc : {"lock", "locked", "testing", "logged", "disconnecting"},
          refs : Seq(Clients), next : Nat, kept : Seq(Clients)]

TypeOK == /\ clients_ \in Seq(Clients)
          /\ mutex \in [Mutexes -> Threads \cup {None}]
          /\ handlers_installed_ \in BOOLEAN
          /\ held \in [Threads -> SUBSET Clients]
          /\ alive \subseteq Clients
          /\ connected \subseteq Clients
          /\ stack \in [Threads -> Seq(Calls)]
          /\ registered \subseteq Clients
          /\ registrations \in 0 .. MaxRegistrations
          /\ signals \in 0 .. MaxSignals
          /\ logs \in 0 .. MaxLogs

\* A call that is inside the critical section of m.
Critical(f, m) == f.pc \in {"locked", "testing", "logged"} /\ MutexOf(f.op) = m

\* Whatever interrupts whom, clients_ is only ever read or changed by one
\* call, the same goes for the loggers, and a mutex is owned by the thread of
\* the call inside exactly as long.
ExclusiveAccess ==
    \A t \in Threads, m \in Mutexes :
        /\ Cardinality({i \in DOMAIN stack[t] : Critical(stack[t][i], m)}) <= 1
        /\ mutex[m] = t <=> \E i \in DOMAIN stack[t] : Critical(stack[t][i], m)

\* A client that is being or has been destroyed is nowhere referred to by the
\* application, by a handler that is still disconnecting, or by a test of
\* unregister_client(): what they use is alive.
NoDangling == \A c \in Clients \ alive : ~Referenced(held, stack, c)

\* A client whose connect() got past the registration is found by the next
\* signal for as long as it lives, however many others come and go.
LiveRegistered == registered \cap alive \subseteq ToSet(clients_)

\* Thread t waits for mutex m.
Waits(t, m) == stack[t] # <<>> /\ Top(t).pc = "lock" /\ MutexOf(Top(t).op) = m

\* The threads of D wait for each other: no one of them can go on.
Deadlocked(D) == D # {} /\ \A t \in D : \E m \in Mutexes : Waits(t, m) /\ mutex[m] \in D

\* Thread t was interrupted by a signal inside a critical section, whether it
\* was in the manager or in the logger.
Interrupted(t) ==
    \E i, j \in DOMAIN stack[t] :
        i < j /\ stack[t][i].op = "handler" /\ \E m \in Mutexes : Critical(stack[t][j], m)

\* The shared_ptr of a test in unregister_client() was the last one to another
\* client, whose destructor runs right there.
DestroysInside(t) ==
    \E i \in 2 .. Len(stack[t]) :
        /\ stack[t][i].op = "unregister" /\ Critical(stack[t][i], "clients_mutex_")
        /\ stack[t][i - 1].op = "unregister"

\* The manager's own code locks no mutex twice, and no two mutexes in
\* different orders.  That threads wait for themselves or for each other has one
\* of two causes: a signal interrupted one of them inside a critical section, or
\* a destructor runs inside unregister_client().
DeadlockCauses ==
    \A D \in SUBSET Threads : Deadlocked(D) =>
        \E t \in D : Interrupted(t) \/ DestroysInside(t)

\* Every handler returns to the thread it interrupted, unless some threads have
\* come to wait for each other: handlers on several threads, nested handlers
\* and destructors do not block each other otherwise.
HandlersReturn ==
    \/ <>(\E D \in SUBSET Threads : Deadlocked(D))
    \/ \A t \in Threads : []<>(\A i \in DOMAIN stack[t] : stack[t][i].op # "handler")
=============================================================================
