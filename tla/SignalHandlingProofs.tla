------------------------ MODULE SignalHandlingProofs ------------------------
(***************************************************************************)
(* Proofs about SignalHandling, for any clients, threads, signals and      *)
(* numbers of registrations, signals and messages logged.                  *)
(***************************************************************************)
EXTENDS SignalHandling, FiniteSetTheorems, TLAPS

Stacks == [Threads -> Seq(Calls)]

(* What else is true of a frame: a call is only where its code can be, and *)
(* one that waits for the lock has done nothing yet.  A destructor has     *)
(* begun before it unregisters its client.                                 *)
FrameOK(f, living) ==
    /\ f.op = "register" => f.pc \in {"lock", "locked", "logged"} /\ f.arg \in Clients
    /\ f.op = "unregister" => /\ f.pc \in {"lock", "locked", "testing", "logged"}
                              /\ f.arg \in Clients \ living
    /\ f.op = "handler" => f.pc \in {"lock", "locked", "logged", "disconnecting"}
    /\ f.op \in LogCalls => f.pc \in {"lock", "locked"}
    /\ f.pc = "lock" => f.refs = <<>> /\ f.next = 1 /\ f.kept = <<>>

FramesInv == \A t \in Threads : \A i \in 1 .. Len(stack[t]) : FrameOK(stack[t][i], alive)

(* ExclusiveAccess, without cardinalities. *)
MutexOK(m) ==
    \A t \in Threads :
        /\ \A i \in 1 .. Len(stack[t]) : Critical(stack[t][i], m) =>
              /\ mutex[m] = t
              /\ \A j \in 1 .. Len(stack[t]) : Critical(stack[t][j], m) => i = j
        /\ mutex[m] = t => \E i \in 1 .. Len(stack[t]) : Critical(stack[t][i], m)

MutexInv == \A m \in Mutexes : MutexOK(m)

(* A call outside all critical sections, and two in the same ones. *)
Outside(f) == \A m \in Mutexes : ~Critical(f, m)
Same(f, g) == \A m \in Mutexes : Critical(f, m) <=> Critical(g, m)

(* What can be on top of a call in a critical section, and of a call of the *)
(* logger: a handler, a destructor, or a call of the logger.               *)
Exposed(g) == g.pc \in {"locked", "testing", "logged"} \/ g.op \in LogCalls

Covers(f, g) == \/ f.op = "handler"
                \/ g.op = "unregister" /\ f.op = "unregister"
                \/ g.op \notin LogCalls /\ f.op \in LogCalls

CoverInv == \A t \in Threads : \A i \in 2 .. Len(stack[t]) :
                Exposed(stack[t][i]) => Covers(stack[t][i - 1], stack[t][i])

(* unregister_client() half way: a live client is among those kept or among *)
(* those that are still to be tested.                                      *)
Tests(f) == f.op = "unregister" /\ f.pc \in {"locked", "testing"}

Untested(f, list) ==
    {list[j] : j \in (IF f.pc = "testing" THEN f.next + 1 ELSE f.next) .. Len(list)}

Keeps(f, list, living) == Tests(f) => living \subseteq ToSet(f.kept) \cup Untested(f, list)

KeptInv == \A t \in Threads : \A i \in 1 .. Len(stack[t]) :
               Keeps(stack[t][i], clients_, registered \cap alive)

IInv == TypeOK /\ FramesInv /\ MutexInv /\ CoverInv /\ NoDangling /\ KeptInv /\ LiveRegistered

-----------------------------------------------------------------------------
(* The five things that a step of thread t can do to the stacks, told by   *)
(* frames: enter a call, replace the innermost one, return from it,        *)
(* replace it by g and enter f, or enter g and, in it, f.                  *)

Others(t) ==
    /\ stack' \in Stacks
    /\ \A u \in Threads : Len(stack[u]) \in Nat /\ Len(stack'[u]) \in Nat
    /\ \A u \in Threads : u # t => stack'[u] = stack[u]

Entered(t, f) ==
    /\ Others(t)
    /\ Len(stack'[t]) = Len(stack[t]) + 1
    /\ stack'[t][1] = f
    /\ \A i \in 1 .. Len(stack[t]) : stack'[t][i + 1] = stack[t][i]
    /\ \A i \in 2 .. Len(stack'[t]) : stack'[t][i] = stack[t][i - 1]

Replaced(t, f) ==
    /\ Others(t)
    /\ Len(stack[t]) > 0 /\ Len(stack'[t]) = Len(stack[t])
    /\ stack'[t][1] = f
    /\ \A i \in 2 .. Len(stack[t]) : stack'[t][i] = stack[t][i]

Returned(t) ==
    /\ Others(t)
    /\ Len(stack[t]) > 0 /\ Len(stack'[t]) = Len(stack[t]) - 1
    /\ \A i \in 1 .. Len(stack'[t]) : stack'[t][i] = stack[t][i + 1]
    /\ \A i \in 2 .. Len(stack[t]) : stack'[t][i - 1] = stack[t][i]

Interposed(t, g, f) ==
    /\ Others(t)
    /\ Len(stack[t]) > 0 /\ Len(stack'[t]) = Len(stack[t]) + 1
    /\ stack'[t][1] = f /\ stack'[t][2] = g
    /\ \A i \in 2 .. Len(stack[t]) : stack'[t][i + 1] = stack[t][i]
    /\ \A i \in 3 .. Len(stack'[t]) : stack'[t][i] = stack[t][i - 1]

EnteredTwice(t, g, f) ==
    /\ Others(t)
    /\ Len(stack'[t]) = Len(stack[t]) + 2
    /\ stack'[t][1] = f /\ stack'[t][2] = g
    /\ \A i \in 1 .. Len(stack[t]) : stack'[t][i + 2] = stack[t][i]
    /\ \A i \in 3 .. Len(stack'[t]) : stack'[t][i] = stack[t][i - 2]

LEMMA EnteredLemma ==
    ASSUME stack \in Stacks, NEW t \in Threads, NEW f \in Calls,
           stack' = Enter(stack, t, f)
    PROVE  Entered(t, f)
BY DEF Enter, Stacks, Entered, Others

LEMMA ReplacedLemma ==
    ASSUME stack \in Stacks, NEW t \in Threads, stack[t] # <<>>, NEW f \in Calls,
           stack' = Replace(t, f)
    PROVE  Replaced(t, f)
BY DEF Replace, Stacks, Replaced, Others

LEMMA ReturnedLemma ==
    ASSUME stack \in Stacks, NEW t \in Threads, stack[t] # <<>>, stack' = Return(t)
    PROVE  Returned(t)
BY DEF Return, Stacks, Returned, Others

LEMMA InterposedLemma ==
    ASSUME stack \in Stacks, NEW t \in Threads, stack[t] # <<>>,
           NEW g \in Calls, NEW f \in Calls, stack' = Enter(Replace(t, g), t, f)
    PROVE  Interposed(t, g, f)
<1>1. /\ Replace(t, g) \in Stacks /\ Len(stack[t]) > 0
      /\ \A u \in Threads : u # t => Replace(t, g)[u] = stack[u]
      /\ Len(Replace(t, g)[t]) = Len(stack[t])
      /\ Replace(t, g)[t][1] = g
      /\ \A i \in 2 .. Len(stack[t]) : Replace(t, g)[t][i] = stack[t][i]
  BY DEF Replace, Stacks
<1> DEFINE s == Replace(t, g)
<1> HIDE DEF s
<1>2. /\ stack' \in Stacks
      /\ \A u \in Threads : u # t => stack'[u] = s[u]
      /\ Len(stack'[t]) = Len(s[t]) + 1
      /\ stack'[t][1] = f
      /\ \A i \in 1 .. Len(s[t]) : stack'[t][i + 1] = s[t][i]
  BY <1>1 DEF Enter, Stacks, s
<1>3. /\ \A u \in Threads : Len(stack[u]) \in Nat /\ Len(stack'[u]) \in Nat
      /\ \A u \in Threads : u # t => stack'[u] = stack[u]
      /\ Len(stack'[t]) = Len(stack[t]) + 1
  BY <1>1, <1>2 DEF s, Stacks
<1>4. stack'[t][2] = g
  <2>1. 1 \in 1 .. Len(s[t])
    BY <1>1, <1>3 DEF s
  <2> QED BY <1>1, <1>2, <2>1 DEF s
<1>5. \A i \in 2 .. Len(stack[t]) : stack'[t][i + 1] = stack[t][i]
  BY <1>1, <1>2, <1>3 DEF s
<1>6. \A i \in 3 .. Len(stack'[t]) : stack'[t][i] = stack[t][i - 1]
  <2> TAKE i \in 3 .. Len(stack'[t])
  <2>1. i - 1 \in 2 .. Len(stack[t]) /\ (i - 1) + 1 = i
    BY <1>3
  <2> QED BY <1>5, <2>1
<1> QED BY <1>1, <1>2, <1>3, <1>4, <1>5, <1>6 DEF Interposed, Others

LEMMA EnteredTwiceLemma ==
    ASSUME stack \in Stacks, NEW t \in Threads, NEW g \in Calls, NEW f \in Calls,
           stack' = Enter(Enter(stack, t, g), t, f)
    PROVE  EnteredTwice(t, g, f)
<1> DEFINE s == Enter(stack, t, g)
<1>1. /\ s \in Stacks /\ Len(stack[t]) \in Nat
      /\ \A u \in Threads : u # t => s[u] = stack[u]
      /\ Len(s[t]) = Len(stack[t]) + 1
      /\ s[t][1] = g
      /\ \A i \in 1 .. Len(stack[t]) : s[t][i + 1] = stack[t][i]
  BY DEF Enter, Stacks
<1>2. stack' = Enter(s, t, f)
  OBVIOUS
<1> HIDE DEF s
<1>3. /\ stack' \in Stacks
      /\ \A u \in Threads : u # t => stack'[u] = s[u]
      /\ Len(stack'[t]) = Len(s[t]) + 1
      /\ stack'[t][1] = f
      /\ \A i \in 1 .. Len(s[t]) : stack'[t][i + 1] = s[t][i]
  BY <1>1, <1>2 DEF Enter, Stacks
<1>4. /\ \A u \in Threads : Len(stack[u]) \in Nat /\ Len(stack'[u]) \in Nat
      /\ \A u \in Threads : u # t => stack'[u] = stack[u]
      /\ Len(stack'[t]) = Len(stack[t]) + 2
  BY <1>1, <1>3 DEF Stacks
<1>5. stack'[t][2] = g
  <2>1. 1 \in 1 .. Len(s[t])
    BY <1>1
  <2> QED BY <1>1, <1>3, <2>1
<1>6. ASSUME NEW i \in 1 .. Len(stack[t])
      PROVE  stack'[t][i + 2] = stack[t][i]
  <2>1. i + 1 \in 1 .. Len(s[t]) /\ (i + 1) + 1 = i + 2
    BY <1>1
  <2>2. stack'[t][(i + 1) + 1] = s[t][i + 1]
    BY <1>3, <2>1
  <2> QED BY <1>1, <2>1, <2>2
<1>7. ASSUME NEW i \in 3 .. Len(stack'[t])
      PROVE  stack'[t][i] = stack[t][i - 2]
  <2>1. i - 2 \in 1 .. Len(stack[t]) /\ (i - 2) + 2 = i
    BY <1>1, <1>4
  <2> QED BY <1>6, <2>1
<1> QED BY <1>3, <1>4, <1>5, <1>6, <1>7 DEF EnteredTwice, Others

LEMMA TopLemma ==
    ASSUME stack \in Stacks, NEW t \in Threads, stack[t] # <<>>
    PROVE  Top(t) \in Calls /\ Top(t) = stack[t][1] /\ Len(stack[t]) \in Nat \ {0}
BY DEF Top, Stacks

-----------------------------------------------------------------------------
(* FramesInv, by what happens to the stacks. *)

LEMMA FramesEntered ==
    ASSUME FramesInv, alive' \subseteq alive, NEW t \in Threads,
           NEW f, Entered(t, f), FrameOK(f, alive')
    PROVE  FramesInv'
<1> SUFFICES ASSUME NEW u \in Threads, NEW i \in 1 .. Len(stack'[u])
             PROVE  FrameOK(stack'[u][i], alive')
  BY DEF FramesInv
<1>1. \A g : FrameOK(g, alive) => FrameOK(g, alive')
  BY DEF FrameOK
<1>2. CASE u # t
  BY <1>1, <1>2 DEF Entered, Others, FramesInv
<1>3. CASE u = t /\ i # 1
  <2>1. i - 1 \in 1 .. Len(stack[t]) /\ stack'[t][i] = stack[t][i - 1]
    BY <1>3 DEF Entered, Others
  <2> QED BY <1>1, <1>3, <2>1 DEF FramesInv
<1> QED BY <1>2, <1>3 DEF Entered

LEMMA FramesReplaced ==
    ASSUME FramesInv, alive' \subseteq alive, NEW t \in Threads,
           NEW f, Replaced(t, f), FrameOK(f, alive')
    PROVE  FramesInv'
<1>1. \A g : FrameOK(g, alive) => FrameOK(g, alive')
  BY DEF FrameOK
<1> QED BY <1>1 DEF Replaced, Others, FramesInv

LEMMA FramesReturned ==
    ASSUME FramesInv, alive' \subseteq alive, NEW t \in Threads,
           Returned(t)
    PROVE  FramesInv'
<1> SUFFICES ASSUME NEW u \in Threads, NEW i \in 1 .. Len(stack'[u])
             PROVE  FrameOK(stack'[u][i], alive')
  BY DEF FramesInv
<1>1. \A g : FrameOK(g, alive) => FrameOK(g, alive')
  BY DEF FrameOK
<1>2. CASE u # t
  BY <1>1, <1>2 DEF Returned, Others, FramesInv
<1>3. CASE u = t
  <2>1. i + 1 \in 1 .. Len(stack[t]) /\ stack'[t][i] = stack[t][i + 1]
    BY <1>3 DEF Returned, Others
  <2> QED BY <1>1, <1>3, <2>1 DEF FramesInv
<1> QED BY <1>2, <1>3

LEMMA FramesInterposed ==
    ASSUME FramesInv, alive' \subseteq alive, NEW t \in Threads,
           NEW g, NEW f, Interposed(t, g, f), FrameOK(g, alive'), FrameOK(f, alive')
    PROVE  FramesInv'
<1> SUFFICES ASSUME NEW u \in Threads, NEW i \in 1 .. Len(stack'[u])
             PROVE  FrameOK(stack'[u][i], alive')
  BY DEF FramesInv
<1>1. \A h : FrameOK(h, alive) => FrameOK(h, alive')
  BY DEF FrameOK
<1>2. CASE u # t
  BY <1>1, <1>2 DEF Interposed, Others, FramesInv
<1>3. CASE u = t /\ i \notin {1, 2}
  <2>1. i - 1 \in 2 .. Len(stack[t]) /\ stack'[t][i] = stack[t][i - 1]
    BY <1>3 DEF Interposed, Others
  <2> QED BY <1>1, <1>3, <2>1 DEF FramesInv
<1> QED BY <1>2, <1>3 DEF Interposed

LEMMA FramesEnteredTwice ==
    ASSUME FramesInv, alive' \subseteq alive, NEW t \in Threads,
           NEW g, NEW f, EnteredTwice(t, g, f), FrameOK(g, alive'), FrameOK(f, alive')
    PROVE  FramesInv'
<1> SUFFICES ASSUME NEW u \in Threads, NEW i \in 1 .. Len(stack'[u])
             PROVE  FrameOK(stack'[u][i], alive')
  BY DEF FramesInv
<1>1. \A h : FrameOK(h, alive) => FrameOK(h, alive')
  BY DEF FrameOK
<1>2. CASE u # t
  BY <1>1, <1>2 DEF EnteredTwice, Others, FramesInv
<1>3. CASE u = t /\ i \notin {1, 2}
  <2>1. i - 2 \in 1 .. Len(stack[t]) /\ stack'[t][i] = stack[t][i - 2]
    BY <1>3 DEF EnteredTwice, Others
  <2> QED BY <1>1, <1>3, <2>1 DEF FramesInv
<1> QED BY <1>2, <1>3 DEF EnteredTwice

-----------------------------------------------------------------------------
(* MutexOK, by what happens to the stacks and the mutex. *)

LEMMA MutexEnteredOK ==
    ASSUME NEW m, MutexOK(m), NEW t \in Threads,
           NEW f, Entered(t, f), ~Critical(f, m), mutex'[m] = mutex[m]
    PROVE  MutexOK(m)'
<1> SUFFICES ASSUME NEW u \in Threads
             PROVE  /\ \A i \in 1 .. Len(stack'[u]) : Critical(stack'[u][i], m) =>
                         /\ mutex[m] = u
                         /\ \A j \in 1 .. Len(stack'[u]) : Critical(stack'[u][j], m) => i = j
                    /\ mutex[m] = u =>
                         \E i \in 1 .. Len(stack'[u]) : Critical(stack'[u][i], m)
  BY DEF MutexOK, Critical
<1>1. CASE u # t
  <2>1. stack'[u] = stack[u]
    BY <1>1 DEF Entered, Others
  <2> QED BY <2>1 DEF MutexOK
<1>2. CASE u = t
  <2>1. \A i \in 1 .. Len(stack'[t]) : Critical(stack'[t][i], m) =>
           i - 1 \in 1 .. Len(stack[t]) /\ stack'[t][i] = stack[t][i - 1]
    BY DEF Entered, Others
  <2>2. \A i \in 1 .. Len(stack[t]) :
           i + 1 \in 1 .. Len(stack'[t]) /\ stack'[t][i + 1] = stack[t][i]
    BY DEF Entered, Others
  <2>3. \A i \in 1 .. Len(stack'[t]) : Critical(stack'[t][i], m) => mutex[m] = t
    BY <2>1, <2>2 DEF MutexOK
  <2>4. \A i, j \in 1 .. Len(stack'[t]) :
           Critical(stack'[t][i], m) /\ Critical(stack'[t][j], m) => i = j
    <3> SUFFICES ASSUME NEW i \in 1 .. Len(stack'[t]), NEW j \in 1 .. Len(stack'[t]),
                        Critical(stack'[t][i], m), Critical(stack'[t][j], m)
                 PROVE  i = j
      OBVIOUS
    <3>1. i - 1 = j - 1
      BY <2>1 DEF MutexOK
    <3> QED BY <3>1
  <2>5. mutex[m] = t => \E i \in 1 .. Len(stack'[t]) : Critical(stack'[t][i], m)
    BY <2>2 DEF MutexOK
  <2> QED BY <1>2, <2>3, <2>4, <2>5
<1> QED BY <1>1, <1>2

LEMMA MutexReplacedOK ==
    ASSUME NEW m, MutexOK(m), NEW t \in Threads,
           NEW f, Replaced(t, f), Critical(f, m) <=> Critical(stack[t][1], m),
           mutex'[m] = mutex[m]
    PROVE  MutexOK(m)'
<1>1. \A u \in Threads : Len(stack'[u]) = Len(stack[u])
  BY DEF Replaced, Others
<1>2. \A u \in Threads : \A i \in 1 .. Len(stack[u]) :
         Critical(stack'[u][i], m) <=> Critical(stack[u][i], m)
  BY DEF Replaced, Others
<1> QED BY <1>1, <1>2 DEF MutexOK, Critical

LEMMA MutexLockedOK ==
    ASSUME NEW m, MutexOK(m), NEW t \in Threads, NEW f, Replaced(t, f),
           mutex[m] = None, mutex'[m] = t, Critical(f, m)
    PROVE  MutexOK(m)'
<1>1. \A u \in Threads : \A i \in 1 .. Len(stack[u]) : ~Critical(stack[u][i], m)
  BY NoneAssumption DEF MutexOK
<1> QED BY <1>1 DEF Replaced, Others, MutexOK, Critical

LEMMA MutexUnlockedOK ==
    ASSUME NEW m, MutexOK(m), NEW t \in Threads,
           Critical(stack[t][1], m), mutex'[m] = None,
           \/ Returned(t)
           \/ \E f : Replaced(t, f) /\ ~Critical(f, m)
           \/ \E g, f : Interposed(t, g, f) /\ ~Critical(g, m) /\ ~Critical(f, m)
    PROVE  MutexOK(m)' /\ \A u \in Threads : \A i \in 1 .. Len(stack'[u]) : ~Critical(stack'[u][i], m)
<1>0. Len(stack[t]) > 0 /\ Len(stack[t]) \in Nat
  BY DEF Returned, Replaced, Interposed, Others
<1>1. \A u \in Threads : u # t => \A i \in 1 .. Len(stack[u]) : ~Critical(stack[u][i], m)
  BY <1>0 DEF MutexOK
<1>2. \A i \in 2 .. Len(stack[t]) : ~Critical(stack[t][i], m)
  BY <1>0 DEF MutexOK
<1>3. \A u \in Threads : \A i \in 1 .. Len(stack'[u]) : ~Critical(stack'[u][i], m)
  <2>1. CASE Returned(t) \/ \E f : Replaced(t, f) /\ ~Critical(f, m)
    BY <1>1, <1>2, <2>1 DEF Replaced, Returned, Others
  <2>2. CASE \E g, f : Interposed(t, g, f) /\ ~Critical(g, m) /\ ~Critical(f, m)
    <3>1. PICK g, f : Interposed(t, g, f) /\ ~Critical(g, m) /\ ~Critical(f, m)
      BY <2>2
    <3>2. ASSUME NEW i \in 1 .. Len(stack'[t]) PROVE ~Critical(stack'[t][i], m)
      <4>1. CASE i \in {1, 2}
        BY <3>1, <4>1 DEF Interposed
      <4>2. CASE i \notin {1, 2}
        <5>1. i - 1 \in 2 .. Len(stack[t]) /\ stack'[t][i] = stack[t][i - 1]
          BY <3>1, <4>2 DEF Interposed, Others
        <5> QED BY <1>2, <5>1
      <4> QED BY <4>1, <4>2
    <3>3. \A u \in Threads : u # t => stack'[u] = stack[u]
      BY <3>1 DEF Interposed, Others
    <3> QED BY <1>1, <3>2, <3>3
  <2> QED BY <2>1, <2>2
<1> QED BY <1>3, NoneAssumption DEF MutexOK, Critical

LEMMA MutexReturnedOK ==
    ASSUME NEW m, MutexOK(m), NEW t \in Threads, Returned(t),
           ~Critical(stack[t][1], m), mutex'[m] = mutex[m]
    PROVE  MutexOK(m)'
<1> SUFFICES ASSUME NEW u \in Threads
             PROVE  /\ \A i \in 1 .. Len(stack'[u]) : Critical(stack'[u][i], m) =>
                         /\ mutex[m] = u
                         /\ \A j \in 1 .. Len(stack'[u]) : Critical(stack'[u][j], m) => i = j
                    /\ mutex[m] = u =>
                         \E i \in 1 .. Len(stack'[u]) : Critical(stack'[u][i], m)
  BY DEF MutexOK, Critical
<1>1. CASE u # t
  <2>1. stack'[u] = stack[u]
    BY <1>1 DEF Returned, Others
  <2> QED BY <2>1 DEF MutexOK
<1>2. CASE u = t
  <2>1. \A i \in 1 .. Len(stack[t]) : Critical(stack[t][i], m) =>
           i - 1 \in 1 .. Len(stack'[t]) /\ stack'[t][i - 1] = stack[t][i]
    BY DEF Returned, Others
  <2>2. \A i \in 1 .. Len(stack'[t]) :
           i + 1 \in 1 .. Len(stack[t]) /\ stack'[t][i] = stack[t][i + 1]
    BY DEF Returned, Others
  <2>3. \A i \in 1 .. Len(stack'[t]) : Critical(stack'[t][i], m) => mutex[m] = t
    BY <2>1, <2>2 DEF MutexOK
  <2>4. \A i, j \in 1 .. Len(stack'[t]) :
           Critical(stack'[t][i], m) /\ Critical(stack'[t][j], m) => i = j
    <3> SUFFICES ASSUME NEW i \in 1 .. Len(stack'[t]), NEW j \in 1 .. Len(stack'[t]),
                        Critical(stack'[t][i], m), Critical(stack'[t][j], m)
                 PROVE  i = j
      OBVIOUS
    <3>1. i + 1 = j + 1
      BY <2>2 DEF MutexOK
    <3> QED BY <3>1
  <2>5. mutex[m] = t => \E i \in 1 .. Len(stack'[t]) : Critical(stack'[t][i], m)
    BY <2>1 DEF MutexOK
  <2> QED BY <1>2, <2>3, <2>4, <2>5
<1> QED BY <1>1, <1>2

LEMMA MutexInterposedOK ==
    ASSUME NEW m, MutexOK(m), NEW t \in Threads,
           NEW g, NEW f, Interposed(t, g, f), Critical(g, m) <=> Critical(stack[t][1], m),
           ~Critical(f, m), mutex'[m] = mutex[m]
    PROVE  MutexOK(m)'
<1> SUFFICES ASSUME NEW u \in Threads
             PROVE  /\ \A i \in 1 .. Len(stack'[u]) : Critical(stack'[u][i], m) =>
                         /\ mutex[m] = u
                         /\ \A j \in 1 .. Len(stack'[u]) : Critical(stack'[u][j], m) => i = j
                    /\ mutex[m] = u =>
                         \E i \in 1 .. Len(stack'[u]) : Critical(stack'[u][i], m)
  BY DEF MutexOK, Critical
<1>1. CASE u # t
  <2>1. stack'[u] = stack[u]
    BY <1>1 DEF Interposed, Others
  <2> QED BY <2>1 DEF MutexOK
<1>2. CASE u = t
  <2>1. \A i \in 1 .. Len(stack'[t]) : Critical(stack'[t][i], m) =>
           i - 1 \in 1 .. Len(stack[t]) /\ Critical(stack[t][i - 1], m)
    BY DEF Interposed, Others
  <2>2. \A i \in 1 .. Len(stack[t]) :
           /\ i + 1 \in 1 .. Len(stack'[t])
           /\ Critical(stack'[t][i + 1], m) <=> Critical(stack[t][i], m)
    BY DEF Interposed, Others
  <2>3. \A i \in 1 .. Len(stack'[t]) : Critical(stack'[t][i], m) => mutex[m] = t
    BY <2>1, <2>2 DEF MutexOK
  <2>4. \A i, j \in 1 .. Len(stack'[t]) :
           Critical(stack'[t][i], m) /\ Critical(stack'[t][j], m) => i = j
    <3> SUFFICES ASSUME NEW i \in 1 .. Len(stack'[t]), NEW j \in 1 .. Len(stack'[t]),
                        Critical(stack'[t][i], m), Critical(stack'[t][j], m)
                 PROVE  i = j
      OBVIOUS
    <3>1. i - 1 = j - 1
      BY <2>1 DEF MutexOK
    <3> QED BY <3>1
  <2>5. mutex[m] = t => \E i \in 1 .. Len(stack'[t]) : Critical(stack'[t][i], m)
    BY <2>2 DEF MutexOK
  <2> QED BY <1>2, <2>3, <2>4, <2>5
<1> QED BY <1>1, <1>2

LEMMA MutexEnteredTwiceOK ==
    ASSUME NEW m, MutexOK(m), NEW t \in Threads, NEW g, NEW f, EnteredTwice(t, g, f),
           ~Critical(g, m), ~Critical(f, m), mutex'[m] = mutex[m]
    PROVE  MutexOK(m)'
<1> SUFFICES ASSUME NEW u \in Threads
             PROVE  /\ \A i \in 1 .. Len(stack'[u]) : Critical(stack'[u][i], m) =>
                         /\ mutex[m] = u
                         /\ \A j \in 1 .. Len(stack'[u]) : Critical(stack'[u][j], m) => i = j
                    /\ mutex[m] = u =>
                         \E i \in 1 .. Len(stack'[u]) : Critical(stack'[u][i], m)
  BY DEF MutexOK, Critical
<1>1. CASE u # t
  <2>1. stack'[u] = stack[u]
    BY <1>1 DEF EnteredTwice, Others
  <2> QED BY <2>1 DEF MutexOK
<1>2. CASE u = t
  <2>1. \A i \in 1 .. Len(stack'[t]) : Critical(stack'[t][i], m) =>
           i - 2 \in 1 .. Len(stack[t]) /\ stack'[t][i] = stack[t][i - 2]
    BY DEF EnteredTwice, Others
  <2>2. \A i \in 1 .. Len(stack[t]) :
           i + 2 \in 1 .. Len(stack'[t]) /\ stack'[t][i + 2] = stack[t][i]
    BY DEF EnteredTwice, Others
  <2>3. \A i \in 1 .. Len(stack'[t]) : Critical(stack'[t][i], m) => mutex[m] = t
    BY <2>1, <2>2 DEF MutexOK
  <2>4. \A i, j \in 1 .. Len(stack'[t]) :
           Critical(stack'[t][i], m) /\ Critical(stack'[t][j], m) => i = j
    <3> SUFFICES ASSUME NEW i \in 1 .. Len(stack'[t]), NEW j \in 1 .. Len(stack'[t]),
                        Critical(stack'[t][i], m), Critical(stack'[t][j], m)
                 PROVE  i = j
      OBVIOUS
    <3>1. i - 2 = j - 2
      BY <2>1 DEF MutexOK
    <3> QED BY <3>1
  <2>5. mutex[m] = t => \E i \in 1 .. Len(stack'[t]) : Critical(stack'[t][i], m)
    BY <2>2 DEF MutexOK
  <2> QED BY <1>2, <2>3, <2>4, <2>5
<1> QED BY <1>1, <1>2

(* The same for all mutexes at once. *)
LEMMA MutexOfLemma == \A op : MutexOf(op) \in Mutexes
BY DEF MutexOf, Mutexes

LEMMA WaitsOutside == \A f : f.pc \in {"lock", "disconnecting"} => Outside(f)
BY DEF Outside, Critical

LEMMA MutexEntered ==
    ASSUME MutexInv, UNCHANGED mutex, NEW t \in Threads, NEW f, Entered(t, f), Outside(f)
    PROVE  MutexInv'
BY MutexEnteredOK DEF MutexInv, Outside

LEMMA MutexEnteredTwice ==
    ASSUME MutexInv, UNCHANGED mutex, NEW t \in Threads, NEW g, NEW f,
           EnteredTwice(t, g, f), Outside(g), Outside(f)
    PROVE  MutexInv'
BY MutexEnteredTwiceOK DEF MutexInv, Outside

LEMMA MutexReplaced ==
    ASSUME MutexInv, UNCHANGED mutex, NEW t \in Threads, NEW f, Replaced(t, f),
           Same(f, stack[t][1])
    PROVE  MutexInv'
BY MutexReplacedOK DEF MutexInv, Same

LEMMA MutexReturned ==
    ASSUME MutexInv, UNCHANGED mutex, NEW t \in Threads, Returned(t), Outside(stack[t][1])
    PROVE  MutexInv'
BY MutexReturnedOK DEF MutexInv, Outside

LEMMA MutexInterposed ==
    ASSUME MutexInv, UNCHANGED mutex, NEW t \in Threads, NEW g, NEW f,
           Interposed(t, g, f), Same(g, stack[t][1]), Outside(f)
    PROVE  MutexInv'
BY MutexInterposedOK DEF MutexInv, Same, Outside

LEMMA MutexLocked ==
    ASSUME MutexInv, mutex \in [Mutexes -> Threads \cup {None}], NEW t \in Threads,
           NEW f, Replaced(t, f), NEW m \in Mutexes, mutex[m] = None,
           mutex' = [mutex EXCEPT ![m] = t], Critical(f, m), Outside(stack[t][1])
    PROVE  MutexInv' /\ mutex' \in [Mutexes -> Threads \cup {None}]
<1> SUFFICES ASSUME NEW k \in Mutexes PROVE MutexOK(k)'
  BY DEF MutexInv
<1>1. MutexOK(k)
  BY DEF MutexInv
<1>2. CASE k = m
  BY <1>1, <1>2, MutexLockedOK
<1>3. CASE k # m
  <2>1. ~Critical(f, k) /\ ~Critical(stack[t][1], k) /\ mutex'[k] = mutex[k]
    BY <1>3 DEF Critical, Outside
  <2> QED BY <1>1, <2>1, MutexReplacedOK
<1> QED BY <1>2, <1>3

LEMMA MutexUnlocked ==
    ASSUME MutexInv, mutex \in [Mutexes -> Threads \cup {None}], NEW t \in Threads,
           NEW m \in Mutexes, Critical(stack[t][1], m), mutex' = [mutex EXCEPT ![m] = None],
           \/ Returned(t)
           \/ \E f : Replaced(t, f) /\ Outside(f)
           \/ \E g, f : Interposed(t, g, f) /\ Outside(g) /\ Outside(f)
    PROVE  MutexInv' /\ mutex' \in [Mutexes -> Threads \cup {None}]
<1> SUFFICES ASSUME NEW k \in Mutexes PROVE MutexOK(k)'
  BY DEF MutexInv
<1>1. MutexOK(k)
  BY DEF MutexInv
<1>2. CASE k = m
  <2>1. mutex'[m] = None
    OBVIOUS
  <2>2. \/ Returned(t)
        \/ \E f : Replaced(t, f) /\ ~Critical(f, m)
        \/ \E g, f : Interposed(t, g, f) /\ ~Critical(g, m) /\ ~Critical(f, m)
    BY DEF Outside
  <2> QED BY <1>1, <1>2, <2>1, <2>2, MutexUnlockedOK, Zenon
<1>3. CASE k # m
  <2>1. ~Critical(stack[t][1], k) /\ mutex'[k] = mutex[k]
    BY <1>3 DEF Critical
  <2>2. CASE Returned(t)
    BY <1>1, <2>1, <2>2, MutexReturnedOK
  <2>3. CASE \E f : Replaced(t, f) /\ Outside(f)
    BY <1>1, <2>1, <2>3, MutexReplacedOK DEF Outside
  <2>4. CASE \E g, f : Interposed(t, g, f) /\ Outside(g) /\ Outside(f)
    BY <1>1, <2>1, <2>4, MutexInterposedOK DEF Outside
  <2> QED BY <2>2, <2>3, <2>4
<1> QED BY <1>2, <1>3

(* While the innermost call of t is inside clients_mutex_, no other call    *)
(* tests the list.                                                         *)
LEMMA Alone ==
    ASSUME MutexInv, NEW t \in Threads, Critical(stack[t][1], "clients_mutex_"),
           NEW g, ~Tests(g),
           \/ Replaced(t, g)
           \/ \E f : Interposed(t, g, f) /\ ~Tests(f)
    PROVE  \A u \in Threads : \A i \in 1 .. Len(stack'[u]) : ~Tests(stack'[u][i])
<1>1. MutexOK("clients_mutex_")
  BY DEF MutexInv, Mutexes
<1>2. \A f : Tests(f) => Critical(f, "clients_mutex_")
  BY DEF Tests, Critical, MutexOf
<1>3. Len(stack[t]) > 0 /\ Len(stack[t]) \in Nat
  BY DEF Replaced, Interposed, Others
<1>4. \A u \in Threads : u # t => \A i \in 1 .. Len(stack[u]) : ~Tests(stack[u][i])
  BY <1>1, <1>2, <1>3 DEF MutexOK
<1>5. \A i \in 2 .. Len(stack[t]) : ~Tests(stack[t][i])
  BY <1>1, <1>2, <1>3 DEF MutexOK
<1>6. CASE Replaced(t, g)
  BY <1>4, <1>5, <1>6 DEF Replaced, Others
<1>7. CASE \E f : Interposed(t, g, f) /\ ~Tests(f)
  <2>1. PICK f : Interposed(t, g, f) /\ ~Tests(f)
    BY <1>7
  <2>2. ASSUME NEW i \in 1 .. Len(stack'[t]) PROVE ~Tests(stack'[t][i])
    <3>1. CASE i \in {1, 2}
      BY <2>1, <3>1 DEF Interposed
    <3>2. CASE i \notin {1, 2}
      <4>1. i - 1 \in 2 .. Len(stack[t]) /\ stack'[t][i] = stack[t][i - 1]
        BY <2>1, <3>2 DEF Interposed, Others
      <4> QED BY <1>5, <4>1
    <3> QED BY <3>1, <3>2
  <2>3. \A u \in Threads : u # t => stack'[u] = stack[u]
    BY <2>1 DEF Interposed, Others
  <2> QED BY <1>4, <2>2, <2>3
<1> QED BY <1>6, <1>7

-----------------------------------------------------------------------------
(* CoverInv, by what happens to the stacks. *)

Alike(f, g) == f.op = g.op \/ (f.op \in LogCalls /\ g.op \in LogCalls)

LEMMA CoverEntered ==
    ASSUME CoverInv, NEW t \in Threads, NEW f, Entered(t, f),
           Len(stack[t]) > 0 /\ Exposed(stack[t][1]) => Covers(f, stack[t][1])
    PROVE  CoverInv'
<1> SUFFICES ASSUME NEW u \in Threads, NEW i \in 2 .. Len(stack'[u]), Exposed(stack'[u][i])
             PROVE  Covers(stack'[u][i - 1], stack'[u][i])
  BY DEF CoverInv, Covers, Exposed
<1>1. CASE u # t
  <2>1. stack'[u] = stack[u]
    BY <1>1 DEF Entered, Others
  <2> QED BY <2>1 DEF CoverInv
<1>2. CASE u = t /\ i = 2
  BY <1>2 DEF Entered, Others
<1>3. CASE u = t /\ i # 2
  <2>1. /\ i - 1 \in 2 .. Len(stack[t]) /\ i - 1 \in 2 .. Len(stack'[t])
        /\ stack'[t][i] = stack[t][i - 1]
    BY <1>3 DEF Entered, Others
  <2>2. stack'[t][i - 1] = stack[t][(i - 1) - 1]
    BY <2>1 DEF Entered, Others
  <2> QED BY <1>3, <2>1, <2>2 DEF CoverInv
<1> QED BY <1>1, <1>2, <1>3

LEMMA CoverReplaced ==
    ASSUME CoverInv, NEW t \in Threads, NEW f, Replaced(t, f), Alike(f, stack[t][1])
    PROVE  CoverInv'
<1> SUFFICES ASSUME NEW u \in Threads, NEW i \in 2 .. Len(stack'[u]), Exposed(stack'[u][i])
             PROVE  Covers(stack'[u][i - 1], stack'[u][i])
  BY DEF CoverInv, Covers, Exposed
<1>1. CASE u # t
  <2>1. stack'[u] = stack[u]
    BY <1>1 DEF Replaced, Others
  <2> QED BY <2>1 DEF CoverInv
<1>2. CASE u = t
  <2>1. i \in 2 .. Len(stack[t]) /\ stack'[t][i] = stack[t][i]
    BY <1>2 DEF Replaced, Others
  <2>2. Alike(stack'[t][i - 1], stack[t][i - 1])
    <3>1. CASE i - 1 = 1
      BY <3>1 DEF Replaced
    <3>2. CASE i - 1 # 1
      <4>1. i - 1 \in 2 .. Len(stack[t])
        BY <2>1, <3>2 DEF Replaced, Others
      <4>2. stack'[t][i - 1] = stack[t][i - 1]
        BY <4>1 DEF Replaced
      <4> QED BY <4>2 DEF Alike
    <3> QED BY <3>1, <3>2
  <2>3. Covers(stack[t][i - 1], stack[t][i])
    BY <1>2, <2>1 DEF CoverInv
  <2> QED BY <1>2, <2>1, <2>2, <2>3 DEF Covers, Alike, LogCalls
<1> QED BY <1>1, <1>2

LEMMA CoverReturned ==
    ASSUME CoverInv, NEW t \in Threads, Returned(t)
    PROVE  CoverInv'
<1> SUFFICES ASSUME NEW u \in Threads, NEW i \in 2 .. Len(stack'[u]), Exposed(stack'[u][i])
             PROVE  Covers(stack'[u][i - 1], stack'[u][i])
  BY DEF CoverInv, Covers, Exposed
<1>1. CASE u # t
  <2>1. stack'[u] = stack[u]
    BY <1>1 DEF Returned, Others
  <2> QED BY <2>1 DEF CoverInv
<1>2. CASE u = t
  <2>1. /\ i + 1 \in 2 .. Len(stack[t]) /\ (i + 1) - 1 = i
        /\ stack'[t][i] = stack[t][i + 1]
    BY <1>2 DEF Returned, Others
  <2>2. stack'[t][i - 1] = stack[t][i]
    BY <1>2, <2>1 DEF Returned, Others
  <2> QED BY <1>2, <2>1, <2>2 DEF CoverInv
<1> QED BY <1>1, <1>2

LEMMA CoverInterposed ==
    ASSUME CoverInv, NEW t \in Threads, NEW g, NEW f, Interposed(t, g, f),
           g.op = stack[t][1].op, Exposed(g) => Covers(f, g)
    PROVE  CoverInv'
<1> SUFFICES ASSUME NEW u \in Threads, NEW i \in 2 .. Len(stack'[u]), Exposed(stack'[u][i])
             PROVE  Covers(stack'[u][i - 1], stack'[u][i])
  BY DEF CoverInv, Covers, Exposed
<1>1. CASE u # t
  <2>1. stack'[u] = stack[u]
    BY <1>1 DEF Interposed, Others
  <2> QED BY <2>1 DEF CoverInv
<1>2. CASE u = t /\ i = 2
  BY <1>2 DEF Interposed, Others
<1>3. CASE u = t /\ i # 2
  <2>1. /\ i - 1 \in 2 .. Len(stack[t])
        /\ stack'[t][i] = stack[t][i - 1]
    BY <1>3 DEF Interposed, Others
  <2>2. stack'[t][i - 1].op = stack[t][(i - 1) - 1].op
    <3>1. CASE i - 1 = 2
      <4>1. (i - 1) - 1 = 1
        BY <3>1
      <4> QED BY <3>1, <4>1 DEF Interposed
    <3>2. CASE i - 1 # 2
      <4>1. i - 1 \in 3 .. Len(stack'[t])
        BY <1>3, <3>2 DEF Interposed, Others
      <4> QED BY <4>1 DEF Interposed
    <3> QED BY <3>1, <3>2
  <2>3. Covers(stack[t][(i - 1) - 1], stack[t][i - 1])
    BY <1>3, <2>1 DEF CoverInv
  <2> QED BY <1>3, <2>1, <2>2, <2>3 DEF Covers
<1> QED BY <1>1, <1>2, <1>3

LEMMA CoverEnteredTwice ==
    ASSUME CoverInv, NEW t \in Threads, NEW g, NEW f, EnteredTwice(t, g, f),
           Exposed(g) => Covers(f, g),
           Len(stack[t]) > 0 /\ Exposed(stack[t][1]) => Covers(g, stack[t][1])
    PROVE  CoverInv'
<1> SUFFICES ASSUME NEW u \in Threads, NEW i \in 2 .. Len(stack'[u]), Exposed(stack'[u][i])
             PROVE  Covers(stack'[u][i - 1], stack'[u][i])
  BY DEF CoverInv, Covers, Exposed
<1>1. CASE u # t
  <2>1. stack'[u] = stack[u]
    BY <1>1 DEF EnteredTwice, Others
  <2> QED BY <2>1 DEF CoverInv
<1>2. CASE u = t /\ i = 2
  BY <1>2 DEF EnteredTwice, Others
<1>3. CASE u = t /\ i = 3
  <2>1. Len(stack[t]) > 0 /\ stack'[t][3] = stack[t][1]
    <3>1. Len(stack[t]) > 0 /\ 3 \in 3 .. Len(stack'[t]) /\ 3 - 2 = 1
      BY <1>3 DEF EnteredTwice, Others
    <3> QED BY <3>1 DEF EnteredTwice
  <2> QED BY <1>3, <2>1 DEF EnteredTwice
<1>4. CASE u = t /\ i \notin {2, 3}
  <2>1. /\ i - 2 \in 2 .. Len(stack[t]) /\ i - 1 \in 3 .. Len(stack'[t])
        /\ (i - 1) - 2 = (i - 2) - 1
        /\ stack'[t][i] = stack[t][i - 2]
    BY <1>4 DEF EnteredTwice, Others
  <2>2. stack'[t][i - 1] = stack[t][(i - 1) - 2]
    BY <2>1 DEF EnteredTwice, Others
  <2>3. stack'[t][i - 1] = stack[t][(i - 2) - 1]
    BY <2>1, <2>2
  <2> QED BY <1>4, <2>1, <2>3 DEF CoverInv
<1> QED BY <1>1, <1>2, <1>3, <1>4

-----------------------------------------------------------------------------
(* KeptInv, by what happens to the stacks, while the list is left alone.   *)

LEMMA KeepsLemma ==
    ASSUME NEW f, UNCHANGED <<clients_, registered>>, alive' \subseteq alive,
           Keeps(f, clients_, registered \cap alive)
    PROVE  Keeps(f, clients_', registered' \cap alive')
BY DEF Keeps, Untested

LEMMA KeptEntered ==
    ASSUME KeptInv, UNCHANGED <<clients_, registered>>, alive' \subseteq alive,
           NEW t \in Threads, NEW f, Entered(t, f), f.pc = "lock"
    PROVE  KeptInv'
<1> SUFFICES ASSUME NEW u \in Threads, NEW i \in 1 .. Len(stack'[u])
             PROVE  Keeps(stack'[u][i], clients_', registered' \cap alive')
  BY DEF KeptInv
<1>1. CASE u # t
  <2>1. stack'[u] = stack[u]
    BY <1>1 DEF Entered, Others
  <2> QED BY <2>1, KeepsLemma DEF KeptInv
<1>2. CASE u = t /\ i = 1
  BY <1>2 DEF Entered, Keeps, Tests
<1>3. CASE u = t /\ i # 1
  <2>1. i - 1 \in 1 .. Len(stack[t]) /\ stack'[t][i] = stack[t][i - 1]
    BY <1>3 DEF Entered, Others
  <2> QED BY <1>3, <2>1, KeepsLemma DEF KeptInv
<1> QED BY <1>1, <1>2, <1>3

LEMMA KeptReplaced ==
    ASSUME KeptInv, UNCHANGED <<clients_, registered>>, alive' \subseteq alive,
           NEW t \in Threads, NEW f, Replaced(t, f),
           Keeps(f, clients_, registered \cap alive)
    PROVE  KeptInv'
<1> SUFFICES ASSUME NEW u \in Threads, NEW i \in 1 .. Len(stack'[u])
             PROVE  Keeps(stack'[u][i], clients_', registered' \cap alive')
  BY DEF KeptInv
<1>1. CASE u # t
  <2>1. stack'[u] = stack[u]
    BY <1>1 DEF Replaced, Others
  <2> QED BY <2>1, KeepsLemma DEF KeptInv
<1>2. CASE u = t /\ i = 1
  BY <1>2, KeepsLemma DEF Replaced
<1>3. CASE u = t /\ i # 1
  <2>1. i \in 1 .. Len(stack[t]) /\ stack'[t][i] = stack[t][i]
    BY <1>3 DEF Replaced, Others
  <2> QED BY <1>3, <2>1, KeepsLemma DEF KeptInv
<1> QED BY <1>1, <1>2, <1>3

LEMMA KeptReturned ==
    ASSUME KeptInv, UNCHANGED <<clients_, registered>>, alive' \subseteq alive,
           NEW t \in Threads, Returned(t)
    PROVE  KeptInv'
<1> SUFFICES ASSUME NEW u \in Threads, NEW i \in 1 .. Len(stack'[u])
             PROVE  Keeps(stack'[u][i], clients_', registered' \cap alive')
  BY DEF KeptInv
<1>1. CASE u # t
  <2>1. stack'[u] = stack[u]
    BY <1>1 DEF Returned, Others
  <2> QED BY <2>1, KeepsLemma DEF KeptInv
<1>2. CASE u = t
  <2>1. i + 1 \in 1 .. Len(stack[t]) /\ stack'[t][i] = stack[t][i + 1]
    BY <1>2 DEF Returned, Others
  <2> QED BY <1>2, <2>1, KeepsLemma DEF KeptInv
<1> QED BY <1>1, <1>2

LEMMA KeptInterposed ==
    ASSUME KeptInv, UNCHANGED <<clients_, registered>>, alive' \subseteq alive,
           NEW t \in Threads, NEW g, NEW f, Interposed(t, g, f), f.pc = "lock",
           Keeps(g, clients_, registered \cap alive)
    PROVE  KeptInv'
<1> SUFFICES ASSUME NEW u \in Threads, NEW i \in 1 .. Len(stack'[u])
             PROVE  Keeps(stack'[u][i], clients_', registered' \cap alive')
  BY DEF KeptInv
<1>1. CASE u # t
  <2>1. stack'[u] = stack[u]
    BY <1>1 DEF Interposed, Others
  <2> QED BY <2>1, KeepsLemma DEF KeptInv
<1>2. CASE u = t /\ i = 1
  BY <1>2 DEF Interposed, Keeps, Tests
<1>3. CASE u = t /\ i = 2
  BY <1>3, KeepsLemma DEF Interposed
<1>4. CASE u = t /\ i \notin {1, 2}
  <2>1. i - 1 \in 1 .. Len(stack[t]) /\ stack'[t][i] = stack[t][i - 1]
    BY <1>4 DEF Interposed, Others
  <2> QED BY <1>4, <2>1, KeepsLemma DEF KeptInv
<1> QED BY <1>1, <1>2, <1>3, <1>4

LEMMA KeptEnteredTwice ==
    ASSUME KeptInv, UNCHANGED <<clients_, registered>>, alive' \subseteq alive,
           NEW t \in Threads, NEW g, NEW f, EnteredTwice(t, g, f), f.pc = "lock", g.pc = "lock"
    PROVE  KeptInv'
<1> SUFFICES ASSUME NEW u \in Threads, NEW i \in 1 .. Len(stack'[u])
             PROVE  Keeps(stack'[u][i], clients_', registered' \cap alive')
  BY DEF KeptInv
<1>1. CASE u # t
  <2>1. stack'[u] = stack[u]
    BY <1>1 DEF EnteredTwice, Others
  <2> QED BY <2>1, KeepsLemma DEF KeptInv
<1>2. CASE u = t /\ i \in {1, 2}
  BY <1>2 DEF EnteredTwice, Keeps, Tests
<1>3. CASE u = t /\ i \notin {1, 2}
  <2>1. i - 2 \in 1 .. Len(stack[t]) /\ stack'[t][i] = stack[t][i - 2]
    BY <1>3 DEF EnteredTwice, Others
  <2> QED BY <1>3, <2>1, KeepsLemma DEF KeptInv
<1> QED BY <1>1, <1>2, <1>3

-----------------------------------------------------------------------------
(* NoDangling: who refers to a client after a step, by what happens to the *)
(* stacks.                                                                 *)

(* A frame of thread t refers to c. *)
Refers(s, t, c) == \E i \in 1 .. Len(s[t]) : c \in ToSet(s[t][i].refs)

LEMMA ReferencedLemma ==
    ASSUME NEW h, NEW s \in Stacks, NEW c
    PROVE  Referenced(h, s, c) <=> \E t \in Threads : c \in h[t] \/ Refers(s, t, c)
<1>1. \A t \in Threads : DOMAIN s[t] = 1 .. Len(s[t])
  BY DEF Stacks
<1> QED BY <1>1 DEF Referenced, Refers

LEMMA RefersReplace ==
    ASSUME stack \in Stacks, NEW t \in Threads, stack[t] # <<>>, NEW f \in Calls,
           NEW c, NEW u \in Threads, Refers(Replace(t, f), u, c)
    PROVE  Refers(stack, u, c) \/ c \in ToSet(f.refs)
<1> DEFINE e == Replace(t, f)
<1>1. /\ Len(stack[t]) \in Nat \ {0} /\ Len(e[t]) = Len(stack[t])
      /\ u # t => e[u] = stack[u]
      /\ e[t][1] = f
      /\ \A i \in 2 .. Len(stack[t]) : e[t][i] = stack[t][i]
  BY DEF Replace, Stacks
<1> HIDE DEF e
<1>2. CASE u # t
  BY <1>1, <1>2 DEF Refers, e
<1>3. CASE u = t
  <2>1. PICK i \in 1 .. Len(e[t]) : c \in ToSet(e[t][i].refs)
    BY <1>3 DEF Refers, e
  <2>2. CASE i = 1
    BY <1>1, <2>1, <2>2
  <2>3. CASE i # 1
    <3>1. i \in 1 .. Len(stack[t]) /\ e[t][i] = stack[t][i]
      BY <1>1, <2>3
    <3> QED BY <1>3, <2>1, <3>1 DEF Refers
  <2> QED BY <2>2, <2>3
<1> QED BY <1>2, <1>3

LEMMA RefersReturned ==
    ASSUME NEW t \in Threads, Returned(t), NEW c, NEW u \in Threads, Refers(stack', u, c)
    PROVE  Refers(stack, u, c)
<1>1. CASE u # t
  <2>1. stack'[u] = stack[u]
    BY <1>1 DEF Returned, Others
  <2> QED BY <2>1 DEF Refers
<1>2. CASE u = t
  <2>1. PICK i \in 1 .. Len(stack'[t]) : c \in ToSet(stack'[t][i].refs)
    BY <1>2 DEF Refers
  <2>2. i + 1 \in 1 .. Len(stack[t]) /\ stack'[t][i] = stack[t][i + 1]
    BY DEF Returned, Others
  <2> QED BY <1>2, <2>1, <2>2 DEF Refers
<1> QED BY <1>1, <1>2

(* Entering a call without references, on any stacks. *)
LEMMA RefersEnter ==
    ASSUME NEW s \in Stacks, NEW t \in Threads, NEW f \in Calls, f.refs = <<>>,
           NEW c, NEW u \in Threads
    PROVE  Refers(Enter(s, t, f), u, c) <=> Refers(s, u, c)
<1> DEFINE e == Enter(s, t, f)
<1>1. /\ Len(s[t]) \in Nat /\ Len(e[t]) = Len(s[t]) + 1
      /\ u # t => e[u] = s[u]
      /\ e[t][1] = f
      /\ \A i \in 1 .. Len(s[t]) : e[t][i + 1] = s[t][i]
      /\ \A i \in 2 .. Len(e[t]) : e[t][i] = s[t][i - 1]
  BY DEF Enter, Stacks
<1> HIDE DEF e
<1>2. CASE u # t
  BY <1>1, <1>2 DEF Refers, e
<1>3. CASE u = t
  <2>1. c \notin ToSet(e[t][1].refs)
    BY <1>1 DEF ToSet
  <2>2. ASSUME NEW i \in 1 .. Len(e[t]), c \in ToSet(e[t][i].refs)
        PROVE  i - 1 \in 1 .. Len(s[t]) /\ c \in ToSet(s[t][i - 1].refs)
    <3>1. i # 1
      BY <2>1, <2>2
    <3> QED BY <1>1, <2>2, <3>1
  <2>3. ASSUME NEW i \in 1 .. Len(s[t]), c \in ToSet(s[t][i].refs)
        PROVE  i + 1 \in 1 .. Len(e[t]) /\ c \in ToSet(e[t][i + 1].refs)
    BY <1>1, <2>3
  <2> QED BY <1>3, <2>2, <2>3 DEF Refers, e
<1> QED BY <1>2, <1>3

(* Whoever refers to a client refers to one that is alive. *)
LEMMA DanglingLemma ==
    ASSUME stack \in Stacks, stack' \in Stacks, NoDangling, alive \subseteq alive',
           \A u \in Threads : held'[u] \subseteq held[u],
           \A u \in Threads : \A c \in Clients :
              Refers(stack', u, c) => Refers(stack, u, c) \/ c \in alive
    PROVE  NoDangling'
<1> SUFFICES ASSUME NEW c \in Clients \ alive', Referenced(held', stack', c)
             PROVE  FALSE
  BY DEF NoDangling, Referenced, ToSet
<1>1. PICK t \in Threads : c \in held'[t] \/ Refers(stack', t, c)
  BY ReferencedLemma
<1>2. c \in held[t] \/ Refers(stack, t, c)
  BY <1>1
<1>3. Referenced(held, stack, c)
  BY <1>2, ReferencedLemma
<1> QED BY <1>3 DEF NoDangling

(* Dropping a reference: the client lives on, or its destructor begins.    *)
LEMMA DroppedLemma ==
    ASSUME stack \in Stacks, NoDangling, NEW t \in Threads, NEW h, NEW s \in Stacks,
           NEW c \in Clients, Dropped(t, h, s, c), Call("unregister", c) \in Calls,
           \A u \in Threads : h[u] \subseteq held[u],
           \A u \in Threads : \A d \in Clients : Refers(s, u, d) => Refers(stack, u, d)
    PROVE  /\ held' = h
           /\ \/ stack' = s /\ alive' = alive
              \/ stack' = Enter(s, t, Call("unregister", c)) /\ alive' = alive \ {c}
           /\ NoDangling'
<1>1. /\ held' = h
      /\ \/ stack' = s /\ alive' = alive
         \/ /\ stack' = Enter(s, t, Call("unregister", c)) /\ alive' = alive \ {c}
            /\ ~Referenced(h, s, c)
  BY DEF Dropped
<1>2. Enter(s, t, Call("unregister", c)) \in Stacks
  BY DEF Enter, Stacks
<1>3. CASE stack' = s /\ alive' = alive
  BY <1>1, <1>3, DanglingLemma
<1>4. CASE /\ stack' = Enter(s, t, Call("unregister", c)) /\ alive' = alive \ {c}
           /\ ~Referenced(h, s, c)
  <2> SUFFICES ASSUME NEW d \in Clients \ alive', Referenced(held', stack', d)
               PROVE  FALSE
    BY <1>1, <1>4 DEF NoDangling, Referenced, ToSet
  <2>1. PICK u \in Threads : d \in held'[u] \/ Refers(stack', u, d)
    BY <1>2, <1>4, ReferencedLemma
  <2>2. d \in h[u] \/ Refers(s, u, d)
    <3>1. Call("unregister", c).refs = <<>>
      BY DEF Call
    <3> QED BY <1>1, <1>4, <2>1, <3>1, RefersEnter
  <2>3. Referenced(h, s, d)
    BY <2>2, ReferencedLemma
  <2>4. Referenced(held, stack, d)
    BY <2>2, ReferencedLemma
  <2> QED BY <1>4, <2>3, <2>4 DEF NoDangling
<1> QED BY <1>1, <1>3, <1>4

-----------------------------------------------------------------------------
(* Frames. *)

LEMMA CallLemma ==
    ASSUME NEW op \in {"register", "unregister", "handler"} \cup LogCalls,
           NEW arg \in Clients \cup Signals \cup {None}
    PROVE  /\ Call(op, arg) \in Calls /\ Outside(Call(op, arg))
           /\ Call(op, arg).op = op /\ Call(op, arg).arg = arg /\ Call(op, arg).pc = "lock"
           /\ Call(op, arg).refs = <<>> /\ Call(op, arg).next = 1
           /\ Call(op, arg).kept = <<>>
BY DEF Call, Calls, Outside, Critical

LEMMA CallOK ==
    ASSUME NEW op \in {"register", "unregister", "handler"} \cup LogCalls,
           NEW arg \in Clients \cup Signals \cup {None},
           NEW living, op = "register" => arg \in Clients,
           op = "unregister" => arg \in Clients \ living
    PROVE  FrameOK(Call(op, arg), living)
BY CallLemma DEF FrameOK

(* The innermost call of a thread that is somewhere in its code. *)
LEMMA AtLemma ==
    ASSUME IInv, NEW t \in Threads, stack[t] # <<>>
    PROVE  /\ stack \in Stacks /\ Top(t) \in Calls /\ Top(t) = stack[t][1]
           /\ Len(stack[t]) > 0
           /\ FrameOK(Top(t), alive)
           /\ Keeps(Top(t), clients_, registered \cap alive)
<1>1. stack \in Stacks
  BY DEF IInv, TypeOK, Stacks
<1>2. 1 \in 1 .. Len(stack[t]) /\ Len(stack[t]) > 0
  BY <1>1, TopLemma
<1> QED BY <1>1, <1>2, TopLemma DEF IInv, FramesInv, KeptInv

(* The last frames of an innermost call that is alone with the list. *)
LEMMA CallRefs ==
    ASSUME stack \in Stacks, NEW t \in Threads, stack[t] # <<>>, NEW c,
           c \in ToSet(Top(t).refs)
    PROVE  Refers(stack, t, c)
<1>1. 1 \in 1 .. Len(stack[t]) /\ Top(t) = stack[t][1]
  BY TopLemma
<1> QED BY <1>1 DEF Refers

-----------------------------------------------------------------------------
(* The steps: first what kinds of steps have in common. *)

(* A step that only enters a call. *)
LEMMA EnterStep ==
    ASSUME IInv, NEW t \in Threads, NEW f \in Calls, stack' = Enter(stack, t, f),
           f.pc = "lock", f.refs = <<>>, FrameOK(f, alive),
           Len(stack[t]) > 0 /\ Exposed(stack[t][1]) => Covers(f, stack[t][1]),
           handlers_installed_' \in BOOLEAN, registrations' \in 0 .. MaxRegistrations,
           logs' \in 0 .. MaxLogs,
           UNCHANGED <<clients_, mutex, held, alive, connected, registered, signals>>
    PROVE  IInv'
<1>1. stack \in Stacks
  BY DEF IInv, TypeOK, Stacks
<1>2. Entered(t, f) /\ Outside(f)
  BY <1>1, EnteredLemma, WaitsOutside
<1>3. TypeOK'
  BY <1>2 DEF IInv, TypeOK, Entered, Others, Stacks
<1>4. FramesInv' /\ KeptInv'
  BY <1>2, FramesEntered, KeptEntered DEF IInv
<1>5. MutexInv' /\ CoverInv'
  BY <1>2, MutexEntered, CoverEntered DEF IInv
<1>6. NoDangling'
  BY <1>1, <1>2, RefersEnter, DanglingLemma DEF IInv, Entered, Others
<1>7. LiveRegistered'
  BY DEF IInv, LiveRegistered
<1> QED BY <1>3, <1>4, <1>5, <1>6, <1>7 DEF IInv

(* A step that only moves the innermost call on. *)
LEMMA MoveStep ==
    ASSUME IInv, NEW t \in Threads, stack[t] # <<>>, NEW g \in Calls, stack' = Replace(t, g),
           Alike(g, Top(t)), FrameOK(g, alive), Keeps(g, clients_, registered \cap alive),
           ToSet(g.refs) \subseteq ToSet(Top(t).refs) \cup alive,
           connected' \subseteq connected, mutex' \in [Mutexes -> Threads \cup {None}], MutexInv',
           UNCHANGED <<clients_, handlers_installed_, held, alive, registered, registrations,
                       signals, logs>>
    PROVE  IInv'
<1>1. stack \in Stacks /\ Top(t) = stack[t][1]
  BY AtLemma
<1>2. Replaced(t, g)
  BY <1>1, ReplacedLemma
<1>3. TypeOK'
  BY <1>2 DEF IInv, TypeOK, Replaced, Others, Stacks
<1>4. FramesInv' /\ KeptInv' /\ CoverInv'
  BY <1>1, <1>2, FramesReplaced, KeptReplaced, CoverReplaced DEF IInv
<1>5. NoDangling'
  <2>1. ASSUME NEW u \in Threads, NEW c \in Clients, Refers(stack', u, c)
        PROVE  Refers(stack, u, c) \/ c \in alive
    <3>1. Refers(stack, u, c) \/ c \in ToSet(Top(t).refs) \/ c \in alive
      BY <1>1, <2>1, RefersReplace
    <3>2. CASE c \in ToSet(Top(t).refs) /\ c \notin alive
      <4>1. Refers(stack, t, c)
        BY <1>1, <3>2, CallRefs
      <4>2. Referenced(held, stack, c)
        BY <1>1, <4>1, ReferencedLemma
      <4> QED BY <3>2, <4>2 DEF IInv, NoDangling
    <3> QED BY <3>1, <3>2
  <2> QED BY <1>1, <1>2, <2>1, DanglingLemma DEF IInv, Replaced, Others
<1>6. LiveRegistered'
  BY DEF IInv, LiveRegistered
<1> QED BY <1>3, <1>4, <1>5, <1>6 DEF IInv

(* A step in which the innermost call drops a reference. *)
LEMMA DropReferenceStep ==
    ASSUME IInv, NEW t \in Threads, stack[t] # <<>>, NEW g \in Calls, NEW c \in Clients,
           Dropped(t, held, Replace(t, g), c),
           g.op = Top(t).op, FrameOK(g, alive), Keeps(g, clients_, registered \cap alive),
           ToSet(g.refs) \subseteq ToSet(Top(t).refs),
           Same(g, Top(t)), Exposed(g) => g.op = "unregister",
           UNCHANGED <<clients_, mutex, handlers_installed_, connected, registered,
                       registrations, signals, logs>>
    PROVE  IInv'
<1> DEFINE f == Call("unregister", c)
<1>1. /\ f \in Calls /\ Outside(f) /\ f.refs = <<>> /\ f.op = "unregister" /\ f.pc = "lock"
      /\ \A living : c \notin living => FrameOK(f, living)
  BY CallLemma, CallOK
<1> HIDE DEF f
<1>2. stack \in Stacks /\ Top(t) = stack[t][1] /\ Replace(t, g) \in Stacks
  <2>1. stack \in Stacks /\ Top(t) = stack[t][1]
    BY AtLemma
  <2> QED BY <2>1 DEF Replace, Stacks
<1>3. \A u \in Threads : \A d \in Clients : Refers(Replace(t, g), u, d) => Refers(stack, u, d)
  <2> SUFFICES ASSUME NEW u \in Threads, NEW d \in Clients, Refers(Replace(t, g), u, d)
               PROVE  Refers(stack, u, d)
    OBVIOUS
  <2>1. CASE u = t
    BY <1>2, <2>1, RefersReplace, CallRefs
  <2>2. CASE u # t
    <3>1. Replace(t, g)[u] = stack[u]
      BY <1>2, <2>2 DEF Replace, Stacks
    <3> QED BY <3>1 DEF Refers
  <2> QED BY <2>1, <2>2
<1>4. /\ held' = held
      /\ \/ stack' = Replace(t, g) /\ alive' = alive
         \/ stack' = Enter(Replace(t, g), t, f) /\ alive' = alive \ {c}
      /\ NoDangling'
  BY <1>1, <1>2, <1>3, DroppedLemma DEF IInv, f
<1>5. CASE stack' = Replace(t, g) /\ alive' = alive
  <2>1. Replaced(t, g)
    BY <1>2, <1>5, ReplacedLemma
  <2>2. MutexInv'
    BY <1>2, <2>1, MutexReplaced DEF IInv
  <2>3. mutex' \in [Mutexes -> Threads \cup {None}] /\ connected' \subseteq connected
    BY DEF IInv, TypeOK
  <2>4. Alike(g, Top(t)) /\ ToSet(g.refs) \subseteq ToSet(Top(t).refs) \cup alive
    BY DEF Alike
  <2> QED BY <1>4, <1>5, <2>2, <2>3, <2>4, MoveStep
<1>6. CASE stack' = Enter(Replace(t, g), t, f) /\ alive' = alive \ {c}
  <2>1. Interposed(t, g, f)
    BY <1>1, <1>2, <1>6, InterposedLemma
  <2>2. TypeOK'
    BY <1>4, <1>6, <2>1 DEF IInv, TypeOK, Interposed, Others, Stacks
  <2>3. FrameOK(g, alive') /\ FrameOK(f, alive') /\ alive' \subseteq alive
    BY <1>1, <1>6 DEF FrameOK
  <2>4. FramesInv'
    <3>1. FramesInv
      BY DEF IInv
    <3> QED BY <2>1, <2>3, <3>1, FramesInterposed
  <2>5. MutexInv'
    BY <1>1, <1>2, <2>1, MutexInterposed DEF IInv
  <2>6. CoverInv'
    BY <1>1, <1>2, <2>1, CoverInterposed DEF IInv, Covers
  <2>7. KeptInv'
    BY <1>1, <1>6, <2>1, KeptInterposed DEF IInv
  <2>8. LiveRegistered'
    BY <1>6 DEF IInv, LiveRegistered
  <2> QED BY <1>4, <2>2, <2>4, <2>5, <2>6, <2>7, <2>8 DEF IInv
<1> QED BY <1>4, <1>5, <1>6

LEMMA AppendToSet ==
    ASSUME NEW S, NEW s \in Seq(S), NEW x \in S
    PROVE  ToSet(Append(s, x)) = ToSet(s) \cup {x}
<1>1. /\ Len(s) \in Nat /\ DOMAIN s = 1 .. Len(s)
      /\ DOMAIN Append(s, x) = 1 .. (Len(s) + 1)
      /\ \A i \in 1 .. Len(s) : Append(s, x)[i] = s[i]
      /\ Append(s, x)[Len(s) + 1] = x
  OBVIOUS
<1>2. \A i \in 1 .. (Len(s) + 1) : i \in 1 .. Len(s) \/ i = Len(s) + 1
  BY <1>1
<1>3. \A i \in 1 .. Len(s) : i \in 1 .. (Len(s) + 1)
  BY <1>1
<1>4. Len(s) + 1 \in 1 .. (Len(s) + 1)
  BY <1>1
<1> DEFINE n == Len(s) + 1
           d == 1 .. Len(s)
           e == 1 .. n
           a == Append(s, x)
<1>5. /\ DOMAIN s = d /\ DOMAIN a = e /\ n \in e
      /\ \A i \in d : a[i] = s[i] /\ i \in e
      /\ a[n] = x /\ \A i \in e : i \in d \/ i = n
  BY <1>1, <1>2, <1>3, <1>4
<1> HIDE DEF n, d, e, a
<1>6. {a[i] : i \in e} = {s[i] : i \in d} \cup {x}
  BY <1>5
<1>7. ToSet(a) = {a[i] : i \in e} /\ ToSet(s) = {s[i] : i \in d}
  BY <1>5 DEF ToSet
<1> QED BY <1>6, <1>7 DEF a

(* A step in which the innermost call moves on to g and calls the logger:   *)
(* what holds whatever happens to the list.                                *)
LEMMA LogStep ==
    ASSUME IInv, NEW t \in Threads, stack[t] # <<>>, NEW g \in Calls, NEW f \in Calls,
           stack' = Enter(Replace(t, g), t, f),
           g.op = Top(t).op, g.op \notin LogCalls, FrameOK(g, alive),
           ToSet(g.refs) \subseteq ToSet(Top(t).refs),
           f.op \in LogCalls, f.pc = "lock", f.refs = <<>>, FrameOK(f, alive),
           UNCHANGED <<held, alive>>
    PROVE  /\ Interposed(t, g, f) /\ Outside(f) /\ ~Tests(f) /\ stack' \in [Threads -> Seq(Calls)]
           /\ FramesInv' /\ CoverInv' /\ NoDangling'
<1>1. stack \in Stacks /\ Top(t) = stack[t][1]
  BY AtLemma
<1>2. Interposed(t, g, f) /\ Outside(f) /\ ~Tests(f) /\ stack' \in [Threads -> Seq(Calls)]
  <2>1. Interposed(t, g, f)
    BY <1>1, InterposedLemma
  <2> QED BY <2>1, WaitsOutside DEF Tests, Interposed, Others, Stacks
<1>3. FramesInv'
  BY <1>2, FramesInterposed DEF IInv
<1>4. CoverInv'
  <2>1. Covers(f, g)
    BY DEF Covers
  <2> QED BY <1>1, <1>2, <2>1, CoverInterposed DEF IInv
<1>5. NoDangling'
  <2> DEFINE s == Replace(t, g)
  <2>1. s \in Stacks
    BY <1>1 DEF Replace, Stacks
  <2>2. ASSUME NEW u \in Threads, NEW c \in Clients, Refers(stack', u, c)
        PROVE  Refers(stack, u, c) \/ c \in alive
    <3>1. Refers(s, u, c)
      <4> HIDE DEF s
      <4> QED BY <2>1, <2>2, RefersEnter DEF s
    <3>2. Refers(stack, u, c) \/ c \in ToSet(Top(t).refs)
      BY <1>1, <3>1, RefersReplace
    <3>3. CASE c \in ToSet(Top(t).refs) /\ c \notin alive
      <4>1. Refers(stack, t, c)
        BY <1>1, <3>3, CallRefs
      <4>2. Referenced(held, stack, c)
        BY <1>1, <4>1, ReferencedLemma
      <4> QED BY <3>3, <4>2 DEF IInv, NoDangling
    <3> QED BY <3>2, <3>3
  <2> QED BY <1>1, <1>2, <2>2, DanglingLemma DEF IInv, Interposed, Others
<1> QED BY <1>2, <1>3, <1>4, <1>5

(* The same when the list is left alone. *)
LEMMA LogOnlyStep ==
    ASSUME IInv, NEW t \in Threads, stack[t] # <<>>, NEW g \in Calls, NEW f \in Calls,
           stack' = Enter(Replace(t, g), t, f),
           g.op = Top(t).op, g.op \notin LogCalls, FrameOK(g, alive), ~Tests(g),
           ToSet(g.refs) \subseteq ToSet(Top(t).refs),
           f.op \in LogCalls, f.pc = "lock", f.refs = <<>>, FrameOK(f, alive),
           \/ UNCHANGED mutex /\ Same(g, Top(t))
           \/ /\ mutex' = [mutex EXCEPT !["clients_mutex_"] = None]
              /\ Critical(Top(t), "clients_mutex_") /\ Outside(g),
           connected' \subseteq connected,
           UNCHANGED <<clients_, handlers_installed_, held, alive, registered, registrations,
                       signals, logs>>
    PROVE  IInv'
<1>1. /\ Interposed(t, g, f) /\ Outside(f) /\ ~Tests(f) /\ stack' \in [Threads -> Seq(Calls)]
      /\ FramesInv' /\ CoverInv' /\ NoDangling'
  BY LogStep
<1>2. Top(t) = stack[t][1]
  BY AtLemma
<1>3. MutexInv' /\ mutex' \in [Mutexes -> Threads \cup {None}]
  <2>1. MutexInv /\ mutex \in [Mutexes -> Threads \cup {None}] /\ "clients_mutex_" \in Mutexes
    BY DEF IInv, TypeOK, Mutexes
  <2>2. CASE UNCHANGED mutex /\ Same(g, Top(t))
    BY <1>1, <1>2, <2>1, <2>2, MutexInterposed
  <2>3. CASE /\ mutex' = [mutex EXCEPT !["clients_mutex_"] = None]
             /\ Critical(Top(t), "clients_mutex_") /\ Outside(g)
    BY <1>1, <1>2, <2>1, <2>3, MutexUnlocked
  <2> QED BY <2>2, <2>3
<1>4. TypeOK'
  BY <1>1, <1>3 DEF IInv, TypeOK
<1>5. KeptInv'
  <2>1. Keeps(g, clients_, registered \cap alive)
    BY DEF Keeps
  <2> QED BY <1>1, <2>1, KeptInterposed DEF IInv
<1>6. LiveRegistered'
  BY DEF IInv, LiveRegistered
<1> QED BY <1>1, <1>3, <1>4, <1>5, <1>6 DEF IInv

(* A step in which the innermost call returns, and gives back its mutex if  *)
(* it has one.                                                             *)
LEMMA ReturnStep ==
    ASSUME IInv, NEW t \in Threads, stack[t] # <<>>, stack' = Return(t),
           \/ UNCHANGED mutex /\ Outside(Top(t))
           \/ \E m \in Mutexes : Critical(Top(t), m) /\ mutex' = [mutex EXCEPT ![m] = None],
           connected' \subseteq Clients,
           UNCHANGED <<clients_, handlers_installed_, held, alive, registered, registrations,
                       signals, logs>>
    PROVE  IInv'
<1>1. stack \in Stacks /\ Top(t) = stack[t][1]
  BY AtLemma
<1>2. Returned(t)
  BY <1>1, ReturnedLemma
<1>3. MutexInv' /\ mutex' \in [Mutexes -> Threads \cup {None}]
  <2>1. MutexInv /\ mutex \in [Mutexes -> Threads \cup {None}]
    BY DEF IInv, TypeOK
  <2>2. CASE UNCHANGED mutex /\ Outside(Top(t))
    BY <1>1, <1>2, <2>1, <2>2, MutexReturned
  <2>3. CASE \E m \in Mutexes : Critical(Top(t), m) /\ mutex' = [mutex EXCEPT ![m] = None]
    BY <1>1, <1>2, <2>1, <2>3, MutexUnlocked
  <2> QED BY <2>2, <2>3
<1>4. TypeOK'
  BY <1>2, <1>3 DEF IInv, TypeOK, Returned, Others, Stacks
<1>5. FramesInv' /\ CoverInv' /\ KeptInv'
  BY <1>2, FramesReturned, CoverReturned, KeptReturned DEF IInv
<1>6. NoDangling'
  BY <1>1, <1>2, RefersReturned, DanglingLemma DEF IInv, Returned, Others
<1>7. LiveRegistered'
  BY DEF IInv, LiveRegistered
<1> QED BY <1>3, <1>4, <1>5, <1>6, <1>7 DEF IInv

-----------------------------------------------------------------------------
(* The steps, one by one. *)

LEMMA ConnectStep ==
    ASSUME IInv, NEW t \in Threads, NEW c \in Clients, Connect(t, c)
    PROVE  IInv'
<1> DEFINE f == Call("register", c)
<1>1. f \in Calls /\ f.pc = "lock" /\ f.refs = <<>> /\ FrameOK(f, alive)
  BY CallLemma, CallOK
<1> HIDE DEF f
<1>2. /\ stack' = Enter(stack, t, f) /\ Len(stack[t]) = 0
      /\ handlers_installed_' \in BOOLEAN /\ logs' \in 0 .. MaxLogs
      /\ registrations' \in 0 .. MaxRegistrations
      /\ UNCHANGED <<clients_, mutex, held, alive, connected, registered, signals>>
  BY LimitsAssumption DEF Connect, IInv, TypeOK, f
<1> QED BY <1>1, <1>2, EnterStep

LEMMA LogStarts ==
    ASSUME IInv, NEW t \in Threads, Log(t)
    PROVE  IInv'
<1> DEFINE f == Call("log", None)
<1>1. f \in Calls /\ f.pc = "lock" /\ f.refs = <<>> /\ FrameOK(f, alive)
  BY CallLemma, CallOK DEF LogCalls
<1> HIDE DEF f
<1>2. /\ stack' = Enter(stack, t, f) /\ Len(stack[t]) = 0
      /\ handlers_installed_' \in BOOLEAN /\ logs' \in 0 .. MaxLogs
      /\ registrations' \in 0 .. MaxRegistrations
      /\ UNCHANGED <<clients_, mutex, held, alive, connected, registered, signals>>
  BY LimitsAssumption DEF Log, IInv, TypeOK, f
<1> QED BY <1>1, <1>2, EnterStep

LEMMA InstallStep ==
    ASSUME IInv, NEW t \in Threads, install_handlers(t)
    PROVE  IInv'
<1> DEFINE f == Call("getLogger", None)
<1>1. f \in Calls /\ f.op \in LogCalls /\ f.pc = "lock" /\ f.refs = <<>> /\ FrameOK(f, alive)
  BY CallLemma, CallOK DEF LogCalls
<1> HIDE DEF f
<1>2. /\ stack' = Enter(stack, t, f) /\ At(t, "register", "locked")
      /\ handlers_installed_' \in BOOLEAN /\ logs' \in 0 .. MaxLogs
      /\ registrations' \in 0 .. MaxRegistrations
      /\ UNCHANGED <<clients_, mutex, held, alive, connected, registered, signals>>
  BY DEF install_handlers, IInv, TypeOK, f
<1>3. Top(t) = stack[t][1] /\ Top(t).op = "register"
  BY <1>2, AtLemma DEF At
<1>4. Covers(f, stack[t][1])
  BY <1>1, <1>3 DEF Covers, LogCalls
<1> QED BY <1>1, <1>2, <1>4, EnterStep

LEMMA SignalStep ==
    ASSUME IInv, NEW t \in Threads, NEW sig \in Signals, Signal(t, sig)
    PROVE  IInv'
<1> DEFINE g == Call("handler", sig)
           f == Call("getLogger", None)
<1>1. /\ g \in Calls /\ g.op = "handler" /\ g.pc = "lock" /\ g.refs = <<>> /\ FrameOK(g, alive)
      /\ f \in Calls /\ f.op \in LogCalls /\ f.pc = "lock" /\ f.refs = <<>> /\ FrameOK(f, alive)
  BY CallLemma, CallOK DEF LogCalls
<1> HIDE DEF f, g
<1>2. /\ stack \in Stacks /\ stack' = Enter(Enter(stack, t, g), t, f)
      /\ UNCHANGED <<clients_, mutex, handlers_installed_, held, alive,
                     connected, registered, registrations, logs>>
      /\ signals' \in 0 .. MaxSignals
  BY LimitsAssumption DEF Signal, IInv, TypeOK, Stacks, f, g
<1>3. EnteredTwice(t, g, f) /\ Outside(g) /\ Outside(f)
  BY <1>1, <1>2, EnteredTwiceLemma, WaitsOutside
<1>4. TypeOK'
  BY <1>2, <1>3 DEF IInv, TypeOK, EnteredTwice, Others, Stacks
<1>5. FramesInv' /\ MutexInv' /\ KeptInv'
  BY <1>1, <1>2, <1>3, FramesEnteredTwice, MutexEnteredTwice, KeptEnteredTwice DEF IInv
<1>6. CoverInv'
  <2>1. Covers(f, g) /\ \A h : Covers(g, h)
    BY <1>1 DEF Covers, LogCalls
  <2> QED BY <1>3, <2>1, CoverEnteredTwice DEF IInv
<1>7. NoDangling'
  <2> DEFINE s == Enter(stack, t, g)
  <2>1. s \in Stacks
    BY <1>1, <1>2 DEF Enter, Stacks
  <2>2. ASSUME NEW u \in Threads, NEW c \in Clients, Refers(stack', u, c)
        PROVE  Refers(stack, u, c)
    <3>1. Refers(s, u, c)
      <4> HIDE DEF s
      <4> QED BY <1>1, <1>2, <2>1, <2>2, RefersEnter DEF s
    <3> QED BY <1>1, <1>2, <3>1, RefersEnter
  <2> QED BY <1>2, <1>3, <2>2, DanglingLemma DEF IInv, EnteredTwice, Others
<1>8. LiveRegistered'
  BY <1>2 DEF IInv, LiveRegistered
<1> QED BY <1>4, <1>5, <1>6, <1>7, <1>8 DEF IInv

LEMMA DropStep ==
    ASSUME IInv, NEW t \in Threads, NEW c \in Clients, Drop(t, c)
    PROVE  IInv'
<1> DEFINE f == Call("unregister", c)
           h == [held EXCEPT ![t] = @ \ {c}]
<1>1. /\ f \in Calls /\ Outside(f) /\ f.pc = "lock" /\ f.refs = <<>>
      /\ \A living : c \notin living => FrameOK(f, living)
  BY CallLemma, CallOK
<1>2. /\ stack \in Stacks /\ stack[t] = <<>> /\ Dropped(t, h, stack, c)
      /\ h \in [Threads -> SUBSET Clients] /\ \A u \in Threads : h[u] \subseteq held[u]
      /\ UNCHANGED <<clients_, mutex, handlers_installed_, connected,
                     registered, registrations, signals, logs>>
  BY DEF Drop, IInv, TypeOK, Stacks
<1> HIDE DEF f, h
<1>3. /\ held' = h
      /\ \/ stack' = stack /\ alive' = alive
         \/ stack' = Enter(stack, t, f) /\ alive' = alive \ {c}
      /\ NoDangling'
  BY <1>1, <1>2, DroppedLemma DEF IInv, f
<1>4. LiveRegistered'
  BY <1>2, <1>3 DEF IInv, LiveRegistered
<1>5. CASE stack' = stack /\ alive' = alive
  <2>1. TypeOK'
    BY <1>2, <1>3, <1>5 DEF IInv, TypeOK
  <2>2. FramesInv' /\ MutexInv' /\ CoverInv' /\ KeptInv'
    <3>1. FramesInv' /\ KeptInv'
      BY <1>2, <1>5 DEF IInv, FramesInv, KeptInv
    <3>2. MutexInv'
      BY <1>2, <1>5 DEF IInv, MutexInv, MutexOK
    <3>3. CoverInv'
      BY <1>2, <1>5 DEF IInv, CoverInv
    <3> QED BY <3>1, <3>2, <3>3
  <2> QED BY <1>3, <1>4, <2>1, <2>2 DEF IInv
<1>6. CASE stack' = Enter(stack, t, f) /\ alive' = alive \ {c}
  <2>1. Entered(t, f)
    BY <1>1, <1>2, <1>6, EnteredLemma
  <2>2. TypeOK'
    BY <1>2, <1>3, <1>6, <2>1 DEF IInv, TypeOK, Entered, Others, Stacks
  <2>3. FramesInv' /\ MutexInv' /\ KeptInv'
    BY <1>1, <1>2, <1>6, <2>1, FramesEntered, MutexEntered, KeptEntered DEF IInv
  <2>4. CoverInv'
    <3>1. ~(Len(stack[t]) > 0)
      BY <1>2
    <3> QED BY <2>1, <3>1, CoverEntered DEF IInv
  <2> QED BY <1>3, <1>4, <2>2, <2>3, <2>4 DEF IInv
<1> QED BY <1>3, <1>5, <1>6

LEMMA LockStep ==
    ASSUME IInv, NEW t \in Threads, Lock(t)
    PROVE  IInv'
<1> DEFINE f == Top(t)
           m == MutexOf(f.op)
           g == [f EXCEPT !.pc = "locked"]
<1>1. /\ stack[t] # <<>> /\ f.pc = "lock" /\ stack' = Replace(t, g)
      /\ mutex[m] = None /\ mutex' = [mutex EXCEPT ![m] = t]
      /\ UNCHANGED <<clients_, handlers_installed_, held, alive, connected,
                     registered, registrations, signals, logs>>
  BY DEF Lock
<1>2. stack \in Stacks /\ f = stack[t][1] /\ f \in Calls /\ FrameOK(f, alive)
  BY <1>1, AtLemma
<1> HIDE DEF f
<1>3. m \in Mutexes
  BY MutexOfLemma
<1>4. /\ g \in Calls /\ g.op = f.op /\ g.pc = "locked" /\ g.refs = f.refs /\ g.next = f.next
      /\ g.kept = f.kept /\ g.arg = f.arg
  BY <1>2 DEF Calls
<1> HIDE DEF g
<1>5. FrameOK(g, alive) /\ Alike(g, f) /\ Critical(g, m) /\ Outside(f)
  BY <1>1, <1>2, <1>4, WaitsOutside DEF FrameOK, Alike, Critical, LogCalls
<1>6. Keeps(g, clients_, registered \cap alive)
  <2>1. g.next = 1 /\ g.pc = "locked"
    BY <1>1, <1>2, <1>4 DEF FrameOK
  <2>2. ToSet(clients_) = Untested(g, clients_)
    <3>1. DOMAIN clients_ = 1 .. Len(clients_)
      BY DEF IInv, TypeOK
    <3> QED BY <2>1, <3>1 DEF ToSet, Untested
  <2> QED BY <2>2 DEF Keeps, IInv, LiveRegistered
<1>7. Replaced(t, g)
  BY <1>1, <1>2, <1>4, ReplacedLemma
<1>8. MutexInv' /\ mutex' \in [Mutexes -> Threads \cup {None}]
  <2>1. MutexInv /\ mutex \in [Mutexes -> Threads \cup {None}]
    BY DEF IInv, TypeOK
  <2> HIDE DEF m
  <2> QED BY <1>1, <1>2, <1>3, <1>5, <1>7, <2>1, MutexLocked
<1>9. ToSet(g.refs) \subseteq ToSet(f.refs) \cup alive
  BY <1>4
<1> QED BY <1>1, <1>4, <1>5, <1>6, <1>8, <1>9, MoveStep DEF f

(* getLogger() returns, with or without a message to follow. *)
LEMMA GotLoggerStep ==
    ASSUME IInv, NEW t \in Threads, GotLogger(t)
    PROVE  IInv'
<1> DEFINE f == Top(t)
           g == Call("log", None)
<1>1. /\ stack[t] # <<>> /\ f.pc = "locked" /\ f.op = "getLogger"
      /\ mutex' = [mutex EXCEPT ![MutexOf(f.op)] = None]
      /\ stack' = Replace(t, g) \/ stack' = Return(t)
      /\ UNCHANGED <<clients_, handlers_installed_, held, alive, connected,
                     registered, registrations, signals, logs>>
  BY DEF GotLogger, At, Unlock
<1>2. stack \in Stacks /\ f = stack[t][1] /\ f \in Calls
  BY <1>1, AtLemma
<1>3. /\ g \in Calls /\ g.op \in LogCalls /\ g.pc = "lock" /\ g.refs = <<>>
      /\ FrameOK(g, alive)
  BY CallLemma, CallOK DEF LogCalls
<1> HIDE DEF f, g
<1>4. "factory" \in Mutexes /\ Critical(f, "factory") /\ MutexOf(f.op) = "factory"
  BY <1>1 DEF Mutexes, Critical, MutexOf
<1>5. CASE stack' = Return(t)
  <2>1. connected' \subseteq Clients
    BY <1>1 DEF IInv, TypeOK
  <2> QED BY <1>1, <1>4, <1>5, <2>1, ReturnStep DEF f
<1>6. CASE stack' = Replace(t, g)
  <2>1. Replaced(t, g) /\ Outside(g)
    BY <1>1, <1>2, <1>3, <1>6, ReplacedLemma, WaitsOutside
  <2>2. MutexInv' /\ mutex' \in [Mutexes -> Threads \cup {None}]
    <3>1. MutexInv /\ mutex \in [Mutexes -> Threads \cup {None}]
      BY DEF IInv, TypeOK
    <3> QED BY <1>1, <1>2, <1>4, <2>1, <3>1, MutexUnlocked
  <2>3. /\ Alike(g, f) /\ Keeps(g, clients_, registered \cap alive)
        /\ ToSet(g.refs) \subseteq ToSet(f.refs) \cup alive
    BY <1>1, <1>3 DEF Alike, LogCalls, Keeps, Tests, ToSet
  <2> QED BY <1>1, <1>3, <1>6, <2>2, <2>3, MoveStep DEF f
<1> QED BY <1>1, <1>5, <1>6

LEMMA LoggedStep ==
    ASSUME IInv, NEW t \in Threads, Logged(t)
    PROVE  IInv'
<1>1. /\ stack[t] # <<>> /\ Top(t).pc = "locked" /\ Top(t).op = "log" /\ stack' = Return(t)
      /\ mutex' = [mutex EXCEPT ![MutexOf(Top(t).op)] = None]
      /\ UNCHANGED <<clients_, handlers_installed_, held, alive, connected,
                     registered, registrations, signals, logs>>
  BY DEF Logged, At, Unlock
<1>2. "sink" \in Mutexes /\ Critical(Top(t), "sink") /\ MutexOf(Top(t).op) = "sink"
  BY <1>1 DEF Mutexes, Critical, MutexOf
<1>3. connected' \subseteq Clients
  BY <1>1 DEF IInv, TypeOK
<1> QED BY <1>1, <1>2, <1>3, ReturnStep

LEMMA RegisterStep ==
    ASSUME IInv, NEW t \in Threads, register_client(t)
    PROVE  IInv'
<1> DEFINE f == Top(t)
           g == [f EXCEPT !.pc = "logged"]
           h == Call("getLogger", None)
<1>1. /\ stack[t] # <<>> /\ f.pc = "locked" /\ f.op = "register"
      /\ stack' = Enter(Replace(t, g), t, h) /\ clients_' = Append(clients_, f.arg)
      /\ registered' = registered \cup {f.arg}
      /\ UNCHANGED <<mutex, handlers_installed_, held, alive, connected, registrations,
                     signals, logs>>
  BY DEF register_client, At
<1>2. stack \in Stacks /\ f = stack[t][1] /\ f \in Calls /\ FrameOK(f, alive)
  BY <1>1, AtLemma
<1>3. /\ h \in Calls /\ h.op \in LogCalls /\ h.pc = "lock" /\ h.refs = <<>>
      /\ FrameOK(h, alive)
  BY CallLemma, CallOK DEF LogCalls
<1> HIDE DEF f, h
<1>4. g \in Calls /\ g.op = f.op /\ g.pc = "logged" /\ g.refs = f.refs /\ g.arg = f.arg
  BY <1>2 DEF Calls
<1> HIDE DEF g
<1>5. /\ f.arg \in Clients /\ Critical(f, "clients_mutex_") /\ Same(g, f)
      /\ FrameOK(g, alive) /\ ~Tests(g) /\ g.op \notin LogCalls
  BY <1>1, <1>2, <1>4 DEF FrameOK, Critical, Same, Tests, LogCalls, MutexOf
<1>6. /\ Interposed(t, g, h) /\ Outside(h) /\ ~Tests(h) /\ stack' \in [Threads -> Seq(Calls)]
      /\ FramesInv' /\ CoverInv' /\ NoDangling'
  BY <1>1, <1>3, <1>4, <1>5, LogStep DEF f
<1>7. TypeOK'
  BY <1>1, <1>5, <1>6 DEF IInv, TypeOK
<1>8. MutexInv'
  BY <1>1, <1>2, <1>5, <1>6, MutexInterposed DEF IInv
<1>9. KeptInv'
  <2>1. \A u \in Threads : \A i \in 1 .. Len(stack'[u]) : ~Tests(stack'[u][i])
    BY <1>2, <1>5, <1>6, Alone DEF IInv
  <2> QED BY <2>1 DEF KeptInv, Keeps
<1>10. LiveRegistered'
  <2>1. ToSet(clients_') = ToSet(clients_) \cup {f.arg}
    <3>1. clients_ \in Seq(Clients)
      BY DEF IInv, TypeOK
    <3> QED BY <1>1, <1>5, <3>1, AppendToSet
  <2> QED BY <1>1, <2>1 DEF IInv, LiveRegistered
<1> QED BY <1>6, <1>7, <1>8, <1>9, <1>10 DEF IInv

LEMMA RegisteredStep ==
    ASSUME IInv, NEW t \in Threads, Registered(t)
    PROVE  IInv'
<1>1. /\ stack[t] # <<>> /\ Top(t).pc = "logged" /\ Top(t).op = "register"
      /\ stack' = Return(t) /\ mutex' = [mutex EXCEPT ![MutexOf(Top(t).op)] = None]
      /\ connected' \in {connected, connected \cup {Top(t).arg}}
      /\ UNCHANGED <<clients_, handlers_installed_, held, alive,
                     registered, registrations, signals, logs>>
  BY DEF Registered, At, Unlock
<1>2. /\ "clients_mutex_" \in Mutexes /\ Critical(Top(t), "clients_mutex_")
      /\ MutexOf(Top(t).op) = "clients_mutex_"
  BY <1>1 DEF Mutexes, Critical, MutexOf
<1>3. connected' \subseteq Clients
  <2>1. Top(t).arg \in Clients
    BY <1>1, AtLemma DEF FrameOK
  <2> QED BY <1>1, <2>1 DEF IInv, TypeOK
<1> QED BY <1>1, <1>2, <1>3, ReturnStep

LEMMA UnregisterTestStep ==
    ASSUME IInv, NEW t \in Threads, UnregisterTest(t)
    PROVE  IInv'
<1> DEFINE f == Top(t)
           c == clients_[f.next]
           r == IF c \in alive THEN <<c>> ELSE <<>>
           k == IF c \in alive /\ c # f.arg THEN Append(f.kept, c) ELSE f.kept
           g == [f EXCEPT !.pc = "testing", !.refs = r, !.kept = k]
<1>1. /\ stack[t] # <<>> /\ f.pc = "locked" /\ f.op = "unregister"
      /\ f.next <= Len(clients_) /\ stack' = Replace(t, g)
      /\ UNCHANGED <<clients_, mutex, handlers_installed_, held, alive,
                     connected, registered, registrations, signals, logs>>
  BY DEF UnregisterTest, At
<1>2. /\ stack \in Stacks /\ f = stack[t][1] /\ f \in Calls /\ FrameOK(f, alive)
      /\ Keeps(f, clients_, registered \cap alive)
  BY <1>1, AtLemma
<1>3. clients_ \in Seq(Clients) /\ alive \subseteq Clients
  BY DEF IInv, TypeOK
<1> HIDE DEF f
<1>4. c \in alive => c \in Clients
  BY <1>3
<1>5. /\ g \in Calls /\ g.op = f.op /\ g.arg = f.arg /\ g.pc = "testing" /\ g.next = f.next
      /\ g.refs = r /\ g.kept = k
  <2>1. f.kept \in Seq(Clients)
    BY <1>2 DEF Calls
  <2>2. r \in Seq(Clients)
    BY <1>4
  <2>3. k \in Seq(Clients)
    BY <1>4, <2>1
  <2> HIDE DEF r, k
  <2> QED BY <1>2, <2>2, <2>3 DEF Calls
<1> HIDE DEF g
<1>6. /\ Same(g, f) /\ Tests(g) /\ Tests(f) /\ Alike(g, f)
      /\ FrameOK(g, alive) /\ ToSet(g.refs) \subseteq alive
  BY <1>1, <1>2, <1>5 DEF FrameOK, Critical, Same, Tests, Alike, ToSet, LogCalls
<1>7. Keeps(g, clients_, registered \cap alive)
  <2> SUFFICES ASSUME NEW d \in registered \cap alive
               PROVE  d \in ToSet(g.kept) \cup Untested(g, clients_)
    BY DEF Keeps
  <2>1. d \in ToSet(f.kept) \cup Untested(f, clients_)
    BY <1>1, <1>2, <1>6 DEF Keeps
  <2>2. d # f.arg
    BY <1>1, <1>2 DEF FrameOK
  <2>3. ToSet(f.kept) \subseteq ToSet(g.kept) /\ (c \in alive /\ c # f.arg => c \in ToSet(g.kept))
    <3>1. f.kept \in Seq(Clients)
      BY <1>2 DEF Calls
    <3>2. CASE c \in alive /\ c # f.arg
      <4>1. ToSet(Append(f.kept, c)) = ToSet(f.kept) \cup {c}
        BY <1>4, <3>1, <3>2, AppendToSet
      <4> QED BY <1>5, <3>2, <4>1
    <3> QED BY <1>5, <3>2
  <2>4. CASE d \in Untested(f, clients_)
    <3>1. PICK j \in f.next .. Len(clients_) : d = clients_[j]
      BY <1>1, <2>4 DEF Untested
    <3>2. CASE j = f.next
      BY <2>2, <2>3, <3>1, <3>2
    <3>3. CASE j # f.next
      <4>1. j \in (f.next + 1) .. Len(clients_)
        BY <1>2, <1>3, <3>3 DEF Calls
      <4> QED BY <1>5, <3>1, <4>1 DEF Untested
    <3> QED BY <3>2, <3>3
  <2> QED BY <2>1, <2>3, <2>4
<1>8. Replaced(t, g)
  BY <1>1, <1>2, <1>5, ReplacedLemma
<1>9. MutexInv' /\ mutex' \in [Mutexes -> Threads \cup {None}]
  BY <1>1, <1>2, <1>6, <1>8, MutexReplaced DEF IInv, TypeOK
<1> QED BY <1>1, <1>5, <1>6, <1>7, <1>9, MoveStep DEF f

LEMMA UnregisterTestedStep ==
    ASSUME IInv, NEW t \in Threads, UnregisterTested(t)
    PROVE  IInv'
<1> DEFINE f == Top(t)
           n == f.next + 1
           r == <<>>
           g == [f EXCEPT !.pc = "locked", !.refs = r, !.next = n]
<1>1. /\ stack[t] # <<>> /\ f.pc = "testing" /\ f.op = "unregister"
      /\ IF f.refs = <<>> THEN stack' = Replace(t, g) /\ UNCHANGED <<held, alive>>
         ELSE Dropped(t, held, Replace(t, g), f.refs[1])
      /\ UNCHANGED <<clients_, mutex, handlers_installed_, connected,
                     registered, registrations, signals, logs>>
  BY DEF UnregisterTested, At
<1>2. /\ stack \in Stacks /\ f = stack[t][1] /\ f \in Calls /\ FrameOK(f, alive)
      /\ Keeps(f, clients_, registered \cap alive)
  BY <1>1, AtLemma
<1> HIDE DEF f
<1>3. /\ g \in Calls /\ g.op = f.op /\ g.arg = f.arg /\ g.pc = "locked"
      /\ g.next = f.next + 1 /\ g.refs = <<>> /\ g.kept = f.kept
  <2>1. n \in Nat /\ r \in Seq(Clients)
    BY <1>2 DEF Calls
  <2> HIDE DEF n, r
  <2>2. /\ g \in Calls /\ g.op = f.op /\ g.arg = f.arg /\ g.pc = "locked"
        /\ g.next = n /\ g.refs = r /\ g.kept = f.kept
    BY <1>2, <2>1 DEF Calls
  <2> QED BY <2>2 DEF n, r
<1> HIDE DEF g
<1>4. /\ Same(g, f) /\ Tests(g) /\ Tests(f) /\ Alike(g, f) /\ FrameOK(g, alive)
      /\ ToSet(g.refs) \subseteq ToSet(f.refs)
  BY <1>1, <1>2, <1>3 DEF FrameOK, Critical, Same, Tests, Alike, ToSet, LogCalls
<1>5. Keeps(g, clients_, registered \cap alive)
  BY <1>1, <1>2, <1>3 DEF Keeps, Untested, Tests
<1>6. CASE f.refs = <<>>
  <2>1. Replaced(t, g)
    BY <1>1, <1>2, <1>3, <1>6, ReplacedLemma
  <2>2. MutexInv' /\ mutex' \in [Mutexes -> Threads \cup {None}]
    BY <1>1, <1>2, <1>4, <2>1, MutexReplaced DEF IInv, TypeOK
  <2> QED BY <1>1, <1>3, <1>4, <1>5, <1>6, <2>2, MoveStep DEF f
<1>7. CASE f.refs # <<>>
  <2>1. f.refs[1] \in Clients
    BY <1>2, <1>7 DEF Calls
  <2> QED BY <1>1, <1>3, <1>4, <1>5, <1>7, <2>1, DropReferenceStep DEF f
<1> QED BY <1>6, <1>7

LEMMA UnregisterEraseStep ==
    ASSUME IInv, NEW t \in Threads, UnregisterErase(t)
    PROVE  IInv'
<1> DEFINE f == Top(t)
           g == [f EXCEPT !.pc = "logged"]
           h == Call("getLogger", None)
<1>1. /\ stack[t] # <<>> /\ f.pc = "locked" /\ f.op = "unregister"
      /\ f.next > Len(clients_) /\ clients_' = g.kept
      /\ stack' = Enter(Replace(t, g), t, h) \/ stack' = Replace(t, g)
      /\ UNCHANGED <<mutex, handlers_installed_, held, alive, connected, registered,
                     registrations, signals, logs>>
  BY DEF UnregisterErase, At
<1>2. /\ stack \in Stacks /\ f = stack[t][1] /\ f \in Calls /\ FrameOK(f, alive)
      /\ Keeps(f, clients_, registered \cap alive)
  BY <1>1, AtLemma
<1>3. /\ h \in Calls /\ h.op \in LogCalls /\ h.pc = "lock" /\ h.refs = <<>>
      /\ FrameOK(h, alive)
  BY CallLemma, CallOK DEF LogCalls
<1> HIDE DEF f, h
<1>4. /\ g \in Calls /\ g.op = f.op /\ g.pc = "logged" /\ g.refs = f.refs /\ g.arg = f.arg
      /\ g.kept = f.kept
  BY <1>2 DEF Calls
<1> HIDE DEF g
<1>5. /\ Critical(f, "clients_mutex_") /\ Same(g, f) /\ FrameOK(g, alive) /\ Tests(f)
      /\ ~Tests(g) /\ g.op \notin LogCalls /\ Alike(g, f)
  BY <1>1, <1>2, <1>4 DEF FrameOK, Critical, Same, Tests, LogCalls, MutexOf, Alike
<1>6. f.kept \in Seq(Clients) /\ f.next \in Nat
  BY <1>2 DEF Calls
<1>7. LiveRegistered'
  <2>1. Len(clients_) \in Nat
    BY DEF IInv, TypeOK
  <2>2. Untested(f, clients_) = {}
    BY <1>1, <1>6, <2>1 DEF Untested
  <2> QED BY <1>1, <1>2, <1>4, <1>5, <2>2 DEF Keeps, LiveRegistered
<1>8. CASE stack' = Enter(Replace(t, g), t, h)
  <2>1. /\ Interposed(t, g, h) /\ Outside(h) /\ ~Tests(h) /\ stack' \in [Threads -> Seq(Calls)]
        /\ FramesInv' /\ CoverInv' /\ NoDangling'
    BY <1>1, <1>3, <1>4, <1>5, <1>8, LogStep DEF f
  <2>2. TypeOK'
    BY <1>1, <1>4, <1>6, <2>1 DEF IInv, TypeOK
  <2>3. MutexInv'
    BY <1>1, <1>2, <1>5, <2>1, MutexInterposed DEF IInv
  <2>4. KeptInv'
    <3>1. \A u \in Threads : \A i \in 1 .. Len(stack'[u]) : ~Tests(stack'[u][i])
      BY <1>2, <1>5, <2>1, Alone DEF IInv
    <3> QED BY <3>1 DEF KeptInv, Keeps
  <2> QED BY <1>7, <2>1, <2>2, <2>3, <2>4 DEF IInv
<1>9. CASE stack' = Replace(t, g)
  <2>1. Replaced(t, g)
    BY <1>1, <1>2, <1>4, <1>9, ReplacedLemma
  <2>2. TypeOK'
    BY <1>1, <1>4, <1>6, <2>1 DEF IInv, TypeOK, Replaced, Others, Stacks
  <2>3. MutexInv'
    BY <1>1, <1>2, <1>5, <2>1, MutexReplaced DEF IInv
  <2>4. FramesInv' /\ CoverInv'
    BY <1>1, <1>2, <1>5, <2>1, FramesReplaced, CoverReplaced DEF IInv
  <2>5. KeptInv'
    <3>1. \A u \in Threads : \A i \in 1 .. Len(stack'[u]) : ~Tests(stack'[u][i])
      BY <1>2, <1>5, <2>1, Alone DEF IInv
    <3> QED BY <3>1 DEF KeptInv, Keeps
  <2>6. NoDangling'
    <3>1. ASSUME NEW u \in Threads, NEW c \in Clients, Refers(stack', u, c)
          PROVE  Refers(stack, u, c)
      <4>1. Refers(stack, u, c) \/ c \in ToSet(f.refs)
        BY <1>1, <1>2, <1>4, <1>9, <3>1, RefersReplace
      <4>2. CASE u = t
        BY <1>1, <1>2, <4>1, <4>2, CallRefs DEF f
      <4>3. CASE u # t
        <5>1. stack'[u] = stack[u]
          BY <2>1, <4>3 DEF Replaced, Others
        <5> QED BY <3>1, <5>1 DEF Refers
      <4> QED BY <4>2, <4>3
    <3> QED BY <1>1, <1>2, <2>1, <3>1, DanglingLemma DEF IInv, Replaced, Others
  <2> QED BY <1>7, <2>2, <2>3, <2>4, <2>5, <2>6 DEF IInv
<1> QED BY <1>1, <1>8, <1>9

LEMMA UnregisteredStep ==
    ASSUME IInv, NEW t \in Threads, Unregistered(t)
    PROVE  IInv'
<1>1. /\ stack[t] # <<>> /\ Top(t).pc = "logged" /\ Top(t).op = "unregister"
      /\ stack' = Return(t) /\ mutex' = [mutex EXCEPT ![MutexOf(Top(t).op)] = None]
      /\ connected' = connected \ {Top(t).arg}
      /\ UNCHANGED <<clients_, handlers_installed_, held, alive,
                     registered, registrations, signals, logs>>
  BY DEF Unregistered, At, Unlock
<1>2. /\ "clients_mutex_" \in Mutexes /\ Critical(Top(t), "clients_mutex_")
      /\ MutexOf(Top(t).op) = "clients_mutex_"
  BY <1>1 DEF Mutexes, Critical, MutexOf
<1>3. connected' \subseteq Clients
  BY <1>1 DEF IInv, TypeOK
<1> QED BY <1>1, <1>2, <1>3, ReturnStep

LEMMA CollectNextStep ==
    ASSUME IInv, NEW t \in Threads, CollectNext(t)
    PROVE  IInv'
<1> DEFINE f == Top(t)
           c == clients_[f.next]
           r == IF c \in alive THEN Append(f.refs, c) ELSE f.refs
           n == f.next + 1
           g == [f EXCEPT !.refs = r, !.next = n]
<1>1. /\ stack[t] # <<>> /\ f.pc = "locked" /\ f.op = "handler" /\ stack' = Replace(t, g)
      /\ UNCHANGED <<clients_, mutex, handlers_installed_, held, alive,
                     connected, registered, registrations, signals, logs>>
  BY DEF CollectNext, At
<1>2. stack \in Stacks /\ f = stack[t][1] /\ f \in Calls /\ FrameOK(f, alive)
  BY <1>1, AtLemma
<1> HIDE DEF f
<1>3. f.refs \in Seq(Clients) /\ n \in Nat /\ alive \subseteq Clients
  BY <1>2 DEF Calls, IInv, TypeOK
<1>4. r \in Seq(Clients) /\ ToSet(r) \subseteq ToSet(f.refs) \cup alive
  <2>1. CASE c \in alive
    <3>1. r = Append(f.refs, c) /\ c \in Clients
      BY <1>3, <2>1
    <3> QED BY <1>3, <2>1, <3>1, AppendToSet
  <2> QED BY <1>3, <2>1
<1> HIDE DEF r, n
<1>5. g \in Calls /\ g.op = f.op /\ g.arg = f.arg /\ g.pc = f.pc /\ g.refs = r
  BY <1>2, <1>3, <1>4 DEF Calls
<1> HIDE DEF g
<1>6. FrameOK(g, alive) /\ Keeps(g, clients_, registered \cap alive) /\ Alike(g, f)
  BY <1>1, <1>2, <1>5 DEF FrameOK, Keeps, Tests, Alike, LogCalls
<1>7. Replaced(t, g)
  BY <1>1, <1>2, <1>5, ReplacedLemma
<1>8. MutexInv' /\ mutex' \in [Mutexes -> Threads \cup {None}]
  <2>1. Same(g, f)
    BY <1>5 DEF Critical, Same
  <2> QED BY <1>1, <1>2, <1>7, <2>1, MutexReplaced DEF IInv, TypeOK
<1> QED BY <1>1, <1>4, <1>5, <1>6, <1>8, MoveStep DEF f

LEMMA CollectedStep ==
    ASSUME IInv, NEW t \in Threads, Collected(t)
    PROVE  IInv'
<1> DEFINE f == Top(t)
           g == [f EXCEPT !.pc = "logged"]
           h == Call("log", None)
<1>1. /\ stack[t] # <<>> /\ f.pc = "locked" /\ f.op = "handler"
      /\ stack' = Enter(Replace(t, g), t, h)
      /\ UNCHANGED <<clients_, mutex, handlers_installed_, held, alive, connected, registered,
                     registrations, signals, logs>>
  BY DEF Collected, At
<1>2. f \in Calls /\ FrameOK(f, alive)
  BY <1>1, AtLemma
<1>3. /\ h \in Calls /\ h.op \in LogCalls /\ h.pc = "lock" /\ h.refs = <<>>
      /\ FrameOK(h, alive)
  BY CallLemma, CallOK DEF LogCalls
<1> HIDE DEF f, h
<1>4. g \in Calls /\ g.op = f.op /\ g.pc = "logged" /\ g.refs = f.refs
  BY <1>2 DEF Calls
<1> HIDE DEF g
<1>5. Same(g, f) /\ FrameOK(g, alive) /\ ~Tests(g) /\ g.op \notin LogCalls
  BY <1>1, <1>2, <1>4 DEF FrameOK, Critical, Same, Tests, LogCalls, MutexOf
<1> QED BY <1>1, <1>3, <1>4, <1>5, LogOnlyStep DEF f

LEMMA HandlerUnlocksStep ==
    ASSUME IInv, NEW t \in Threads, HandlerUnlocks(t)
    PROVE  IInv'
<1> DEFINE f == Top(t)
           g == [f EXCEPT !.pc = "disconnecting", !.next = 1]
           h == Call("log", None)
<1>1. /\ stack[t] # <<>> /\ f.pc = "logged" /\ f.op = "handler"
      /\ stack' = Enter(Replace(t, g), t, h)
      /\ mutex' = [mutex EXCEPT ![MutexOf(f.op)] = None]
      /\ UNCHANGED <<clients_, handlers_installed_, held, alive, connected, registered,
                     registrations, signals, logs>>
  BY DEF HandlerUnlocks, At, Unlock
<1>2. f \in Calls /\ FrameOK(f, alive)
  BY <1>1, AtLemma
<1>3. /\ h \in Calls /\ h.op \in LogCalls /\ h.pc = "lock" /\ h.refs = <<>>
      /\ FrameOK(h, alive)
  BY CallLemma, CallOK DEF LogCalls
<1> HIDE DEF f, h
<1>4. g \in Calls /\ g.op = f.op /\ g.pc = "disconnecting" /\ g.refs = f.refs
  BY <1>2 DEF Calls
<1> HIDE DEF g
<1>5. /\ Outside(g) /\ Critical(f, "clients_mutex_") /\ MutexOf(f.op) = "clients_mutex_"
      /\ FrameOK(g, alive) /\ ~Tests(g) /\ g.op \notin LogCalls
  BY <1>1, <1>2, <1>4, WaitsOutside DEF FrameOK, Critical, Tests, LogCalls, MutexOf
<1> QED BY <1>1, <1>3, <1>4, <1>5, LogOnlyStep DEF f

LEMMA DisconnectNextStep ==
    ASSUME IInv, NEW t \in Threads, DisconnectNext(t)
    PROVE  IInv'
<1> DEFINE f == Top(t)
           n == f.next + 1
           g == [f EXCEPT !.next = n]
           h == Call("log", None)
<1>1. /\ stack[t] # <<>> /\ f.pc = "disconnecting" /\ f.op = "handler"
      /\ stack' = Enter(Replace(t, g), t, h) /\ connected' \subseteq connected
      /\ UNCHANGED <<clients_, mutex, handlers_installed_, held, alive, registered,
                     registrations, signals, logs>>
  BY DEF DisconnectNext, At
<1>2. f \in Calls /\ FrameOK(f, alive)
  BY <1>1, AtLemma
<1>3. /\ h \in Calls /\ h.op \in LogCalls /\ h.pc = "lock" /\ h.refs = <<>>
      /\ FrameOK(h, alive)
  BY CallLemma, CallOK DEF LogCalls
<1> HIDE DEF f, h
<1>4. n \in Nat
  BY <1>2 DEF Calls
<1> HIDE DEF n
<1>5. g \in Calls /\ g.op = f.op /\ g.pc = f.pc /\ g.refs = f.refs
  BY <1>2, <1>4 DEF Calls
<1> HIDE DEF g
<1>6. Same(g, f) /\ FrameOK(g, alive) /\ ~Tests(g) /\ g.op \notin LogCalls
  BY <1>1, <1>2, <1>5 DEF FrameOK, Critical, Same, Tests, LogCalls, MutexOf
<1> QED BY <1>1, <1>3, <1>5, <1>6, LogOnlyStep DEF f

LEMMA DropNextStep ==
    ASSUME IInv, NEW t \in Threads, DropNext(t)
    PROVE  IInv'
<1> DEFINE f == Top(t)
           n == f.next - 1
           r == Tail(f.refs)
           g == [f EXCEPT !.refs = r, !.next = n]
<1>1. /\ stack[t] # <<>> /\ f.pc = "disconnecting" /\ f.op = "handler"
      /\ f.next > Len(f.refs) /\ f.refs # <<>>
      /\ Dropped(t, held, Replace(t, g), Head(f.refs))
      /\ UNCHANGED <<clients_, mutex, handlers_installed_, connected, registered,
                     registrations, signals, logs>>
  BY DEF DropNext, At
<1>2. stack \in Stacks /\ f = stack[t][1] /\ f \in Calls /\ FrameOK(f, alive)
  BY <1>1, AtLemma
<1> HIDE DEF f
<1>3. f.refs \in Seq(Clients) /\ f.next \in Nat
  BY <1>2 DEF Calls
<1>4. n \in Nat /\ r \in Seq(Clients) /\ Head(f.refs) \in Clients
  BY <1>1, <1>3
<1>5. ToSet(r) \subseteq ToSet(f.refs)
  <2>1. \A i \in DOMAIN r : i + 1 \in DOMAIN f.refs /\ r[i] = f.refs[i + 1]
    BY <1>1, <1>3
  <2> QED BY <2>1 DEF ToSet
<1> HIDE DEF r, n
<1>6. g \in Calls /\ g.op = f.op /\ g.pc = f.pc /\ g.refs = r
  BY <1>2, <1>4 DEF Calls
<1> HIDE DEF g
<1>7. /\ FrameOK(g, alive) /\ Keeps(g, clients_, registered \cap alive)
      /\ Same(g, f) /\ ~Exposed(g)
  BY <1>1, <1>6 DEF FrameOK, Keeps, Tests, Critical, Same, Exposed, LogCalls
<1> QED BY <1>1, <1>4, <1>5, <1>6, <1>7, DropReferenceStep DEF f

LEMMA HandlerReturnsStep ==
    ASSUME IInv, NEW t \in Threads, HandlerReturns(t)
    PROVE  IInv'
<1>1. /\ stack[t] # <<>> /\ Top(t).pc = "disconnecting" /\ stack' = Return(t)
      /\ UNCHANGED <<clients_, mutex, handlers_installed_, held, alive, connected,
                     registered, registrations, signals, logs>>
  BY DEF HandlerReturns, At
<1>2. Outside(Top(t)) /\ connected' \subseteq Clients
  BY <1>1, WaitsOutside DEF IInv, TypeOK
<1> QED BY <1>1, <1>2, ReturnStep

-----------------------------------------------------------------------------
LEMMA InitInv == Init => IInv
<1> SUFFICES ASSUME Init PROVE IInv
  OBVIOUS
<1>1. \A t \in Threads : stack[t] = <<>> /\ Len(stack[t]) = 0
  BY DEF Init
<1>2. TypeOK
  <2>1. <<>> \in Seq(Clients) /\ <<>> \in Seq(Calls)
    OBVIOUS
  <2>2. stack \in [Threads -> Seq(Calls)]
    BY <2>1 DEF Init
  <2>3. held \in [Threads -> SUBSET Clients]
    BY DEF Init
  <2>4. /\ registrations \in 0 .. MaxRegistrations /\ signals \in 0 .. MaxSignals
        /\ logs \in 0 .. MaxLogs
    BY LimitsAssumption DEF Init
  <2> QED BY <2>1, <2>2, <2>3, <2>4 DEF Init, TypeOK
<1>3. FramesInv /\ MutexInv /\ CoverInv /\ KeptInv
  BY <1>1, NoneAssumption DEF Init, FramesInv, MutexInv, MutexOK, CoverInv, KeptInv
<1>4. NoDangling /\ LiveRegistered
  BY DEF Init, NoDangling, LiveRegistered
<1> QED BY <1>2, <1>3, <1>4 DEF IInv

LEMMA NextInv == IInv /\ [Next]_vars => IInv'
<1> SUFFICES ASSUME IInv, [Next]_vars PROVE IInv'
  OBVIOUS
<1>1. CASE UNCHANGED vars
  <2>1. TypeOK' /\ NoDangling' /\ LiveRegistered'
    BY <1>1 DEF vars, IInv, TypeOK, NoDangling, LiveRegistered
  <2>2. FramesInv' /\ KeptInv'
    BY <1>1 DEF vars, IInv, FramesInv, KeptInv
  <2>3. MutexInv' /\ CoverInv'
    BY <1>1 DEF vars, IInv, MutexInv, MutexOK, CoverInv
  <2> QED BY <2>1, <2>2, <2>3 DEF IInv
<1>2. ASSUME NEW t \in Threads, NEW c \in Clients, Connect(t, c) PROVE IInv'
  BY <1>2, ConnectStep
<1>3. ASSUME NEW t \in Threads, NEW c \in Clients, Drop(t, c) PROVE IInv'
  BY <1>3, DropStep
<1>4. ASSUME NEW t \in Threads, NEW sig \in Signals, Signal(t, sig) PROVE IInv'
  BY <1>4, SignalStep
<1>5. ASSUME NEW t \in Threads, Step(t) PROVE IInv'
  BY <1>5, LockStep, GotLoggerStep, LoggedStep, InstallStep, RegisterStep, RegisteredStep,
     UnregisterTestStep, UnregisterTestedStep, UnregisterEraseStep, UnregisteredStep,
     CollectNextStep, CollectedStep, HandlerUnlocksStep, DisconnectNextStep, DropNextStep,
     HandlerReturnsStep DEF Step
<1>6. ASSUME NEW t \in Threads, Log(t) PROVE IInv'
  BY <1>6, LogStarts
<1> QED BY <1>1, <1>2, <1>3, <1>4, <1>5, <1>6 DEF Next

LEMMA Invariance == Spec => []IInv
BY InitInv, NextInv, PTL DEF Spec

(* What clients_, the stacks of calls and the shared_ptrs are made of: no  *)
(* handler ever collects what weak_ptr::lock() returned for an expired     *)
(* client.                                                                 *)
THEOREM SignalTypes == Spec => []TypeOK
<1>1. IInv => TypeOK
  BY DEF IInv
<1> QED BY <1>1, Invariance, PTL

(* clients_ and the loggers are read or changed by one call at a time, and *)
(* each mutex is owned by the thread of that call and by nobody else, for  *)
(* any number of threads and of signals that interrupt each other.         *)
THEOREM AccessIsExclusive == Spec => []ExclusiveAccess
<1>1. IInv => ExclusiveAccess
  <2> SUFFICES ASSUME IInv, NEW t \in Threads, NEW m \in Mutexes
               PROVE  /\ Cardinality({i \in DOMAIN stack[t] : Critical(stack[t][i], m)}) <= 1
                      /\ mutex[m] = t <=> \E i \in DOMAIN stack[t] : Critical(stack[t][i], m)
    BY DEF ExclusiveAccess
  <2> DEFINE C == {i \in DOMAIN stack[t] : Critical(stack[t][i], m)}
  <2>1. DOMAIN stack[t] = 1 .. Len(stack[t]) /\ MutexOK(m)
    BY DEF IInv, TypeOK, MutexInv
  <2>2. mutex[m] = t <=> \E i \in DOMAIN stack[t] : Critical(stack[t][i], m)
    BY <2>1 DEF MutexOK
  <2>3. \A i, j \in C : i = j
    BY <2>1 DEF MutexOK
  <2>4. C = {} \/ \E i : C = {i}
    <3> HIDE DEF C
    <3> QED BY <2>3
  <2>5. Cardinality(C) <= 1
    <3> HIDE DEF C
    <3>1. CASE C = {}
      <4>1. Cardinality(C) = 0
        BY <3>1, FS_EmptySet
      <4> QED BY <4>1
    <3>2. CASE \E i : C = {i}
      <4>1. Cardinality(C) = 1
        BY <3>2, FS_Singleton
      <4> QED BY <4>1
    <3> QED BY <2>4, <3>1, <3>2
  <2> QED BY <2>2, <2>5
<1> QED BY <1>1, Invariance, PTL

(* No client is used after its destructor has begun: not by the            *)
(* application, not by a handler that still disconnects what it collected, *)
(* and not by a test of unregister_client().                               *)
THEOREM NothingDangles == Spec => []NoDangling
<1>1. IInv => NoDangling
  BY DEF IInv
<1> QED BY <1>1, Invariance, PTL

(* A live client that was registered stays in clients_, although other     *)
(* clients' destructors rewrite the list, and are interrupted while they   *)
(* do.                                                                     *)
THEOREM LiveStayRegistered == Spec => []LiveRegistered
<1>1. IInv => LiveRegistered
  BY DEF IInv
<1> QED BY <1>1, Invariance, PTL

(* Whoever owns a mutex that a deadlocked thread waits for is itself        *)
(* waiting, so that the call inside is not its innermost one.              *)
LEMMA OwnerIsCovered ==
    ASSUME IInv, NEW D \in SUBSET Threads, Deadlocked(D), NEW m \in Mutexes, mutex[m] \in D
    PROVE  \E i \in 2 .. Len(stack[mutex[m]]) :
               /\ Critical(stack[mutex[m]][i], m)
               /\ Covers(stack[mutex[m]][i - 1], stack[mutex[m]][i])
<1> DEFINE u == mutex[m]
<1>1. u \in Threads /\ stack[u] # <<>> /\ Top(u).pc = "lock"
  BY DEF Deadlocked, Waits
<1>2. Top(u) = stack[u][1] /\ stack \in Stacks
  BY <1>1, AtLemma
<1>3. ~Critical(stack[u][1], m)
  BY <1>1, <1>2 DEF Critical
<1>4. PICK i \in 1 .. Len(stack[u]) : Critical(stack[u][i], m)
  BY <1>1 DEF IInv, MutexInv, MutexOK
<1>5. i \in 2 .. Len(stack[u])
  <2>1. Len(stack[u]) \in Nat
    BY <1>1, <1>2 DEF Stacks
  <2> QED BY <1>3, <1>4, <2>1
<1>6. Exposed(stack[u][i])
  BY <1>4 DEF Exposed, Critical
<1> QED BY <1>1, <1>4, <1>5, <1>6 DEF IInv, CoverInv

(* A critical section below a handler, or below a destructor. *)
LEMMA InterruptedLemma ==
    ASSUME stack \in Stacks, NEW t \in Threads, NEW m \in Mutexes,
           NEW j \in 2 .. Len(stack[t]), Critical(stack[t][j], m),
           NEW i \in 1 .. j - 1, stack[t][i].op = "handler"
    PROVE  Interrupted(t)
<1>1. DOMAIN stack[t] = 1 .. Len(stack[t]) /\ Len(stack[t]) \in Nat
  BY DEF Stacks
<1>2. i \in DOMAIN stack[t] /\ j \in DOMAIN stack[t] /\ i < j
  BY <1>1
<1> QED BY <1>2 DEF Interrupted

(* Threads that wait for each other's mutexes: one of them was interrupted *)
(* by a signal inside a critical section, of the manager or of the logger, *)
(* or runs a destructor that a test of unregister_client() has triggered.  *)
(* There is no third way.                                                  *)
THEOREM OnlyTwoDeadlocks == Spec => []DeadlockCauses
<1>1. IInv => DeadlockCauses
  <2> SUFFICES ASSUME IInv, NEW D \in SUBSET Threads, Deadlocked(D)
               PROVE  \E t \in D : Interrupted(t) \/ DestroysInside(t)
    BY DEF DeadlockCauses
  <2>1. stack \in Stacks
    BY DEF IInv, TypeOK, Stacks
  <2>2. PICK m \in Mutexes : mutex[m] \in D
    BY DEF Deadlocked
  <2> DEFINE u == mutex[m]
  <2>3. PICK i \in 2 .. Len(stack[u]) :
           Critical(stack[u][i], m) /\ Covers(stack[u][i - 1], stack[u][i])
    BY <2>2, OwnerIsCovered
  <2>4. u \in Threads /\ Len(stack[u]) \in Nat
    BY <2>1, <2>2 DEF Stacks
  <2> HIDE DEF u
  <2>5. CASE stack[u][i - 1].op = "handler"
    <3>1. i - 1 \in 1 .. i - 1
      BY <2>3, <2>4
    <3>2. Interrupted(u)
      BY <2>1, <2>3, <2>4, <2>5, <3>1, InterruptedLemma
    <3> QED BY <2>2, <3>2 DEF u
  <2>6. CASE stack[u][i].op = "unregister" /\ stack[u][i - 1].op = "unregister"
    <3>1. m = "clients_mutex_"
      BY <2>3, <2>6 DEF Critical, MutexOf
    <3>2. DestroysInside(u)
      BY <2>3, <2>6, <3>1 DEF DestroysInside
    <3> QED BY <2>2, <3>2 DEF u
  <2>7. CASE stack[u][i - 1].op \in LogCalls /\ i - 1 # 1
    <3>1. i - 1 \in 2 .. Len(stack[u]) /\ (i - 1) - 1 \in 1 .. i - 1
      BY <2>3, <2>4, <2>7
    <3>2. Covers(stack[u][(i - 1) - 1], stack[u][i - 1])
      BY <2>4, <2>7, <3>1 DEF IInv, CoverInv, Exposed
    <3>3. stack[u][(i - 1) - 1].op = "handler"
      BY <2>7, <3>2 DEF Covers, LogCalls
    <3>4. Interrupted(u)
      BY <2>1, <2>3, <2>4, <3>1, <3>3, InterruptedLemma
    <3> QED BY <2>2, <3>4 DEF u
  <2>8. CASE stack[u][i - 1].op \in LogCalls /\ i - 1 = 1
    <3>1. PICK k \in Mutexes : Waits(u, k) /\ mutex[k] \in D
      BY <2>2 DEF Deadlocked, u
    <3>2. Top(u) = stack[u][1] /\ stack[u] # <<>>
      BY <2>4, <3>1, AtLemma DEF Waits
    <3>3. k # "clients_mutex_"
      BY <2>8, <3>1, <3>2 DEF Waits, LogCalls, MutexOf
    <3> DEFINE v == mutex[k]
    <3>4. PICK j \in 2 .. Len(stack[v]) :
             Critical(stack[v][j], k) /\ Covers(stack[v][j - 1], stack[v][j])
      BY <3>1, OwnerIsCovered
    <3>5. v \in Threads /\ Len(stack[v]) \in Nat
      BY <2>1, <3>1 DEF Stacks
    <3> HIDE DEF v
    <3>6. stack[v][j].op \in LogCalls
      BY <3>3, <3>4 DEF Critical, MutexOf, LogCalls
    <3>7. stack[v][j - 1].op = "handler"
      BY <3>4, <3>6 DEF Covers, LogCalls
    <3>8. j - 1 \in 1 .. j - 1
      BY <3>4, <3>5
    <3>9. Interrupted(v)
      BY <2>1, <3>4, <3>5, <3>7, <3>8, InterruptedLemma
    <3> QED BY <3>1, <3>9 DEF v
  <2> QED BY <2>3, <2>5, <2>6, <2>7, <2>8 DEF Covers
<1> QED BY <1>1, Invariance, PTL
=============================================================================
