----------------------------- MODULE ExecSignals -----------------------------
(***************************************************************************)
(* Numbers and names programs allocate from exec.library: the signals of a *)
(* task (alloc_signal(), free_signal() in vamos/lib/lexec/signalfunc.py)   *)
(* and the public semaphores (SemaphoreManager).  Tasks that have no Amiga *)
(* Task structure share one mask of the class SignalFunc.                  *)
(***************************************************************************)
EXTENDS Integers, FiniteSets

CONSTANTS
    AmiTasks,       \* tasks with an Amiga Task structure
    BareTasks,      \* tasks without
    Shared,         \* stands for SignalFunc._fallback_sig_alloc
    NumSignals,     \* 32
    Reserved,       \* the signals that are taken from the start
    SemAddrs, SemNames, NoName

ASSUME SignalsAssumption ==
    NumSignals \in Nat /\ Reserved \subseteq 0..(NumSignals - 1) /\ Shared \notin AmiTasks

VARIABLES
    sig_alloc,      \* the allocated signals: tc_SigAlloc, _fallback_sig_alloc
    got,            \* ghost: the signals a task's program has
    semaphores,     \* the name of every registered semaphore
    by_name,        \* semaphores_by_name
    public,         \* ghost: the semaphores programs have added
    sem_error       \* KeyError

signal_vars == <<sig_alloc, got>>
sem_vars == <<semaphores, by_name, public, sem_error>>

Signals == 0..(NumSignals - 1)
SigTasks == AmiTasks \cup BareTasks

\* get_my_ami_task()
MaskOf(t) == IF t \in AmiTasks THEN t ELSE Shared

SignalsInit ==
    /\ sig_alloc = [m \in AmiTasks \cup {Shared} |-> Reserved]
    /\ got = [t \in SigTasks |-> {}]

\* Mutant: a signal that was asked for by its number is not tested
alloc_signal_any(mask, num) ==
    IF num # -1 THEN num
    ELSE IF Signals \subseteq mask THEN -1
    ELSE CHOOSE s \in Signals \ mask : \A r \in Signals \ mask : s <= r

\* the result of alloc_signal(): the lowest free signal, or the one asked for
alloc_signal(mask, num) ==
    IF num # -1 THEN (IF num \in mask THEN -1 ELSE num)
    ELSE IF Signals \subseteq mask THEN -1
    ELSE CHOOSE s \in Signals \ mask : \A r \in Signals \ mask : s <= r

AllocSignal(t, num) ==
    LET s == alloc_signal(sig_alloc[MaskOf(t)], num)
    IN  /\ s # -1
        /\ sig_alloc' = [sig_alloc EXCEPT ![MaskOf(t)] = @ \cup {s}]
        /\ got' = [got EXCEPT ![t] = @ \cup {s}]

\* A task frees the signals it has.
FreeSignal(t, num) ==
    /\ num \in got[t]
    /\ sig_alloc' = [sig_alloc EXCEPT ![MaskOf(t)] = @ \ {num}]
    /\ got' = [got EXCEPT ![t] = @ \ {num}]

SignalsNext ==
    \E t \in SigTasks :
        \/ \E num \in Signals \cup {-1} : AllocSignal(t, num)
        \/ \E num \in got[t] : FreeSignal(t, num)

-----------------------------------------------------------------------------
SemsInit ==
    /\ semaphores = [a \in {} |-> NoName] /\ by_name = [n \in {} |-> NoName]
    /\ public = [a \in {} |-> NoName] /\ sem_error = FALSE

Set(f, x, y) == [z \in DOMAIN f \cup {x} |-> IF z = x THEN y ELSE f[z]]
Unset(f, x) == [z \in DOMAIN f \ {x} |-> f[z]]

\* register_semaphore(): NoName stands for the "Semaphore@..." it is given
InitSemaphore(a) ==
    /\ a \notin DOMAIN public
    /\ semaphores' = IF a \in DOMAIN semaphores THEN semaphores ELSE Set(semaphores, a, NoName)
    /\ UNCHANGED <<by_name, public, sem_error>>

named(a, n) == Set(semaphores, a, n)

\* Programs add a semaphore once, under a name that is not in use.
AddSemaphore(a, n) ==
    /\ a \notin DOMAIN public /\ \A b \in DOMAIN public : public[b] # n
    /\ semaphores' = named(a, n)
    /\ by_name' = Set(by_name, n, a)
    /\ public' = Set(public, a, n)
    /\ UNCHANGED sem_error

RemSemaphore(a) ==
    /\ a \in DOMAIN public
    /\ public' = Unset(public, a)
    /\ IF semaphores[a] \in DOMAIN by_name
       THEN by_name' = Unset(by_name, semaphores[a]) /\ UNCHANGED sem_error
       ELSE sem_error' = TRUE /\ UNCHANGED by_name
    /\ UNCHANGED semaphores

SemsNext ==
    /\ ~sem_error
    /\ \E a \in SemAddrs : InitSemaphore(a) \/ RemSemaphore(a) \/ \E n \in SemNames : AddSemaphore(a, n)

\* signals and semaphores share no state
NumbersNext ==
    \/ SignalsNext /\ UNCHANGED sem_vars
    \/ SemsNext /\ UNCHANGED signal_vars

NumbersSpec == SignalsInit /\ SemsInit /\ [][NumbersNext]_<<signal_vars, sem_vars>>

-----------------------------------------------------------------------------
\* No two holders that share a mask have the same signal, and what a program
\* has is marked as taken: however signals are allocated by number or at
\* random and freed, nobody is given one that is in use (alloc_signal()).
SignalsExclusive ==
    \A t, u \in SigTasks :
        /\ got[t] \subseteq sig_alloc[MaskOf(t)] \ Reserved
        /\ (t # u /\ MaskOf(t) = MaskOf(u)) => got[t] \cap got[u] = {}

\* FindSemaphore() finds exactly the semaphores that programs have added and
\* not removed, under their current names, also when the address was used for
\* another semaphore before; RemSemaphore() never fails on one of them.
SemaphoresFound ==
    /\ ~sem_error
    /\ DOMAIN by_name = {public[a] : a \in DOMAIN public}
    /\ \A a \in DOMAIN public : by_name[public[a]] = a

\* A signal number belongs to one user of a mask at a time, and a semaphore is found by
\* the name it was added with (SignalFunc, SemaphoreManager).
NumbersExclusive == SignalsExclusive /\ SemaphoresFound
==============================================================================
