---------------------------- MODULE ExecIpcProofs ----------------------------
(***************************************************************************)
(* Proofs about what programs share through exec.library: signal numbers   *)
(* and semaphores, message ports and the mail in them, memory pools and    *)
(* the memory behind a MemHeader, for any tasks, signals, names,           *)
(* addresses, messages, memory, kinds of pools and sizes other than zero.  *)
(***************************************************************************)
EXTENDS ExecSignals, ExecPorts, ExecPools, MemHeader, ListLemmas, FiniteSetTheorems

-----------------------------------------------------------------------------
(* Signals.                                                                 *)

(***************************************************************************)
(* The inductive invariant: the reserved signals stay in every mask, and   *)
(* the signals of tasks that share a mask are disjoint parts of the rest.  *)
(***************************************************************************)
SignalsInv ==
    /\ sig_alloc \in [AmiTasks \cup {Shared} -> SUBSET Signals]
    /\ got \in [SigTasks -> SUBSET Signals]
    /\ \A m \in AmiTasks \cup {Shared} : Reserved \subseteq sig_alloc[m]
    /\ SignalsExclusive

\* A signal that alloc_signal() returns is not in the mask.
LEMMA AllocSignalFree ==
    ASSUME NEW mask, NEW num \in Signals \cup {-1}, alloc_signal(mask, num) # -1
    PROVE  alloc_signal(mask, num) \in Signals \ mask
<1>1. CASE num # -1
  BY <1>1 DEF alloc_signal
<1>2. CASE num = -1
  <2> DEFINE F == Signals \ mask
  <2>1. F # {} /\ F \subseteq Nat
    BY <1>2, SignalsAssumption DEF alloc_signal, Signals
  <2>2. alloc_signal(mask, num) = CHOOSE s \in F : \A r \in F : s <= r
    BY <1>2 DEF alloc_signal
  <2> HIDE DEF F
  <2>3. \E s \in F : \A r \in F : s <= r
    BY <2>1, NatLeast
  <2> QED BY <2>2, <2>3 DEF F
<1> QED BY <1>1, <1>2

\* AllocSignal() gives a task a signal no other user of its mask has.
LEMMA AllocSignalInv ==
    ASSUME SignalsInv, NEW t \in SigTasks, NEW num \in Signals \cup {-1}, AllocSignal(t, num)
    PROVE  SignalsInv'
<1> DEFINE m == MaskOf(t)
           s == alloc_signal(sig_alloc[m], num)
<1>1. m \in AmiTasks \cup {Shared}
  BY DEF MaskOf
<1>2. s \in Signals \ sig_alloc[m]
  BY AllocSignalFree DEF AllocSignal
<1>3. /\ sig_alloc' = [sig_alloc EXCEPT ![m] = @ \cup {s}]
      /\ got' = [got EXCEPT ![t] = @ \cup {s}]
  BY DEF AllocSignal
<1> HIDE DEF s
<1>4. /\ sig_alloc' \in [AmiTasks \cup {Shared} -> SUBSET Signals]
      /\ got' \in [SigTasks -> SUBSET Signals]
      /\ \A k \in AmiTasks \cup {Shared} : Reserved \subseteq sig_alloc'[k]
  BY <1>1, <1>2, <1>3 DEF SignalsInv
<1>5. \A u \in SigTasks : /\ got'[u] = IF u = t THEN got[u] \cup {s} ELSE got[u]
                          /\ MaskOf(u) \in AmiTasks \cup {Shared}
  BY <1>3 DEF SignalsInv, MaskOf
<1>6. \A k \in AmiTasks \cup {Shared} :
        sig_alloc'[k] = IF k = m THEN sig_alloc[k] \cup {s} ELSE sig_alloc[k]
  BY <1>3 DEF SignalsInv
<1>7. s \notin Reserved
  BY <1>1, <1>2 DEF SignalsInv
<1>8. SignalsExclusive'
  <2> SUFFICES ASSUME NEW u \in SigTasks, NEW w \in SigTasks
               PROVE  /\ got'[u] \subseteq sig_alloc'[MaskOf(u)] \ Reserved
                      /\ (u # w /\ MaskOf(u) = MaskOf(w)) => got'[u] \cap got'[w] = {}
    BY DEF SignalsExclusive, MaskOf, SigTasks
  <2>1. /\ got[u] \subseteq sig_alloc[MaskOf(u)] \ Reserved
        /\ got[w] \subseteq sig_alloc[MaskOf(w)] \ Reserved
        /\ (u # w /\ MaskOf(u) = MaskOf(w)) => got[u] \cap got[w] = {}
    BY DEF SignalsInv, SignalsExclusive
  <2> QED BY <1>2, <1>5, <1>6, <1>7, <2>1, ZenonT(30)
<1> QED BY <1>4, <1>8 DEF SignalsInv, Signals, SigTasks

\* FreeSignal() takes a signal from its only holder.
LEMMA FreeSignalInv ==
    ASSUME SignalsInv, NEW t \in SigTasks, NEW num \in got[t], FreeSignal(t, num)
    PROVE  SignalsInv'
<1> DEFINE m == MaskOf(t)
<1>1. m \in AmiTasks \cup {Shared}
  BY DEF MaskOf
<1>2. /\ sig_alloc' = [sig_alloc EXCEPT ![m] = @ \ {num}]
      /\ got' = [got EXCEPT ![t] = @ \ {num}]
  BY DEF FreeSignal
<1>3. num \notin Reserved
  BY DEF SignalsInv, SignalsExclusive
<1>4. /\ sig_alloc' \in [AmiTasks \cup {Shared} -> SUBSET Signals]
      /\ got' \in [SigTasks -> SUBSET Signals]
      /\ \A k \in AmiTasks \cup {Shared} : Reserved \subseteq sig_alloc'[k]
  BY <1>1, <1>2, <1>3 DEF SignalsInv
<1>5. \A u \in SigTasks : /\ got'[u] = IF u = t THEN got[u] \ {num} ELSE got[u]
                          /\ MaskOf(u) \in AmiTasks \cup {Shared}
  BY <1>2 DEF SignalsInv, MaskOf
<1>6. \A k \in AmiTasks \cup {Shared} :
        sig_alloc'[k] = IF k = m THEN sig_alloc[k] \ {num} ELSE sig_alloc[k]
  BY <1>2 DEF SignalsInv
<1>7. SignalsExclusive'
  <2> SUFFICES ASSUME NEW u \in SigTasks, NEW w \in SigTasks
               PROVE  /\ got'[u] \subseteq sig_alloc'[MaskOf(u)] \ Reserved
                      /\ (u # w /\ MaskOf(u) = MaskOf(w)) => got'[u] \cap got'[w] = {}
    BY DEF SignalsExclusive, MaskOf, SigTasks
  <2>1. /\ got[u] \subseteq sig_alloc[MaskOf(u)] \ Reserved
        /\ (u # w /\ MaskOf(u) = MaskOf(w)) => got[u] \cap got[w] = {}
        /\ (u # t /\ MaskOf(u) = m) => num \notin got[u]
    BY DEF SignalsInv, SignalsExclusive
  <2>2. got'[u] \subseteq sig_alloc'[MaskOf(u)] \ Reserved
    BY <1>5, <1>6, <2>1
  <2>3. got'[u] \subseteq got[u] /\ got'[w] \subseteq got[w]
    BY <1>5
  <2> QED BY <2>1, <2>2, <2>3
<1> QED BY <1>4, <1>7 DEF SignalsInv, Signals, SigTasks

-----------------------------------------------------------------------------
(* Semaphores.                                                              *)

(***************************************************************************)
(* The inductive invariant: a semaphore that programs have added is        *)
(* registered under the name it was added with, so that removing it finds  *)
(* that name; entries of semaphores that were removed may stay behind.     *)
(***************************************************************************)
SemsInv ==
    /\ \A a \in DOMAIN public : a \in DOMAIN semaphores /\ semaphores[a] = public[a]
    /\ SemaphoresFound

\* InitSemaphore() on memory that is not a public semaphore disturbs none.
LEMMA InitSemaphoreInv ==
    ASSUME SemsInv, NEW a \in SemAddrs, InitSemaphore(a) PROVE SemsInv'
<1>1. /\ a \notin DOMAIN public
      /\ semaphores' = IF a \in DOMAIN semaphores THEN semaphores ELSE Set(semaphores, a, NoName)
      /\ by_name' = by_name /\ public' = public /\ sem_error' = sem_error
  BY DEF InitSemaphore
<1>2. \A b \in DOMAIN semaphores : b # a => b \in DOMAIN semaphores' /\ semaphores'[b] = semaphores[b]
  BY <1>1 DEF Set
<1>3. \A b \in DOMAIN public' : b \in DOMAIN semaphores' /\ semaphores'[b] = public'[b]
  BY <1>1, <1>2 DEF SemsInv
<1> QED BY <1>1, <1>3 DEF SemsInv, SemaphoresFound

\* AddSemaphore() enters the name and the address.
LEMMA AddSemaphoreInv ==
    ASSUME SemsInv, NEW a \in SemAddrs, NEW n \in SemNames, AddSemaphore(a, n) PROVE SemsInv'
<1>1. /\ a \notin DOMAIN public /\ \A b \in DOMAIN public : public[b] # n
      /\ semaphores' = Set(semaphores, a, n)
      /\ by_name' = Set(by_name, n, a)
      /\ public' = Set(public, a, n)
      /\ sem_error' = sem_error
  BY DEF AddSemaphore, named
<1>2. /\ DOMAIN semaphores' = DOMAIN semaphores \cup {a} /\ semaphores'[a] = n
      /\ \A b \in DOMAIN semaphores \ {a} : semaphores'[b] = semaphores[b]
  BY <1>1 DEF Set
<1>3. /\ DOMAIN by_name' = DOMAIN by_name \cup {n} /\ by_name'[n] = a
      /\ \A x \in DOMAIN by_name \ {n} : by_name'[x] = by_name[x]
  BY <1>1 DEF Set
<1>4. /\ DOMAIN public' = DOMAIN public \cup {a} /\ public'[a] = n
      /\ \A b \in DOMAIN public : public'[b] = public[b]
  BY <1>1 DEF Set
<1>5. \A b \in DOMAIN public : public[b] \in DOMAIN by_name
  BY DEF SemsInv, SemaphoresFound
<1>6. DOMAIN by_name' = {public'[b] : b \in DOMAIN public'}
  <2>1. \A x : x \in DOMAIN by_name <=> \E b \in DOMAIN public : x = public[b]
    BY DEF SemsInv, SemaphoresFound
  <2>2. \A x : x \in DOMAIN by_name' <=> \E b \in DOMAIN public' : x = public'[b]
    BY <1>3, <1>4, <2>1
  <2>3. \A x : x \in DOMAIN by_name' <=> x \in {public'[b] : b \in DOMAIN public'}
    BY <2>2
  <2> QED BY <2>3
<1>7. \A b \in DOMAIN public' : by_name'[public'[b]] = b
  BY <1>1, <1>3, <1>4, <1>5 DEF SemsInv, SemaphoresFound
<1>8. \A b \in DOMAIN public' : b \in DOMAIN semaphores' /\ semaphores'[b] = public'[b]
  BY <1>1, <1>2, <1>4 DEF SemsInv
<1> QED BY <1>1, <1>6, <1>7, <1>8 DEF SemsInv, SemaphoresFound

\* RemSemaphore() of a public semaphore finds its name and takes only that away.
LEMMA RemSemaphoreInv ==
    ASSUME SemsInv, NEW a \in SemAddrs, RemSemaphore(a) PROVE SemsInv'
<1> DEFINE n == public[a]
<1>1. a \in DOMAIN public /\ semaphores[a] = n /\ n \in DOMAIN by_name
  BY DEF RemSemaphore, SemsInv, SemaphoresFound
<1>2. /\ public' = Unset(public, a) /\ by_name' = Unset(by_name, n)
      /\ semaphores' = semaphores /\ sem_error' = sem_error
  BY <1>1 DEF RemSemaphore
<1>3. /\ DOMAIN by_name' = DOMAIN by_name \ {n}
      /\ \A x \in DOMAIN by_name \ {n} : by_name'[x] = by_name[x]
  BY <1>2 DEF Unset
<1>4. /\ DOMAIN public' = DOMAIN public \ {a}
      /\ \A b \in DOMAIN public \ {a} : public'[b] = public[b]
  BY <1>2 DEF Unset
<1>5. \A b \in DOMAIN public : public[b] \in DOMAIN by_name /\ by_name[public[b]] = b
  BY DEF SemsInv, SemaphoresFound
<1>6. \A b \in DOMAIN public \ {a} : public[b] # n
  BY <1>1, <1>5
<1>7. DOMAIN by_name' = {public'[b] : b \in DOMAIN public'}
  <2>1. \A x : x \in DOMAIN by_name <=> \E b \in DOMAIN public : x = public[b]
    BY DEF SemsInv, SemaphoresFound
  <2>2. \A x : x \in DOMAIN by_name' <=> \E b \in DOMAIN public' : x = public'[b]
    BY <1>1, <1>3, <1>4, <1>6, <2>1
  <2>3. \A x : x \in DOMAIN by_name' <=> x \in {public'[b] : b \in DOMAIN public'}
    BY <2>2
  <2> QED BY <2>3
<1>8. \A b \in DOMAIN public' : by_name'[public'[b]] = b
  BY <1>3, <1>4, <1>5, <1>6
<1>9. \A b \in DOMAIN public' : b \in DOMAIN semaphores' /\ semaphores'[b] = public'[b]
  BY <1>2, <1>4 DEF SemsInv
<1> QED BY <1>2, <1>7, <1>8, <1>9 DEF SemsInv, SemaphoresFound

-----------------------------------------------------------------------------
\* Nobody is given a signal that is in use, and FindSemaphore() finds what was added and
\* not removed, however alloc_signal(), free_signal() and the semaphore functions are
\* called (signalfunc.py, SemaphoreManager).
THEOREM NumbersAreExclusive == NumbersSpec => []NumbersExclusive
<1>1. SignalsInit /\ SemsInit => SignalsInv /\ SemsInv
  <2> SUFFICES ASSUME SignalsInit, SemsInit PROVE SignalsInv /\ SemsInv
    OBVIOUS
  <2>1. SignalsInv
    BY SignalsAssumption DEF SignalsInit, SignalsInv, SignalsExclusive, Signals, SigTasks, MaskOf
  <2>2. DOMAIN public = {} /\ DOMAIN by_name = {} /\ ~sem_error
    BY DEF SemsInit
  <2>3. {public[a] : a \in DOMAIN public} = {}
    BY <2>2
  <2> QED BY <2>1, <2>2, <2>3 DEF SemsInv, SemaphoresFound
<1>2. ASSUME SignalsInv, SemsInv, [NumbersNext]_<<signal_vars, sem_vars>>
      PROVE  SignalsInv' /\ SemsInv'
  <2>1. CASE SignalsNext /\ UNCHANGED sem_vars
    <3>1. SignalsInv'
      BY <1>2, <2>1, AllocSignalInv, FreeSignalInv DEF SignalsNext
    <3>2. SemsInv'
      BY <1>2, <2>1 DEF sem_vars, SemsInv, SemaphoresFound
    <3> QED BY <3>1, <3>2
  <2>2. CASE SemsNext /\ UNCHANGED signal_vars
    <3>1. SignalsInv'
      BY <1>2, <2>2 DEF signal_vars, SignalsInv, SignalsExclusive, Signals, SigTasks, MaskOf
    <3>2. SemsInv'
      BY <1>2, <2>2, InitSemaphoreInv, AddSemaphoreInv, RemSemaphoreInv DEF SemsNext
    <3> QED BY <3>1, <3>2
  <2>3. CASE UNCHANGED <<signal_vars, sem_vars>>
    BY <1>2, <2>3 DEF signal_vars, sem_vars, SignalsInv, SignalsExclusive, Signals, SigTasks,
       MaskOf, SemsInv, SemaphoresFound
  <2> QED BY <1>2, <2>1, <2>2, <2>3 DEF NumbersNext
<1>3. SignalsInv /\ SemsInv => NumbersExclusive
  BY DEF SignalsInv, SemsInv, NumbersExclusive
<1> QED BY <1>1, <1>2, <1>3, PTL DEF NumbersSpec

-----------------------------------------------------------------------------
(* Ports and mail.                                                          *)

(***************************************************************************)
(* The inductive invariant: the queue of a port in use has each message    *)
(* that was put to it and not taken, once; such a message is at a port     *)
(* that the PortManager knows and whose memory is in use, so that neither  *)
(* register_port() nor a second CreateMsgPort() at the address can lose    *)
(* it; and a message that was not answered yet names the port its sender   *)
(* waits at.                                                               *)
(***************************************************************************)
Live(a) == block[a] # "free"

QueueRight(a) ==
    /\ IsInjective(ports[a].queue)
    /\ \A m \in Mail : Contains(ports[a].queue, m) <=> sent[m] = a

QueuesRight == \A a \in DOMAIN ports : Live(a) => QueueRight(a)

SentToLive ==
    \A m \in Mail : sent[m] \in PortAddrs => sent[m] \in DOMAIN ports /\ Live(sent[m])

AnswerNamed == \A m \in Mail : ~replied[m] => reply_to[m] = origin[m]

PortsInv ==
    /\ PortsTypeOK
    /\ QueuesRight
    /\ SentToLive
    /\ RepliesReachSender
    /\ AnswerNamed

Port == [queue : Seq(Mail), mem : BOOLEAN]

\* A port that was just made is empty.
LEMMA EmptyQueue ==
    /\ <<>> \in Seq(Mail) /\ IsInjective(<<>>)
    /\ \A m : ~Contains(<<>>, m)
BY DEF IsInjective, Contains

\* ports[a] = p leaves the other ports alone.
LEMMA WithFacts ==
    ASSUME NEW a, NEW p
    PROVE  /\ DOMAIN With(ports, a, p) = DOMAIN ports \cup {a}
           /\ With(ports, a, p)[a] = p
           /\ \A b \in DOMAIN ports \ {a} : With(ports, a, p)[b] = ports[b]
BY DEF With

\* register_port() where there is no port yet makes an empty one.
LEMMA EnsureFacts ==
    ASSUME PortsTypeOK, NEW a \in PortAddrs
    PROVE  LET ps == ensure_port(ports, a)
           IN /\ DOMAIN ps = DOMAIN ports \cup {a}
              /\ \A b \in DOMAIN ports : ps[b] = ports[b]
              /\ \A b \in DOMAIN ps : ps[b] \in Port
              /\ a \notin DOMAIN ports => ps[a].queue = <<>>
<1> DEFINE new == [queue |-> <<>>, mem |-> FALSE]
<1>1. new \in Port /\ new.queue = <<>>
  BY DEF Port
<1>2. \A b \in DOMAIN ports : ports[b] \in Port
  BY DEF PortsTypeOK, Port
<1>3. CASE a \in DOMAIN ports
  BY <1>2, <1>3 DEF ensure_port
<1>4. CASE a \notin DOMAIN ports
  <2>1. ensure_port(ports, a) = With(ports, a, new)
    BY <1>4 DEF ensure_port
  <2> HIDE DEF new
  <2>2. /\ DOMAIN With(ports, a, new) = DOMAIN ports \cup {a}
        /\ With(ports, a, new)[a] = new
        /\ \A b \in DOMAIN ports \ {a} : With(ports, a, new)[b] = ports[b]
    BY WithFacts, ZenonT(30)
  <2> QED BY <1>1, <1>2, <1>4, <2>1, <2>2
<1> QED BY <1>3, <1>4

\* What a step does that puts m at the end of the queue of a.
LEMMA PutFacts ==
    ASSUME PortsInv, NEW a \in PortAddrs, NEW m \in Mail, sent[m] = Nobody, Put(a, m)
    PROVE  /\ DOMAIN ports' = DOMAIN ports \cup {a}
           /\ \A b \in DOMAIN ports \ {a} : ports'[b] = ports[b]
           /\ \A b \in DOMAIN ports' : ports'[b] \in Port
           /\ a \in DOMAIN ports => ports'[a].queue = Append(ports[a].queue, m)
           /\ sent' \in [Mail -> PortAddrs \cup {Nobody, Gone}]
           /\ \A k \in Mail \ {m} : sent'[k] = sent[k]
           /\ sent'[m] = IF Live(a) THEN a ELSE Gone
           /\ block' = block => QueuesRight' /\ SentToLive'
<1> DEFINE ps == ensure_port(ports, a)
<1>1. /\ DOMAIN ps = DOMAIN ports \cup {a}
      /\ \A b \in DOMAIN ports : ps[b] = ports[b]
      /\ \A b \in DOMAIN ps : ps[b] \in Port
      /\ a \notin DOMAIN ports => ps[a].queue = <<>>
  BY EnsureFacts DEF PortsInv
<1>2. ports' = [ps EXCEPT ![a].queue = Append(@, m)]
  BY DEF Put, put_msg
<1> HIDE DEF ps
<1>3. /\ ps[a].queue \in Seq(Mail) /\ ps[a].mem \in BOOLEAN
      /\ Append(ps[a].queue, m) \in Seq(Mail)
      /\ \A x : Contains(Append(ps[a].queue, m), x) <=> Contains(ps[a].queue, x) \/ x = m
      /\ IsInjective(ps[a].queue) /\ ~Contains(ps[a].queue, m)
            => IsInjective(Append(ps[a].queue, m))
  <2>1. ps[a].queue \in Seq(Mail) /\ ps[a].mem \in BOOLEAN
    BY <1>1 DEF Port
  <2> QED BY <2>1, AppendFacts
<1>4. /\ DOMAIN ports' = DOMAIN ports \cup {a}
      /\ \A b \in DOMAIN ports' \ {a} : ports'[b] = ps[b]
      /\ ports'[a].queue = Append(ps[a].queue, m)
      /\ ports'[a] \in Port
  <2>1. DOMAIN ports' = DOMAIN ports \cup {a} /\ \A b \in DOMAIN ports' \ {a} : ports'[b] = ps[b]
    BY <1>1, <1>2
  <2>2. ports'[a] = [ps[a] EXCEPT !.queue = Append(@, m)]
    BY <1>1, <1>2
  <2>3. ps[a] \in [queue : Seq(Mail), mem : BOOLEAN]
    BY <1>1 DEF Port
  <2> QED BY <1>3, <2>1, <2>2, <2>3 DEF Port
<1>5. /\ sent' \in [Mail -> PortAddrs \cup {Nobody, Gone}]
      /\ \A k \in Mail \ {m} : sent'[k] = sent[k]
      /\ sent'[m] = IF Live(a) THEN a ELSE Gone
  BY DEF Put, PortsInv, PortsTypeOK, Live
<1>6. ASSUME block' = block PROVE QueuesRight'
  <2> SUFFICES ASSUME NEW b \in DOMAIN ports', Live(b)
               PROVE  /\ IsInjective(ports'[b].queue)
                      /\ \A k \in Mail : Contains(ports'[b].queue, k) <=> sent'[k] = b
    BY <1>6 DEF QueuesRight, QueueRight, Live
  <2>0. b \in PortAddrs /\ b # Nobody /\ b # Gone
    BY <1>4, MailAssumption DEF PortsInv, PortsTypeOK
  <2>1. CASE b # a
    <3>1. b \in DOMAIN ports /\ ports'[b] = ports[b] /\ QueueRight(b)
      BY <1>1, <1>4, <2>1 DEF PortsInv, QueuesRight
    <3>2. \A k \in Mail : sent'[k] = b <=> sent[k] = b
      BY <1>5, <2>0, <2>1
    <3> QED BY <3>1, <3>2 DEF QueueRight
  <2>2. CASE b = a
    <3>1. /\ IsInjective(ps[a].queue)
          /\ \A k \in Mail : Contains(ps[a].queue, k) <=> sent[k] = a
      <4>1. CASE a \in DOMAIN ports
        BY <1>1, <2>2, <4>1 DEF PortsInv, QueuesRight, QueueRight
      <4>2. CASE a \notin DOMAIN ports
        <5>1. \A k \in Mail : sent[k] # a
          BY <4>2 DEF PortsInv, SentToLive
        <5> QED BY <1>1, <4>2, <5>1, EmptyQueue
      <4> QED BY <4>1, <4>2
    <3>2. ~Contains(ps[a].queue, m)
      BY <2>0, <2>2, <3>1
    <3>3. \A k \in Mail : sent'[k] = a <=> sent[k] = a \/ k = m
      BY <1>5, <2>2
    <3> QED BY <1>3, <1>4, <2>2, <3>1, <3>2, <3>3
  <2> QED BY <2>1, <2>2
<1>7. ASSUME block' = block PROVE SentToLive'
  <2> SUFFICES ASSUME NEW k \in Mail, sent'[k] \in PortAddrs
               PROVE  sent'[k] \in DOMAIN ports' /\ Live(sent'[k])
    BY <1>7 DEF SentToLive, Live
  <2>1. CASE k = m
    BY <1>4, <1>5, <2>1, MailAssumption
  <2>2. CASE k # m
    BY <1>4, <1>5, <2>2 DEF PortsInv, SentToLive
  <2> QED BY <2>1, <2>2
<1>8. /\ \A b \in DOMAIN ports \ {a} : ports'[b] = ports[b]
      /\ \A b \in DOMAIN ports' : ports'[b] \in Port
      /\ a \in DOMAIN ports => ports'[a].queue = Append(ports[a].queue, m)
  BY <1>1, <1>4
<1> QED BY <1>4, <1>5, <1>6, <1>7, <1>8

\* A step that changes no message keeps the invariant if every port in use is one that was
\* and has all its mail, or is empty and nothing was put to it.
LEMMA PortStep ==
    ASSUME PortsInv, UNCHANGED <<reply_to, replied, origin>>,
           DOMAIN ports' \subseteq PortAddrs, \A b \in DOMAIN ports' : ports'[b] \in Port,
           block' \in [PortAddrs -> {"free", "created", "own", "process"}],
           sent' \in [Mail -> PortAddrs \cup {Nobody, Gone}],
           \A k \in Mail : sent'[k] = sent[k] \/ sent'[k] = Gone,
           \A b \in DOMAIN ports' : block'[b] # "free" =>
                \/ /\ b \in DOMAIN ports /\ Live(b) /\ ports'[b] = ports[b]
                   /\ \A k \in Mail : sent[k] = b => sent'[k] = b
                \/ ports'[b].queue = <<>> /\ \A k \in Mail : sent'[k] # b,
           \A k \in Mail : sent'[k] \in PortAddrs =>
                sent'[k] \in DOMAIN ports' /\ block'[sent'[k]] # "free"
    PROVE  PortsInv'
<1>1. PortsTypeOK'
  BY DEF PortsInv, PortsTypeOK, Port
<1>2. QueuesRight'
  <2> SUFFICES ASSUME NEW b \in DOMAIN ports', block'[b] # "free"
               PROVE  /\ IsInjective(ports'[b].queue)
                      /\ \A k \in Mail : Contains(ports'[b].queue, k) <=> sent'[k] = b
    BY DEF QueuesRight, QueueRight, Live
  <2>0. b # Gone
    BY MailAssumption
  <2>1. CASE ports'[b].queue = <<>> /\ \A k \in Mail : sent'[k] # b
    BY <2>1, EmptyQueue
  <2>2. CASE /\ b \in DOMAIN ports /\ Live(b) /\ ports'[b] = ports[b]
             /\ \A k \in Mail : sent[k] = b => sent'[k] = b
    <3>1. QueueRight(b)
      BY <2>2 DEF PortsInv, QueuesRight
    <3>2. \A k \in Mail : sent'[k] = b <=> sent[k] = b
      BY <2>0, <2>2
    <3> QED BY <2>2, <3>1, <3>2 DEF QueueRight
  <2> QED BY <2>1, <2>2
<1>3. SentToLive'
  BY DEF SentToLive, Live
<1>4. RepliesReachSender'
  BY MailAssumption DEF PortsInv, RepliesReachSender
<1>5. AnswerNamed'
  BY DEF PortsInv, AnswerNamed
<1> QED BY <1>1, <1>2, <1>3, <1>4, <1>5 DEF PortsInv

\* A function that raises or only looks changes no port and no message.
LEMMA NothingMoved ==
    ASSUME PortsInv, UNCHANGED <<ports, block, reply_to, replied, sent, origin>>
    PROVE  PortsInv'
BY DEF PortsInv, PortsTypeOK, QueuesRight, QueueRight, SentToLive, Live, RepliesReachSender,
   AnswerNamed

\* what is known of the ports before a step
LEMMA PortsKnown ==
    ASSUME PortsInv
    PROVE  /\ DOMAIN ports \subseteq PortAddrs /\ \A b \in DOMAIN ports : ports[b] \in Port
           /\ block \in [PortAddrs -> {"free", "created", "own", "process"}]
           /\ sent \in [Mail -> PortAddrs \cup {Nobody, Gone}]
           /\ \A k \in Mail : sent[k] \in PortAddrs => sent[k] \in DOMAIN ports /\ Live(sent[k])
BY DEF PortsInv, PortsTypeOK, Port, SentToLive

\* CreateMsgPort() replaces what was left of a port in free memory.
LEMMA CreateMsgPortInv ==
    ASSUME PortsInv, NEW a \in PortAddrs, CreateMsgPort(a) PROVE PortsInv'
<1> DEFINE new == [queue |-> <<>>, mem |-> TRUE]
<1>1. /\ block[a] = "free"
      /\ ports' = With(ports, a, new) /\ block' = [block EXCEPT ![a] = "created"]
      /\ reply_to' = reply_to /\ replied' = replied /\ sent' = sent /\ origin' = origin
  BY DEF CreateMsgPort, create_port
<1>2. new \in Port /\ new.queue = <<>>
  BY DEF Port
<1> HIDE DEF new
<1>3. /\ DOMAIN ports' = DOMAIN ports \cup {a} /\ ports'[a] = new
      /\ \A b \in DOMAIN ports \ {a} : ports'[b] = ports[b]
  BY <1>1 DEF With
<1>4. /\ block' \in [PortAddrs -> {"free", "created", "own", "process"}]
      /\ block'[a] = "created" /\ \A b \in PortAddrs \ {a} : block'[b] = block[b]
  BY <1>1, PortsKnown
<1>5. \A k \in Mail : sent[k] # a
  BY <1>1, PortsKnown DEF Live
<1>6. \A b \in DOMAIN ports' : block'[b] # "free" =>
        \/ b \in DOMAIN ports /\ Live(b) /\ ports'[b] = ports[b]
        \/ ports'[b].queue = <<>> /\ \A k \in Mail : sent'[k] # b
  BY <1>1, <1>2, <1>3, <1>4, <1>5, PortsKnown DEF Live
<1>7. \A k \in Mail : sent'[k] \in PortAddrs =>
        sent'[k] \in DOMAIN ports' /\ block'[sent'[k]] # "free"
  BY <1>1, <1>3, <1>4, PortsKnown DEF Live
<1>8. DOMAIN ports' \subseteq PortAddrs /\ \A b \in DOMAIN ports' : ports'[b] \in Port
  BY <1>2, <1>3, PortsKnown
<1> QED BY <1>1, <1>4, <1>6, <1>7, <1>8, PortsKnown, PortStep

\* A program takes memory for a port of its own only where none is known.
LEMMA BuildPortInv ==
    ASSUME PortsInv, ReuseOwn = FALSE, NEW a \in PortAddrs, BuildPort(a) PROVE PortsInv'
<1>1. /\ block[a] = "free" /\ a \notin DOMAIN ports
      /\ ports' = ports /\ block' = [block EXCEPT ![a] = "own"]
      /\ reply_to' = reply_to /\ replied' = replied /\ sent' = sent /\ origin' = origin
  BY DEF BuildPort, has_port
<1>2. /\ block' \in [PortAddrs -> {"free", "created", "own", "process"}]
      /\ block'[a] = "own" /\ \A b \in PortAddrs \ {a} : block'[b] = block[b]
  BY <1>1, PortsKnown
<1>3. \A b \in DOMAIN ports' : block'[b] # "free" =>
        b \in DOMAIN ports /\ Live(b) /\ ports'[b] = ports[b]
  BY <1>1, <1>2, PortsKnown DEF Live
<1>4. \A k \in Mail : sent'[k] \in PortAddrs =>
        sent'[k] \in DOMAIN ports' /\ block'[sent'[k]] # "free"
  BY <1>1, <1>2, PortsKnown DEF Live
<1> QED BY <1>1, <1>2, <1>3, <1>4, PortsKnown, PortStep

\* It gives the memory back when no port is known there.
LEMMA FreeOwnPortInv ==
    ASSUME PortsInv, NEW a \in PortAddrs, FreeOwnPort(a) PROVE PortsInv'
<1>1. /\ a \notin DOMAIN ports
      /\ ports' = ports /\ block' = [block EXCEPT ![a] = "free"]
      /\ reply_to' = reply_to /\ replied' = replied /\ sent' = sent /\ origin' = origin
  BY DEF FreeOwnPort, has_port
<1>2. /\ block' \in [PortAddrs -> {"free", "created", "own", "process"}]
      /\ \A b \in PortAddrs \ {a} : block'[b] = block[b]
  BY <1>1, PortsKnown
<1>3. \A b \in DOMAIN ports' : block'[b] # "free" =>
        b \in DOMAIN ports /\ Live(b) /\ ports'[b] = ports[b]
  BY <1>1, <1>2, PortsKnown DEF Live
<1>4. \A k \in Mail : sent'[k] \in PortAddrs =>
        sent'[k] \in DOMAIN ports' /\ block'[sent'[k]] # "free"
  BY <1>1, <1>2, PortsKnown DEF Live
<1> QED BY <1>1, <1>2, <1>3, <1>4, PortsKnown, PortStep

\* AddPort() and CreateNewProc() register the port if the address is not known yet.
LEMMA RegisterInv ==
    ASSUME PortsInv, NEW a \in PortAddrs, ports' = ensure_port(ports, a),
           block' \in [PortAddrs -> {"free", "created", "own", "process"}], block'[a] # "free",
           \A b \in PortAddrs \ {a} : block'[b] = block[b],
           a \in DOMAIN ports => Live(a),
           UNCHANGED <<reply_to, replied, sent, origin>>
    PROVE  PortsInv'
<1>1. /\ DOMAIN ports' = DOMAIN ports \cup {a}
      /\ \A b \in DOMAIN ports : ports'[b] = ports[b]
      /\ \A b \in DOMAIN ports' : ports'[b] \in Port
      /\ a \notin DOMAIN ports => ports'[a].queue = <<>>
  BY EnsureFacts DEF PortsInv
<1>2. \A b \in DOMAIN ports' : block'[b] # "free" =>
        \/ b \in DOMAIN ports /\ Live(b) /\ ports'[b] = ports[b]
        \/ ports'[b].queue = <<>> /\ \A k \in Mail : sent'[k] # b
  <2> SUFFICES ASSUME NEW b \in DOMAIN ports', block'[b] # "free"
               PROVE  \/ b \in DOMAIN ports /\ Live(b) /\ ports'[b] = ports[b]
                      \/ ports'[b].queue = <<>> /\ \A k \in Mail : sent'[k] # b
    OBVIOUS
  <2>1. CASE b = a /\ a \notin DOMAIN ports
    BY <1>1, <2>1, PortsKnown
  <2>2. CASE b \in DOMAIN ports
    BY <1>1, <2>2, PortsKnown DEF Live
  <2> QED BY <1>1, <2>1, <2>2
<1>3. \A k \in Mail : sent'[k] \in PortAddrs =>
        sent'[k] \in DOMAIN ports' /\ block'[sent'[k]] # "free"
  BY <1>1, PortsKnown DEF Live
<1> QED BY <1>1, <1>2, <1>3, PortsKnown, PortStep

\* AddPort() of memory in use keeps the invariant.
LEMMA AddPortInv ==
    ASSUME PortsInv, NEW a \in PortAddrs, AddPort(a) PROVE PortsInv'
BY RegisterInv, PortsKnown DEF AddPort, Live

\* CreateNewProc() puts its port where none is known.
LEMMA CreateNewProcInv ==
    ASSUME PortsInv, ReuseOwn = FALSE, NEW a \in PortAddrs, CreateNewProc(a) PROVE PortsInv'
<1>1. /\ a \notin DOMAIN ports
      /\ ports' = ensure_port(ports, a) /\ block' = [block EXCEPT ![a] = "process"]
      /\ reply_to' = reply_to /\ replied' = replied /\ sent' = sent /\ origin' = origin
  BY DEF CreateNewProc, has_port
<1>2. /\ block' \in [PortAddrs -> {"free", "created", "own", "process"}]
      /\ block'[a] # "free" /\ \A b \in PortAddrs \ {a} : block'[b] = block[b]
  BY <1>1, PortsKnown
<1> QED BY <1>1, <1>2, RegisterInv

\* what becomes of the mail of a port that goes
LEMMA LostFacts ==
    ASSUME PortsInv, NEW a \in PortAddrs, sent' = Lost(a)
    PROVE  /\ sent' \in [Mail -> PortAddrs \cup {Nobody, Gone}]
           /\ \A k \in Mail : sent'[k] = IF sent[k] = a THEN Gone ELSE sent[k]
           /\ \A k \in Mail : sent'[k] # a
BY PortsKnown, MailAssumption DEF Lost

\* RemPort() takes the port and its mail.
LEMMA RemPortInv ==
    ASSUME PortsInv, NEW a \in PortAddrs, RemPort(a) PROVE PortsInv'
<1>1. /\ ports' = [b \in DOMAIN ports \ {a} |-> ports[b]]
      /\ sent' = Lost(a) /\ block' = block
      /\ reply_to' = reply_to /\ replied' = replied /\ origin' = origin
  BY DEF RemPort, Restrict
<1>2. /\ DOMAIN ports' = DOMAIN ports \ {a}
      /\ \A b \in DOMAIN ports \ {a} : ports'[b] = ports[b]
  BY <1>1
<1>3. /\ sent' \in [Mail -> PortAddrs \cup {Nobody, Gone}]
      /\ \A k \in Mail : sent'[k] = IF sent[k] = a THEN Gone ELSE sent[k]
      /\ \A k \in Mail : sent'[k] # a
  BY <1>1, LostFacts
<1>4. \A b \in DOMAIN ports' : block'[b] # "free" =>
        /\ b \in DOMAIN ports /\ Live(b) /\ ports'[b] = ports[b]
        /\ \A k \in Mail : sent[k] = b => sent'[k] = b
  BY <1>1, <1>2, <1>3 DEF Live
<1>5. \A k \in Mail : sent'[k] \in PortAddrs =>
        sent'[k] \in DOMAIN ports' /\ block'[sent'[k]] # "free"
  BY <1>1, <1>2, <1>3, PortsKnown, MailAssumption DEF Live
<1> QED BY <1>1, <1>2, <1>3, <1>4, <1>5, PortsKnown, PortStep

\* DeleteMsgPort() frees the memory; the entry that stays in ports is not used any more.
LEMMA DeleteMsgPortInv ==
    ASSUME PortsInv, NEW a \in PortAddrs, DeleteMsgPort(a) PROVE PortsInv'
<1>1. CASE UNCHANGED <<ports, block, reply_to, replied, sent, origin>>
  BY <1>1, NothingMoved
<1>2. CASE /\ ports' = ports /\ block' = [block EXCEPT ![a] = "free"]
           /\ sent' = Lost(a)
           /\ reply_to' = reply_to /\ replied' = replied /\ origin' = origin
  <2>1. /\ sent' \in [Mail -> PortAddrs \cup {Nobody, Gone}]
        /\ \A k \in Mail : sent'[k] = IF sent[k] = a THEN Gone ELSE sent[k]
        /\ \A k \in Mail : sent'[k] # a
    BY <1>2, LostFacts
  <2>2. /\ block' \in [PortAddrs -> {"free", "created", "own", "process"}]
        /\ block'[a] = "free" /\ \A b \in PortAddrs \ {a} : block'[b] = block[b]
    BY <1>2, PortsKnown
  <2>3. \A b \in DOMAIN ports' : block'[b] # "free" =>
          /\ b \in DOMAIN ports /\ Live(b) /\ ports'[b] = ports[b]
          /\ \A k \in Mail : sent[k] = b => sent'[k] = b
    BY <1>2, <2>1, <2>2, PortsKnown DEF Live
  <2>4. \A k \in Mail : sent'[k] \in PortAddrs =>
          sent'[k] \in DOMAIN ports' /\ block'[sent'[k]] # "free"
    BY <1>2, <2>1, <2>2, PortsKnown, MailAssumption DEF Live
  <2> QED BY <1>2, <2>1, <2>2, <2>3, <2>4, PortsKnown, PortStep
<1> QED BY <1>1, <1>2 DEF DeleteMsgPort, Raise

\* A message is put to a port by its sender or by who answers it, at the port the sender
\* waits at.
LEMMA SendStep ==
    ASSUME PortsInv, NEW a \in PortAddrs, NEW m \in Mail, sent[m] = Nobody, Put(a, m),
           block' = block,
           reply_to' \in [Mail -> PortAddrs \cup {Nobody}], replied' \in [Mail -> BOOLEAN],
           origin' \in [Mail -> PortAddrs \cup {Nobody}],
           \A k \in Mail \ {m} :
                reply_to'[k] = reply_to[k] /\ replied'[k] = replied[k] /\ origin'[k] = origin[k],
           ~replied'[m] => reply_to'[m] = origin'[m],
           replied'[m] => origin'[m] = a
    PROVE  PortsInv'
<1>1. /\ DOMAIN ports' = DOMAIN ports \cup {a}
      /\ \A b \in DOMAIN ports' : ports'[b] \in Port
      /\ sent' \in [Mail -> PortAddrs \cup {Nobody, Gone}]
      /\ \A k \in Mail \ {m} : sent'[k] = sent[k]
      /\ sent'[m] = IF Live(a) THEN a ELSE Gone
      /\ QueuesRight' /\ SentToLive'
  BY PutFacts
<1>2. DOMAIN ports' \subseteq PortAddrs
  BY <1>1, PortsKnown
<1>3. block' \in [PortAddrs -> {"free", "created", "own", "process"}]
  BY PortsKnown
<1>4. PortsTypeOK'
  BY <1>1, <1>2, <1>3 DEF PortsTypeOK, Port
<1>5. RepliesReachSender'
  <2> SUFFICES ASSUME NEW k \in Mail, replied'[k], sent'[k] \in PortAddrs
               PROVE  sent'[k] = origin'[k]
    BY DEF RepliesReachSender
  <2>1. CASE k = m
    BY <1>1, <2>1, MailAssumption
  <2>2. CASE k # m
    BY <1>1, <2>2 DEF PortsInv, RepliesReachSender
  <2> QED BY <2>1, <2>2
<1>6. AnswerNamed'
  <2> SUFFICES ASSUME NEW k \in Mail, ~replied'[k] PROVE reply_to'[k] = origin'[k]
    BY DEF AnswerNamed
  <2>1. CASE k = m
    BY <2>1
  <2>2. CASE k # m
    BY <2>2 DEF PortsInv, AnswerNamed
  <2> QED BY <2>1, <2>2
<1> QED BY <1>1, <1>4, <1>5, <1>6 DEF PortsInv

\* the fields of the messages before a step
LEMMA MailKnown ==
    ASSUME PortsInv
    PROVE  /\ reply_to \in [Mail -> PortAddrs \cup {Nobody}]
           /\ replied \in [Mail -> BOOLEAN]
           /\ origin \in [Mail -> PortAddrs \cup {Nobody}]
           /\ \A k \in Mail : ~replied[k] => reply_to[k] = origin[k]
BY DEF PortsInv, PortsTypeOK, AnswerNamed

\* PutMsg() and a reply port of the sender's choice.
LEMMA PutMsgInv ==
    ASSUME PortsInv, NEW a \in LivePorts, NEW m \in Messages \cup Packets,
           NEW r \in LivePorts \cup {Nobody}, PutMsg(a, m, r)
    PROVE  PortsInv'
<1>1. CASE UNCHANGED <<ports, block, reply_to, replied, sent, origin>>
  BY <1>1, NothingMoved
<1>2. CASE /\ Put(a, m) /\ block' = block
           /\ reply_to' = [reply_to EXCEPT ![m] = r]
           /\ origin' = [origin EXCEPT ![m] = r]
           /\ replied' = [replied EXCEPT ![m] = FALSE]
  <2>1. m \in Mail /\ a \in PortAddrs /\ r \in PortAddrs \cup {Nobody} /\ sent[m] = Nobody
    BY DEF Mail, LivePorts, PutMsg
  <2>2. /\ reply_to' \in [Mail -> PortAddrs \cup {Nobody}] /\ replied' \in [Mail -> BOOLEAN]
        /\ origin' \in [Mail -> PortAddrs \cup {Nobody}]
        /\ reply_to'[m] = r /\ origin'[m] = r /\ ~replied'[m]
        /\ \A k \in Mail \ {m} :
             reply_to'[k] = reply_to[k] /\ replied'[k] = replied[k] /\ origin'[k] = origin[k]
    BY <1>2, <2>1, MailKnown
  <2> QED BY <1>2, <2>1, <2>2, SendStep
<1> QED BY <1>1, <1>2 DEF PutMsg, Raise

\* ReplyMsg() sends to mn_ReplyPort, which the sender wrote.
LEMMA ReplyMsgInv ==
    ASSUME PortsInv, NEW m \in Messages, ReplyMsg(m)
    PROVE  PortsInv'
<1>1. /\ m \in Mail /\ sent[m] = Nobody /\ ~replied[m]
      /\ reply_to[m] \in PortAddrs /\ Put(reply_to[m], m)
      /\ replied' = [replied EXCEPT ![m] = TRUE]
      /\ block' = block /\ reply_to' = reply_to /\ origin' = origin
  BY PortsKnown DEF ReplyMsg, Mail
<1>2. /\ replied' \in [Mail -> BOOLEAN] /\ replied'[m]
      /\ \A k \in Mail \ {m} : replied'[k] = replied[k]
      /\ origin'[m] = reply_to[m]
  BY <1>1, MailKnown
<1> QED BY <1>1, <1>2, MailKnown, SendStep

\* ReplyPkt() sends to dp_Port and overwrites it only after that.
LEMMA ReplyPktInv ==
    ASSUME PortsInv, NEW m \in Packets, NEW p \in LivePorts, ReplyPkt(m, p)
    PROVE  PortsInv'
<1>1. /\ m \in Mail /\ sent[m] = Nobody /\ ~replied[m] /\ p \in PortAddrs
      /\ reply_to[m] # Nobody /\ Put(reply_to[m], m)
      /\ replied' = [replied EXCEPT ![m] = TRUE]
      /\ reply_to' = [reply_to EXCEPT ![m] = p]
      /\ block' = block /\ origin' = origin
  BY DEF ReplyPkt, Mail, LivePorts
<1>2. reply_to[m] \in PortAddrs
  BY <1>1, MailKnown
<1>3. /\ reply_to' \in [Mail -> PortAddrs \cup {Nobody}]
      /\ replied' \in [Mail -> BOOLEAN] /\ replied'[m]
      /\ \A k \in Mail \ {m} : replied'[k] = replied[k] /\ reply_to'[k] = reply_to[k]
      /\ origin'[m] = reply_to[m]
  BY <1>1, MailKnown
<1> QED BY <1>1, <1>2, <1>3, MailKnown, SendStep

\* The two handlers of FileManager answer to the port the packet came from.
LEMMA FsPutMsgInv ==
    ASSUME PortsInv, NEW m \in Packets, NEW r \in LivePorts, NEW known, fs_put_msg(m, r, known)
    PROVE  PortsInv'
<1>1. CASE UNCHANGED <<ports, block, reply_to, replied, sent, origin>>
  BY <1>1, NothingMoved
<1>2. CASE /\ Put(r, m) /\ block' = block /\ replied' = replied
           /\ reply_to' = [reply_to EXCEPT ![m] = r]
           /\ origin' = [origin EXCEPT ![m] = r]
  <2>1. m \in Mail /\ r \in PortAddrs /\ sent[m] = Nobody
    BY DEF Mail, LivePorts, fs_put_msg
  <2>2. /\ reply_to' \in [Mail -> PortAddrs \cup {Nobody}]
        /\ origin' \in [Mail -> PortAddrs \cup {Nobody}]
        /\ reply_to'[m] = r /\ origin'[m] = r
        /\ \A k \in Mail \ {m} : reply_to'[k] = reply_to[k] /\ origin'[k] = origin[k]
    BY <1>2, <2>1, MailKnown
  <2> QED BY <1>2, <2>1, <2>2, MailKnown, SendStep
<1> QED BY <1>1, <1>2 DEF fs_put_msg, Raise

\* A step that moves no message but may answer one that nobody else has.
LEMMA DoneInPlace ==
    ASSUME PortsInv, NEW m \in Mail, sent[m] = Nobody,
           ports' = ports, block' = block, sent' = sent,
           reply_to' \in [Mail -> PortAddrs \cup {Nobody}], replied' \in [Mail -> BOOLEAN],
           origin' \in [Mail -> PortAddrs \cup {Nobody}],
           \A k \in Mail \ {m} :
                reply_to'[k] = reply_to[k] /\ replied'[k] = replied[k] /\ origin'[k] = origin[k],
           ~replied'[m] => reply_to'[m] = origin'[m]
    PROVE  PortsInv'
<1>1. PortsTypeOK'
  BY DEF PortsInv, PortsTypeOK
<1>2. QueuesRight' /\ SentToLive'
  BY DEF PortsInv, QueuesRight, QueueRight, SentToLive, Live
<1>3. RepliesReachSender'
  BY MailAssumption DEF PortsInv, RepliesReachSender
<1>4. AnswerNamed'
  BY DEF PortsInv, AnswerNamed
<1> QED BY <1>1, <1>2, <1>3, <1>4 DEF PortsInv

\* DoIO() answers the request where it is.
LEMMA DoIOInv ==
    ASSUME PortsInv, NEW m \in IORequests, NEW found \in BOOLEAN, DoIO(m, found)
    PROVE  PortsInv'
<1>1. /\ m \in Mail /\ sent[m] = Nobody
      /\ replied' = [replied EXCEPT ![m] = @ \/ found]
      /\ ports' = ports /\ block' = block /\ sent' = sent
      /\ reply_to' = reply_to /\ origin' = origin
  BY DEF DoIO, Mail
<1>2. /\ replied' \in [Mail -> BOOLEAN]
      /\ \A k \in Mail \ {m} : replied'[k] = replied[k]
      /\ ~replied'[m] => ~replied[m]
  <2>1. (replied[m] \/ found) \in BOOLEAN
    BY <1>1, MailKnown
  <2>2. replied' \in [Mail -> BOOLEAN] /\ \A k \in Mail \ {m} : replied'[k] = replied[k]
    BY <1>1, <2>1, MailKnown
  <2>3. replied'[m] = (replied[m] \/ found)
    BY <1>1, MailKnown
  <2> QED BY <2>2, <2>3
<1> QED BY <1>1, <1>2, MailKnown, DoneInPlace

\* SendIO() queues the request at the port it names, if there is one.
LEMMA SendIOInv ==
    ASSUME PortsInv, NEW m \in IORequests, NEW r \in LivePorts, NEW found \in BOOLEAN,
           SendIO(m, r, found)
    PROVE  PortsInv'
<1>1. /\ m \in Mail /\ r \in PortAddrs /\ sent[m] = Nobody
      /\ reply_to' = [reply_to EXCEPT ![m] = r]
      /\ origin' = [origin EXCEPT ![m] = r]
      /\ replied' = [replied EXCEPT ![m] = @ \/ found]
      /\ block' = block
  BY DEF SendIO, Mail, LivePorts
<1>2. /\ reply_to' \in [Mail -> PortAddrs \cup {Nobody}]
      /\ origin' \in [Mail -> PortAddrs \cup {Nobody}]
      /\ reply_to'[m] = r /\ origin'[m] = r
      /\ \A k \in Mail \ {m} : reply_to'[k] = reply_to[k] /\ origin'[k] = origin[k]
  BY <1>1, MailKnown
<1>3. replied' \in [Mail -> BOOLEAN] /\ \A k \in Mail \ {m} : replied'[k] = replied[k]
  <2>1. (replied[m] \/ found) \in BOOLEAN
    BY <1>1, MailKnown
  <2> QED BY <1>1, <2>1, MailKnown
<1>4. CASE Put(r, m)
  BY <1>1, <1>2, <1>3, <1>4, SendStep
<1>5. CASE ports' = ports /\ sent' = sent
  BY <1>1, <1>2, <1>3, <1>5, DoneInPlace
<1> QED BY <1>4, <1>5 DEF SendIO

\* GetMsg() gives the first message to who asks and takes it off the queue.
LEMMA GetMsgInv ==
    ASSUME PortsInv, NEW a \in PortAddrs, GetMsg(a)
    PROVE  PortsInv'
<1>1. CASE UNCHANGED <<ports, block, reply_to, replied, sent, origin>>
  BY <1>1, NothingMoved
<1>2. CASE a \in DOMAIN ports /\ ports[a].queue # <<>>
  <2> DEFINE q == ports[a].queue
             m == Head(q)
  <2>1. /\ ports[a] \in [queue : Seq(Mail), mem : BOOLEAN]
        /\ q \in Seq(Mail) /\ q # <<>> /\ QueueRight(a) /\ a \in DOMAIN ports
    BY <1>2, PortsKnown DEF PortsInv, QueuesRight, GetMsg, Live, Port
  <2>2. /\ m \in Mail /\ Contains(q, m) /\ Tail(q) \in Seq(Mail) /\ IsInjective(Tail(q))
        /\ \A x : Contains(Tail(q), x) <=> Contains(q, x) /\ x # m
    BY <2>1, TailFacts DEF QueueRight
  <2>3. /\ Live(a)
        /\ sent' = [sent EXCEPT ![m] = Nobody]
        /\ ports' = [ports EXCEPT ![a].queue = Tail(q)]
        /\ origin' = [k \in Mail |-> IF k = m /\ replied[k] THEN Nobody ELSE origin[k]]
        /\ block' = block /\ reply_to' = reply_to /\ replied' = replied
    BY <1>2 DEF GetMsg, get_msg, has_port, Live
  <2> HIDE DEF q, m
  <2>4. /\ DOMAIN ports' = DOMAIN ports
        /\ \A b \in DOMAIN ports \ {a} : ports'[b] = ports[b]
        /\ ports'[a].queue = Tail(q) /\ ports'[a] \in Port
    <3>1. ports'[a] = [ports[a] EXCEPT !.queue = Tail(q)]
      BY <2>1, <2>3
    <3> QED BY <2>1, <2>2, <2>3, <3>1 DEF Port
  <2>5. /\ sent' \in [Mail -> PortAddrs \cup {Nobody, Gone}]
        /\ sent'[m] = Nobody /\ \A k \in Mail \ {m} : sent'[k] = sent[k]
    BY <2>2, <2>3, PortsKnown
  <2>6. /\ origin' \in [Mail -> PortAddrs \cup {Nobody}]
        /\ \A k \in Mail \ {m} : origin'[k] = origin[k]
        /\ ~replied[m] => origin'[m] = origin[m]
    BY <2>2, <2>3, MailKnown
  <2>7. PortsTypeOK'
    <3>1. DOMAIN ports' \subseteq PortAddrs /\ \A b \in DOMAIN ports' : ports'[b] \in Port
      BY <2>4, PortsKnown
    <3> QED BY <2>3, <2>5, <2>6, <3>1, PortsKnown, MailKnown DEF PortsTypeOK, Port
  <2>8. QueuesRight'
    <3> SUFFICES ASSUME NEW b \in DOMAIN ports', Live(b)
                 PROVE  /\ IsInjective(ports'[b].queue)
                        /\ \A k \in Mail : Contains(ports'[b].queue, k) <=> sent'[k] = b
      BY <2>3 DEF QueuesRight, QueueRight, Live
    <3>0. b \in PortAddrs /\ b # Nobody
      BY <2>4, PortsKnown, MailAssumption
    <3>1. CASE b = a
      <4>1. \A k \in Mail : Contains(q, k) <=> sent[k] = a
        BY <2>1 DEF QueueRight, q
      <4>2. \A k \in Mail : sent'[k] = a <=> sent[k] = a /\ k # m
        BY <2>5, <3>0, <3>1
      <4> QED BY <2>2, <2>4, <3>1, <4>1, <4>2
    <3>2. CASE b # a
      <4>1. sent[m] = a
        BY <2>1, <2>2 DEF QueueRight, q
      <4>2. QueueRight(b) /\ ports'[b] = ports[b]
        BY <2>4, <3>2 DEF PortsInv, QueuesRight
      <4>3. \A k \in Mail : sent'[k] = b <=> sent[k] = b
        BY <2>5, <3>0, <3>2, <4>1
      <4> QED BY <4>2, <4>3 DEF QueueRight
    <3> QED BY <3>1, <3>2
  <2>9. SentToLive'
    BY <2>3, <2>4, <2>5, PortsKnown, MailAssumption DEF SentToLive, Live
  <2>10. RepliesReachSender'
    BY <2>3, <2>5, <2>6, MailAssumption DEF PortsInv, RepliesReachSender
  <2>11. AnswerNamed'
    BY <2>3, <2>6 DEF PortsInv, AnswerNamed
  <2> QED BY <2>7, <2>8, <2>9, <2>10, <2>11 DEF PortsInv
<1> QED BY <1>1, <1>2 DEF GetMsg, Raise, has_port

\* No step of the ports breaks the invariant.
LEMMA PortsNextInv ==
    ASSUME PortsInv, ReuseOwn = FALSE, PortsNext PROVE PortsInv'
<1>1. ASSUME NEW a \in PortAddrs,
             \/ CreateMsgPort(a) \/ BuildPort(a) \/ FreeOwnPort(a) \/ AddPort(a)
             \/ CreateNewProc(a) \/ RemPort(a) \/ DeleteMsgPort(a)
      PROVE  PortsInv'
  BY <1>1, CreateMsgPortInv, BuildPortInv, FreeOwnPortInv, AddPortInv, CreateNewProcInv,
     RemPortInv, DeleteMsgPortInv
<1>2. ASSUME NEW a \in PortAddrs, GetMsg(a) \/ WaitPort(a) PROVE PortsInv'
  <2>1. CASE GetMsg(a)
    BY <2>1, GetMsgInv
  <2>2. CASE WaitPort(a)
    BY <2>2, NothingMoved DEF WaitPort, Raise
  <2> QED BY <1>2, <2>1, <2>2
<1>3. ASSUME NEW m \in Packets, NEW r \in LivePorts,
             (\E known \in BOOLEAN : fs_put_msg(m, r, known)) \/ console_put_msg(m, r)
      PROVE  PortsInv'
  BY <1>3, FsPutMsgInv DEF console_put_msg
<1>4. ASSUME NEW m \in IORequests,
             \/ \E found \in BOOLEAN : DoIO(m, found)
             \/ \E r \in LivePorts, found \in BOOLEAN : SendIO(m, r, found)
      PROVE  PortsInv'
  BY <1>4, DoIOInv, SendIOInv
<1>5. ASSUME NEW m \in Packets, NEW p \in LivePorts, ReplyPkt(m, p) PROVE PortsInv'
  BY <1>5, ReplyPktInv
<1>6. ASSUME NEW m \in Messages, ReplyMsg(m) PROVE PortsInv'
  BY <1>6, ReplyMsgInv
<1>7. ASSUME NEW a \in LivePorts, NEW m \in Messages \cup Packets,
             NEW r \in LivePorts \cup {Nobody}, PutMsg(a, m, r)
      PROVE  PortsInv'
  BY <1>7, PutMsgInv
<1> QED BY <1>1, <1>2, <1>3, <1>4, <1>5, <1>6, <1>7 DEF PortsNext

\* The invariant holds in every state, if no memory of a port that is still known becomes
\* a port of a program's own.
THEOREM PortsInvariance ==
    ASSUME ReuseOwn = FALSE PROVE PortsSpec => []PortsInv
<1>1. PortsInit => PortsInv
  <2> SUFFICES ASSUME PortsInit PROVE PortsInv
    OBVIOUS
  <2>1. DOMAIN ports = {}
    BY DEF PortsInit
  <2>2. \A m \in Mail : sent[m] = Nobody /\ ~replied[m] /\ reply_to[m] = origin[m]
    BY DEF PortsInit
  <2>3. PortsTypeOK
    BY <2>1 DEF PortsInit, PortsTypeOK
  <2> QED BY <2>1, <2>2, <2>3, MailAssumption
          DEF PortsInv, QueuesRight, SentToLive, RepliesReachSender, AnswerNamed
<1>2. ASSUME PortsInv, [PortsNext]_port_vars PROVE PortsInv'
  <2>1. CASE PortsNext
    BY <1>2, <2>1, PortsNextInv
  <2>2. CASE UNCHANGED port_vars
    BY <1>2, <2>2, NothingMoved DEF port_vars
  <2> QED BY <1>2, <2>1, <2>2
<1> QED BY <1>1, <1>2, PTL DEF PortsSpec

\* In a queue without duplicates a message is once or not at all.
LEMMA CopiesCounted ==
    ASSUME PortsInv, NEW m \in Mail, NEW a \in DOMAIN ports, Live(a)
    PROVE  Copies(m, a) = IF sent[m] = a THEN 1 ELSE 0
<1> DEFINE q == ports[a].queue
           C == {i \in DOMAIN q : q[i] = m}
<1>1. q \in Seq(Mail) /\ DOMAIN q = 1..Len(q)
  <2>1. q \in Seq(Mail)
    BY PortsKnown DEF Port
  <2> QED BY <2>1
<1>2. IsInjective(q) /\ (Contains(q, m) <=> sent[m] = a)
  BY DEF PortsInv, QueuesRight, QueueRight
<1>3. Copies(m, a) = Cardinality(C)
  BY DEF Copies
<1> HIDE DEF q
<1>4. CASE sent[m] = a
  <2>1. PICK i \in DOMAIN q : q[i] = m
    BY <1>1, <1>2, <1>4 DEF Contains
  <2>2. C = {i}
    BY <1>2, <2>1 DEF IsInjective
  <2>3. Cardinality({i}) = 1
    BY FS_Singleton
  <2> QED BY <1>3, <1>4, <2>2, <2>3
<1>5. CASE sent[m] # a
  <2>1. C = {}
    BY <1>1, <1>2, <1>5 DEF Contains
  <2> QED BY <1>3, <1>5, <2>1, FS_EmptySet
<1> QED BY <1>4, <1>5

\* A message that was put to a port and not taken waits there, once, and its answer comes
\* to the port its sender named, whatever ports are made, registered and deleted meanwhile
\* (PortManager, ExecLibrary, DosPacket handlers).
THEOREM PortsMailSafe ==
    ASSUME ReuseOwn = FALSE PROVE PortsSpec => []MailSafe
<1>1. ASSUME PortsInv PROVE MailConserved
  BY <1>1, CopiesCounted DEF MailConserved, Live
<1>2. PortsInv => MailSafe
  BY <1>1 DEF PortsInv, MailSafe
<1> QED BY <1>2, PortsInvariance, PTL

-----------------------------------------------------------------------------
\* A queue is a prefix of itself, and of itself with one more message.
LEMMA AppendPrefix ==
    ASSUME NEW T, NEW s \in Seq(T), NEW e \in T
    PROVE  IsPrefix(s, s) /\ IsPrefix(s, Append(s, e))
<1>1. /\ Len(s) \in Nat
      /\ Append(s, e) \in Seq(T) /\ Len(Append(s, e)) = Len(s) + 1
      /\ \A i \in 1..Len(s) : Append(s, e)[i] = s[i]
  OBVIOUS
<1> DEFINE u == SubSeq(s, 1, Len(s))
           v == SubSeq(Append(s, e), 1, Len(s))
<1>2. /\ u \in Seq(T) /\ v \in Seq(T) /\ Len(u) = Len(s) /\ Len(v) = Len(s)
      /\ \A i \in 1..Len(s) : u[i] = s[i] /\ v[i] = s[i]
  BY <1>1
<1> HIDE DEF u, v
<1>3. u = v
  BY <1>2, SeqEqual
<1> QED BY <1>1, <1>3 DEF IsPrefix, u, v

\* what a step may do to the queue of a port that stays in use
QueueStep(a) ==
    \/ IsPrefix(ports[a].queue, ports'[a].queue)
    \/ ports'[a].queue = Tail(ports[a].queue)

\* Queues that a step leaves alone.
LEMMA QueueKept ==
    ASSUME PortsInv, NEW a \in DOMAIN ports, ports'[a] = ports[a] PROVE QueueStep(a)
<1>1. ports[a].queue \in Seq(Mail)
  BY PortsKnown DEF Port
<1>2. \A T : \A s \in Seq(T) : T # {} => IsPrefix(s, s)
  BY AppendPrefix
<1>3. IsPrefix(<<>>, <<>>)
  BY DEF IsPrefix
<1>4. CASE ports[a].queue = <<>>
  BY <1>3, <1>4 DEF QueueStep
<1>5. CASE ports[a].queue # <<>>
  <2>1. Head(ports[a].queue) \in Mail
    BY <1>1, <1>5
  <2> QED BY <1>1, <1>2, <2>1 DEF QueueStep
<1> QED BY <1>4, <1>5

\* Put() only adds to the end.
LEMMA QueueGrows ==
    ASSUME PortsInv, NEW b \in PortAddrs, NEW m \in Mail, sent[m] = Nobody, Put(b, m),
           NEW a \in DOMAIN ports
    PROVE  QueueStep(a)
<1>1. /\ \A c \in DOMAIN ports \ {b} : ports'[c] = ports[c]
      /\ b \in DOMAIN ports => ports'[b].queue = Append(ports[b].queue, m)
  BY PutFacts
<1>2. CASE a # b
  BY <1>1, <1>2, QueueKept
<1>3. CASE a = b
  <2>1. ports[a].queue \in Seq(Mail)
    BY PortsKnown DEF Port
  <2> QED BY <1>1, <1>3, <2>1, AppendPrefix DEF QueueStep
<1> QED BY <1>2, <1>3

\* Messages leave a port in the order in which they came.
THEOREM PortsAreFifo ==
    ASSUME ReuseOwn = FALSE PROVE PortsSpec => PortsFifo
<1> DEFINE InOrder == \A a \in DOMAIN ports \cap DOMAIN ports' :
                        (block[a] = block'[a] /\ block[a] # "free") =>
                            \/ IsPrefix(ports[a].queue, ports'[a].queue)
                            \/ ports'[a].queue = Tail(ports[a].queue)
<1>1. ASSUME PortsInv, PortsNext, NEW a \in DOMAIN ports \cap DOMAIN ports',
             block[a] = block'[a], block[a] # "free"
      PROVE  QueueStep(a)
  <2>0. a \in PortAddrs /\ a \in DOMAIN ports
    BY <1>1, PortsKnown
  <2>1. CASE ports' = ports
    BY <1>1, <2>0, <2>1, QueueKept
  <2>2. ASSUME NEW c \in PortAddrs, CreateMsgPort(c) PROVE QueueStep(a)
    <3>1. c # a
      BY <1>1, <2>2 DEF CreateMsgPort
    <3>2. ports'[a] = ports[a]
      BY <2>0, <2>2, <3>1 DEF CreateMsgPort, create_port, With
    <3> QED BY <1>1, <2>0, <3>2, QueueKept
  <2>3. ASSUME NEW c \in PortAddrs, AddPort(c) \/ CreateNewProc(c) PROVE QueueStep(a)
    <3>1. ports' = ensure_port(ports, c)
      BY <2>3 DEF AddPort, CreateNewProc
    <3>2. ports'[a] = ports[a]
      BY <1>1, <2>0, <3>1, EnsureFacts DEF PortsInv
    <3> QED BY <1>1, <2>0, <3>2, QueueKept
  <2>4. ASSUME NEW c \in PortAddrs, RemPort(c) PROVE QueueStep(a)
    <3>1. ports' = [b \in DOMAIN ports \ {c} |-> ports[b]]
      BY <2>4 DEF RemPort, Restrict
    <3>2. ports'[a] = ports[a]
      BY <1>1, <3>1
    <3> QED BY <1>1, <2>0, <3>2, QueueKept
  <2>5. ASSUME NEW c \in PortAddrs, BuildPort(c) \/ FreeOwnPort(c) \/ DeleteMsgPort(c) \/ WaitPort(c)
        PROVE  ports' = ports
    BY <2>5 DEF BuildPort, FreeOwnPort, DeleteMsgPort, WaitPort, Raise
  <2>6. ASSUME NEW c \in PortAddrs, GetMsg(c) PROVE QueueStep(a)
    <3>1. CASE ports' = [ports EXCEPT ![c].queue = Tail(@)]
      <4>1. CASE a = c
        <5>1. ports[a] \in [queue : Seq(Mail), mem : BOOLEAN]
          BY <2>0, <1>1, PortsKnown DEF Port
        <5>2. ports'[a] = [ports[a] EXCEPT !.queue = Tail(@)]
          BY <2>0, <3>1, <4>1
        <5>3. ports'[a].queue = Tail(ports[a].queue)
          BY <5>1, <5>2
        <5> QED BY <5>3 DEF QueueStep
      <4>2. CASE a # c
        <5>1. ports'[a] = ports[a]
          BY <2>0, <3>1, <4>2
        <5> QED BY <1>1, <2>0, <5>1, QueueKept
      <4> QED BY <4>1, <4>2
    <3>2. CASE ports' = ports
      BY <2>1, <3>2
    <3> QED BY <2>6, <3>1, <3>2 DEF GetMsg, get_msg, Raise
  <2>7. ASSUME NEW b \in PortAddrs, NEW m \in Mail, sent[m] = Nobody, Put(b, m) PROVE QueueStep(a)
    BY <1>1, <2>0, <2>7, QueueGrows
  <2>8. ASSUME NEW b \in LivePorts, NEW m \in Messages \cup Packets,
               NEW r \in LivePorts \cup {Nobody}, PutMsg(b, m, r)
        PROVE  QueueStep(a)
    BY <2>1, <2>7, <2>8 DEF PutMsg, Raise, LivePorts, Mail
  <2>9. ASSUME NEW m \in Messages, ReplyMsg(m) PROVE QueueStep(a)
    BY <1>1, <2>7, <2>9, PortsKnown DEF ReplyMsg, Mail
  <2>10. ASSUME NEW m \in Packets, NEW p \in LivePorts, ReplyPkt(m, p) PROVE QueueStep(a)
    <3>1. m \in Mail /\ sent[m] = Nobody /\ Put(reply_to[m], m) /\ reply_to[m] # Nobody
      BY <2>10 DEF ReplyPkt, Mail
    <3>2. reply_to[m] \in PortAddrs
      BY <1>1, <3>1, MailKnown
    <3> QED BY <2>7, <3>1, <3>2
  <2>11. ASSUME NEW m \in Packets, NEW r \in LivePorts, NEW known, fs_put_msg(m, r, known)
         PROVE  QueueStep(a)
    BY <2>1, <2>7, <2>11 DEF fs_put_msg, Raise, LivePorts, Mail
  <2>12. ASSUME NEW m \in IORequests, NEW found \in BOOLEAN, DoIO(m, found) PROVE QueueStep(a)
    BY <2>1, <2>12 DEF DoIO
  <2>13. ASSUME NEW m \in IORequests, NEW r \in LivePorts, NEW found \in BOOLEAN, SendIO(m, r, found)
         PROVE  QueueStep(a)
    BY <2>1, <2>7, <2>13 DEF SendIO, LivePorts, Mail
  <2> QED BY <1>1, <2>1, <2>2, <2>3, <2>4, <2>5, <2>6, <2>8, <2>9, <2>10, <2>11, <2>12, <2>13
          DEF PortsNext, console_put_msg
<1>2. ASSUME PortsInv, [PortsNext]_port_vars PROVE [InOrder]_port_vars
  BY <1>1, <1>2 DEF QueueStep
<1> HIDE DEF InOrder
<1>3. PortsSpec => [][InOrder]_port_vars
  BY <1>2, PortsInvariance, PTL DEF PortsSpec
<1> QED BY <1>3 DEF PortsFifo, InOrder

-----------------------------------------------------------------------------
(* Memory pools.                                                            *)

PoolChunk == [addr : Int, size : Nat \ {0}]
PuddleRec == [addr : Int, size : Nat, chunks : SUBSET PoolChunk]
PoolRec == [minsize : Nat, thresh : Nat, puddles : Seq(PuddleRec)]

MemoryOf(q) == [addr |-> q.addr, size |-> q.size]

\* the blocks of a puddle are in it and apart
ChunksRight(q) ==
    \A b, c \in q.chunks : /\ Extent(b) \subseteq Extent(q)
                           /\ b # c => Extent(b) \cap Extent(c) = {}

PoolsTyped(ps) == \A d \in DOMAIN ps : ps[d] \in PoolRec

PuddlesApart(ps) ==
    \A d, e \in DOMAIN ps :
        \A i \in DOMAIN ps[d].puddles, j \in DOMAIN ps[e].puddles :
            d # e \/ i # j => Extent(ps[d].puddles[i]) \cap Extent(ps[e].puddles[j]) = {}

AllChunksRight(ps) ==
    \A d \in DOMAIN ps : \A i \in DOMAIN ps[d].puddles : ChunksRight(ps[d].puddles[i])

NoneEmpty(ps) ==
    \A d \in DOMAIN ps : \A i \in DOMAIN ps[d].puddles : ps[d].puddles[i].size > 0

PoolsRight(ps) == PoolsTyped(ps) /\ PuddlesApart(ps) /\ AllChunksRight(ps)

\* the memory of all puddles
Lent(ps) == UNION {Memory(ps[d]) : d \in DOMAIN ps}

\* ps with other blocks in one puddle, and with another puddle
Rechunked(ps, d, i, C) == [ps EXCEPT ![d].puddles[i].chunks = C]
Enlarged(ps, d, q) == [ps EXCEPT ![d].puddles = Append(@, q)]

(***************************************************************************)
(* The inductive invariant.  Numbers of pools are not used again; the      *)
(* system lent the puddles, each once, and until an exception none is      *)
(* empty, so that a block is in one puddle only and a pool that is deleted *)
(* gives back the memory of no other.                                      *)
(***************************************************************************)
PoolsInv ==
    /\ last_pool \in Nat /\ DOMAIN pools \subseteq 1..last_pool
    /\ PoolsRight(pools)
    /\ main = Lent(pools)
    /\ pool_error = "none" => NoneEmpty(pools)
    /\ PoolNeverNone

-----------------------------------------------------------------------------
\* The units of a block or puddle, without the interval.
LEMMA InExtent ==
    ASSUME NEW b, b.addr \in Int, b.size \in Int, NEW z
    PROVE  z \in Extent(b) <=> z \in Int /\ b.addr <= z /\ z < b.addr + b.size
BY DEF Extent

\* A block put into a gap is in the range and apart from the blocks that are there.
LEMMA GapFacts ==
    ASSUME NEW range, range.addr \in Int, range.size \in Nat, NEW blocks,
           NEW size \in Nat, NEW a \in Gaps(range, blocks, size),
           NEW b, b.addr = a, b.size = size
    PROVE  /\ a \in Int
           /\ Extent(b) \subseteq Extent(range)
           /\ \A c \in blocks : Extent(b) \cap Extent(c) = {}
<1>1. /\ a \in Extent(range) /\ a + size <= range.addr + range.size
      /\ \A c \in blocks : (a..(a + size - 1)) \cap Extent(c) = {}
  BY DEF Gaps
<1>2. a \in Int /\ range.addr <= a
  BY <1>1, InExtent
<1>3. Extent(b) = a..(a + size - 1)
  BY DEF Extent
<1>4. ASSUME NEW z \in Extent(b) PROVE z \in Extent(range)
  <2>1. z \in Int /\ a <= z /\ z < a + size
    BY <1>2, InExtent
  <2> QED BY <1>1, <1>2, <2>1, InExtent
<1> QED BY <1>1, <1>2, <1>3, <1>4

\* What is in the memory of pools, puddle by puddle.
LEMMA LentFacts ==
    ASSUME NEW ps, NEW m
    PROVE  m \in Lent(ps) <=>
             \E d \in DOMAIN ps : \E i \in DOMAIN ps[d].puddles : m = MemoryOf(ps[d].puddles[i])
BY DEF Lent, Memory, MemoryOf, Range

-----------------------------------------------------------------------------
\* A change of the blocks in one puddle leaves everything else as it is.
LEMMA ChunksChanged ==
    ASSUME NEW ps, PoolsRight(ps), NEW d \in DOMAIN ps, NEW i \in DOMAIN ps[d].puddles,
           NEW C \in SUBSET PoolChunk, ChunksRight([ps[d].puddles[i] EXCEPT !.chunks = C]),
           NEW qs, qs = Rechunked(ps, d, i, C)
    PROVE  /\ PoolsRight(qs) /\ Lent(qs) = Lent(ps)
           /\ NoneEmpty(ps) => NoneEmpty(qs)
           /\ DOMAIN qs = DOMAIN ps
           /\ \A e \in DOMAIN ps : qs[e].minsize = ps[e].minsize /\ qs[e].thresh = ps[e].thresh
<1> DEFINE q == [ps[d].puddles[i] EXCEPT !.chunks = C]
           s == [ps[d].puddles EXCEPT ![i] = q]
<1>1. ps[d] \in PoolRec /\ ps[d].puddles \in Seq(PuddleRec) /\ ps[d].puddles[i] \in PuddleRec
  BY DEF PoolsRight, PoolsTyped, PoolRec
<1>2. q \in PuddleRec /\ q.chunks = C
      /\ q.addr = ps[d].puddles[i].addr /\ q.size = ps[d].puddles[i].size
  BY <1>1 DEF PuddleRec
<1>3. /\ s \in Seq(PuddleRec) /\ DOMAIN s = DOMAIN ps[d].puddles /\ s[i] = q
      /\ \A j \in DOMAIN s : j # i => s[j] = ps[d].puddles[j]
  BY <1>1, <1>2
<1>4. DOMAIN qs = DOMAIN ps /\ \A e \in DOMAIN ps : e # d => qs[e] = ps[e]
  BY DEF Rechunked
<1>5. /\ qs[d].puddles = s /\ qs[d].minsize = ps[d].minsize /\ qs[d].thresh = ps[d].thresh
      /\ qs[d] \in PoolRec
  <2>1. qs[d] = [ps[d] EXCEPT !.puddles = s]
    BY DEF Rechunked
  <2> QED BY <1>1, <1>3, <2>1 DEF PoolRec
<1> HIDE DEF q, s
<1>6. \A e \in DOMAIN qs : /\ e \in DOMAIN ps /\ DOMAIN qs[e].puddles = DOMAIN ps[e].puddles
                           /\ \A j \in DOMAIN qs[e].puddles :
                                 /\ qs[e].puddles[j].addr = ps[e].puddles[j].addr
                                 /\ qs[e].puddles[j].size = ps[e].puddles[j].size
                                 /\ (e = d /\ j = i) \/ qs[e].puddles[j] = ps[e].puddles[j]
  BY <1>2, <1>3, <1>4, <1>5
<1>7. \A e \in DOMAIN qs : \A j \in DOMAIN qs[e].puddles :
         /\ Extent(qs[e].puddles[j]) = Extent(ps[e].puddles[j])
         /\ MemoryOf(qs[e].puddles[j]) = MemoryOf(ps[e].puddles[j])
  BY <1>6 DEF Extent, MemoryOf
<1>8. PoolsTyped(qs)
  BY <1>4, <1>5 DEF PoolsRight, PoolsTyped
<1>9. PuddlesApart(qs)
  <2> SUFFICES ASSUME NEW e \in DOMAIN qs, NEW f \in DOMAIN qs,
                      NEW j \in DOMAIN qs[e].puddles, NEW k \in DOMAIN qs[f].puddles,
                      e # f \/ j # k
               PROVE  Extent(qs[e].puddles[j]) \cap Extent(qs[f].puddles[k]) = {}
    BY DEF PuddlesApart
  <2>1. /\ e \in DOMAIN ps /\ j \in DOMAIN ps[e].puddles
        /\ f \in DOMAIN ps /\ k \in DOMAIN ps[f].puddles
    BY <1>6, Zenon
  <2>2. Extent(ps[e].puddles[j]) \cap Extent(ps[f].puddles[k]) = {}
    BY <2>1, Zenon DEF PoolsRight, PuddlesApart
  <2> QED BY <1>7, <2>2, Zenon
<1>10. AllChunksRight(qs)
  <2>1. ChunksRight(q)
    BY DEF q
  <2> QED BY <1>3, <1>5, <1>6, <2>1 DEF PoolsRight, AllChunksRight
<1>11. ASSUME NEW m PROVE m \in Lent(qs) <=> m \in Lent(ps)
  <2>0. \A x, y : y \in Lent(x) <=>
            \E e \in DOMAIN x : \E j \in DOMAIN x[e].puddles : y = MemoryOf(x[e].puddles[j])
    BY LentFacts, Zenon
  <2>1. m \in Lent(qs) <=>
           \E e \in DOMAIN qs : \E j \in DOMAIN qs[e].puddles : m = MemoryOf(qs[e].puddles[j])
    BY <2>0
  <2>2. m \in Lent(ps) <=>
           \E e \in DOMAIN ps : \E j \in DOMAIN ps[e].puddles : m = MemoryOf(ps[e].puddles[j])
    BY LentFacts, Zenon
  <2>3. \A e : e \in DOMAIN qs <=> e \in DOMAIN ps
    BY <1>4, Zenon
  <2> QED BY <1>6, <1>7, <2>1, <2>2, <2>3
<1>12. NoneEmpty(ps) => NoneEmpty(qs)
  BY <1>6 DEF NoneEmpty
<1> QED BY <1>4, <1>5, <1>8, <1>9, <1>10, <1>11, <1>12 DEF PoolsRight

\* A puddle that is apart from all others joins those of a pool.
LEMMA PuddleAdded ==
    ASSUME NEW ps, PoolsRight(ps), NEW d \in DOMAIN ps,
           NEW q \in PuddleRec, ChunksRight(q),
           \A m \in Lent(ps) : Extent(q) \cap Extent(m) = {},
           NEW qs, qs = Enlarged(ps, d, q)
    PROVE  /\ PoolsRight(qs) /\ Lent(qs) = Lent(ps) \cup {MemoryOf(q)}
           /\ NoneEmpty(ps) /\ q.size > 0 => NoneEmpty(qs)
           /\ DOMAIN qs = DOMAIN ps
           /\ \A e \in DOMAIN ps : qs[e].minsize = ps[e].minsize /\ qs[e].thresh = ps[e].thresh
<1> DEFINE s == Append(ps[d].puddles, q)
           n == Len(ps[d].puddles) + 1
<1>1. ps[d] \in PoolRec /\ ps[d].puddles \in Seq(PuddleRec)
  BY DEF PoolsRight, PoolsTyped, PoolRec
<1>2. /\ s \in Seq(PuddleRec) /\ DOMAIN s = DOMAIN ps[d].puddles \cup {n} /\ s[n] = q
      /\ n \notin DOMAIN ps[d].puddles
      /\ \A j \in DOMAIN ps[d].puddles : s[j] = ps[d].puddles[j]
  BY <1>1
<1>3. DOMAIN qs = DOMAIN ps /\ \A e \in DOMAIN ps : e # d => qs[e] = ps[e]
  BY DEF Enlarged
<1>4. /\ qs[d].puddles = s /\ qs[d].minsize = ps[d].minsize /\ qs[d].thresh = ps[d].thresh
      /\ qs[d] \in PoolRec
  <2>1. qs[d] = [ps[d] EXCEPT !.puddles = s]
    BY DEF Enlarged
  <2> QED BY <1>1, <1>2, <2>1 DEF PoolRec
<1> HIDE DEF s, n
<1>5. \A e \in DOMAIN qs :
         /\ e \in DOMAIN ps
         /\ \A j : j \in DOMAIN qs[e].puddles <=> j \in DOMAIN ps[e].puddles \/ (e = d /\ j = n)
         /\ \A j \in DOMAIN ps[e].puddles : qs[e].puddles[j] = ps[e].puddles[j]
  <2> SUFFICES ASSUME NEW e \in DOMAIN qs
               PROVE  /\ \A j : j \in DOMAIN qs[e].puddles <=>
                              j \in DOMAIN ps[e].puddles \/ (e = d /\ j = n)
                      /\ \A j \in DOMAIN ps[e].puddles : qs[e].puddles[j] = ps[e].puddles[j]
    BY <1>3
  <2>1. CASE e = d
    BY <1>2, <1>4, <2>1, Zenon
  <2>2. CASE e # d
    BY <1>3, <2>2, Zenon
  <2> QED BY <2>1, <2>2
<1>6. qs[d].puddles[n] = q /\ n \in DOMAIN qs[d].puddles
  BY <1>2, <1>4
<1>7. \A e \in DOMAIN ps : \A j \in DOMAIN ps[e].puddles :
         Extent(q) \cap Extent(ps[e].puddles[j]) = {}
  <2> SUFFICES ASSUME NEW e \in DOMAIN ps, NEW j \in DOMAIN ps[e].puddles
               PROVE  Extent(q) \cap Extent(ps[e].puddles[j]) = {}
    OBVIOUS
  <2>1. MemoryOf(ps[e].puddles[j]) \in Lent(ps)
    BY LentFacts
  <2>2. Extent(MemoryOf(ps[e].puddles[j])) = Extent(ps[e].puddles[j])
    BY DEF MemoryOf, Extent
  <2> QED BY <2>1, <2>2
<1>8. PoolsTyped(qs)
  BY <1>3, <1>4 DEF PoolsRight, PoolsTyped
<1>9. PuddlesApart(qs)
  <2> SUFFICES ASSUME NEW e \in DOMAIN qs, NEW f \in DOMAIN qs,
                      NEW j \in DOMAIN qs[e].puddles, NEW k \in DOMAIN qs[f].puddles,
                      e # f \/ j # k
               PROVE  Extent(qs[e].puddles[j]) \cap Extent(qs[f].puddles[k]) = {}
    BY DEF PuddlesApart
  <2>1. /\ j \in DOMAIN ps[e].puddles \/ (e = d /\ j = n)
        /\ k \in DOMAIN ps[f].puddles \/ (f = d /\ k = n)
    <3>1. \A g \in DOMAIN qs : \A x \in DOMAIN qs[g].puddles :
             x \in DOMAIN ps[g].puddles \/ (g = d /\ x = n)
      BY <1>5
    <3> QED BY <3>1, Zenon
  <2>0. e \in DOMAIN ps /\ f \in DOMAIN ps
    BY <1>5, Zenon
  <2>2. CASE j \in DOMAIN ps[e].puddles /\ k \in DOMAIN ps[f].puddles
    <3>1. Extent(ps[e].puddles[j]) \cap Extent(ps[f].puddles[k]) = {}
      BY <2>0, <2>2, Zenon DEF PoolsRight, PuddlesApart
    <3>2. qs[e].puddles[j] = ps[e].puddles[j] /\ qs[f].puddles[k] = ps[f].puddles[k]
      BY <1>5, <2>2, Zenon
    <3> QED BY <3>1, <3>2, Zenon
  <2>3. CASE e = d /\ j = n /\ k \in DOMAIN ps[f].puddles
    BY <1>5, <1>6, <1>7, <2>3
  <2>4. CASE j \in DOMAIN ps[e].puddles /\ f = d /\ k = n
    BY <1>5, <1>6, <1>7, <2>4
  <2> QED BY <2>1, <2>2, <2>3, <2>4
<1>10. AllChunksRight(qs)
  BY <1>5, <1>6 DEF PoolsRight, AllChunksRight
<1>11. ASSUME NEW m PROVE m \in Lent(qs) <=> m \in Lent(ps) \/ m = MemoryOf(q)
  <2>0. \A x, y : y \in Lent(x) <=>
            \E e \in DOMAIN x : \E j \in DOMAIN x[e].puddles : y = MemoryOf(x[e].puddles[j])
    BY LentFacts, Zenon
  <2>1. m \in Lent(qs) <=>
           \E e \in DOMAIN qs : \E j \in DOMAIN qs[e].puddles : m = MemoryOf(qs[e].puddles[j])
    BY <2>0
  <2>2. m \in Lent(ps) <=>
           \E e \in DOMAIN ps : \E j \in DOMAIN ps[e].puddles : m = MemoryOf(ps[e].puddles[j])
    BY LentFacts, Zenon
  <2>3. ASSUME NEW e \in DOMAIN qs, NEW j \in DOMAIN qs[e].puddles
        PROVE  j \in DOMAIN ps[e].puddles \/ (e = d /\ j = n)
    BY <1>5
  <2>4. ASSUME m \in Lent(qs) PROVE m \in Lent(ps) \/ m = MemoryOf(q)
    <3>0. PICK e \in DOMAIN qs : \E j \in DOMAIN qs[e].puddles : m = MemoryOf(qs[e].puddles[j])
      BY <2>1, <2>4, Zenon
    <3>1. PICK j \in DOMAIN qs[e].puddles : m = MemoryOf(qs[e].puddles[j])
      BY <3>0, Zenon
    <3>2. CASE j \in DOMAIN ps[e].puddles
      <4>1. e \in DOMAIN ps /\ qs[e].puddles[j] = ps[e].puddles[j]
        BY <1>5, <3>2
      <4> QED BY <2>2, <3>1, <3>2, <4>1
    <3>3. CASE e = d /\ j = n
      BY <1>6, <3>1, <3>3
    <3> QED BY <2>3, <3>2, <3>3
  <2>5. ASSUME m \in Lent(ps) PROVE m \in Lent(qs)
    <3>0. PICK e \in DOMAIN ps : \E j \in DOMAIN ps[e].puddles : m = MemoryOf(ps[e].puddles[j])
      BY <2>2, <2>5, Zenon
    <3>1. PICK j \in DOMAIN ps[e].puddles : m = MemoryOf(ps[e].puddles[j])
      BY <3>0, Zenon
    <3>2. e \in DOMAIN qs /\ j \in DOMAIN qs[e].puddles /\ qs[e].puddles[j] = ps[e].puddles[j]
      BY <1>3, <1>5
    <3> QED BY <2>1, <3>1, <3>2
  <2>6. MemoryOf(q) \in Lent(qs)
    BY <1>3, <1>6, <2>0, Zenon
  <2> QED BY <2>4, <2>5, <2>6
<1>12. NoneEmpty(ps) /\ q.size > 0 => NoneEmpty(qs)
  BY <1>5, <1>6 DEF NoneEmpty
<1> QED BY <1>3, <1>4, <1>8, <1>9, <1>10, <1>11, <1>12 DEF PoolsRight

-----------------------------------------------------------------------------
(* The steps.                                                               *)

\* A pool that is created has a number of its own and no puddle.
LEMMA CreatePoolInv ==
    ASSUME PoolsInv, pool_error = "none", NEW kind \in PoolKinds, CreatePool(kind)
    PROVE  PoolsInv'
<1> DEFINE n == last_pool + 1
           p == [minsize |-> kind.minsize, thresh |-> kind.thresh, puddles |-> <<>>]
<1>1. /\ n \in Nat /\ last_pool' = n /\ n \notin DOMAIN pools
      /\ DOMAIN pools' = DOMAIN pools \cup {n} /\ DOMAIN pools' \subseteq 1..n
      /\ pools'[n] = p /\ \A d \in DOMAIN pools : pools'[d] = pools[d]
      /\ main' = main /\ pool_error' = pool_error
  BY DEF PoolsInv, CreatePool
<1>2. p \in PoolRec /\ p.puddles = <<>> /\ DOMAIN p.puddles = {}
  BY PoolsAssumption DEF PoolRec
<1> HIDE DEF n, p
<1>3. \A d \in DOMAIN pools' :
        \/ d \in DOMAIN pools /\ pools'[d] = pools[d]
        \/ pools'[d] \in PoolRec /\ DOMAIN pools'[d].puddles = {}
  BY <1>1, <1>2
<1>4. PoolsRight(pools')
  <2>1. PoolsTyped(pools')
    BY <1>3 DEF PoolsInv, PoolsRight, PoolsTyped
  <2>2. PuddlesApart(pools')
    BY <1>3 DEF PoolsInv, PoolsRight, PuddlesApart
  <2>3. AllChunksRight(pools')
    BY <1>3 DEF PoolsInv, PoolsRight, AllChunksRight
  <2> QED BY <2>1, <2>2, <2>3 DEF PoolsRight
<1>5. NoneEmpty(pools')
  BY <1>3 DEF PoolsInv, NoneEmpty
<1>6. main' = Lent(pools')
  <2>1. Memory(p) = {}
    BY <1>2 DEF Memory, Range
  <2> QED BY <1>1, <2>1 DEF PoolsInv, Lent
<1> QED BY <1>1, <1>4, <1>5, <1>6 DEF PoolsInv, PoolNeverNone

\* A new puddle has memory nobody else has, and room for the block it is made for, or
\* it ends the program.
LEMMA NewPuddleInv ==
    ASSUME PoolsInv, pool_error = "none", NEW id \in DOMAIN pools,
           NEW psize \in Nat, NEW size \in Nat \ {0},
           size > psize => pools[id].thresh > pools[id].minsize + 1,
           NewPuddle(id, psize, size)
    PROVE  PoolsInv'
<1>1. CASE Gaps(WholeMem, main, psize) = {}
  <2>1. /\ pool_error' = "no memory" /\ pools' = pools /\ last_pool' = last_pool
        /\ main' = main
    BY <1>1 DEF NewPuddle
  <2> QED BY <2>1 DEF PoolsInv, PoolNeverNone
<1>2. CASE Gaps(WholeMem, main, psize) # {}
  <2>1. PICK a \in Gaps(WholeMem, main, psize) :
          LET given == IF size <= psize THEN {[addr |-> a, size |-> size]} ELSE {}
          IN  /\ main' = main \cup {[addr |-> a, size |-> psize]}
              /\ pools' = [pools EXCEPT ![id].puddles =
                              Append(@, [addr |-> a, size |-> psize, chunks |-> given])]
              /\ pool_error' = IF given = {} THEN "addr of None" ELSE pool_error
              /\ UNCHANGED last_pool
    BY <1>2 DEF NewPuddle
  <2> DEFINE b == [addr |-> a, size |-> size]
             C == IF size <= psize THEN {b} ELSE {}
             q == [addr |-> a, size |-> psize, chunks |-> C]
  <2>2. /\ a \in Int
        /\ \A m \in main : Extent(q) \cap Extent(m) = {}
    <3>1. WholeMem.addr \in Int /\ WholeMem.size \in Nat
      BY PoolsAssumption DEF WholeMem
    <3>2. q.addr = a /\ q.size = psize
      OBVIOUS
    <3> HIDE DEF q
    <3> QED BY <3>1, <3>2, GapFacts
  <2>3. C \in SUBSET PoolChunk /\ q \in PuddleRec /\ MemoryOf(q) = [addr |-> a, size |-> psize]
    BY <2>2 DEF PoolChunk, PuddleRec, MemoryOf
  <2>4. ChunksRight(q)
    <3>1. \A c, d \in q.chunks : c = b /\ d = b /\ size <= psize
      OBVIOUS
    <3>2. size <= psize => Extent(b) \subseteq Extent(q)
      BY <2>2 DEF Extent
    <3> QED BY <3>1, <3>2 DEF ChunksRight
  <2>5. /\ last_pool' = last_pool /\ main' = main \cup {MemoryOf(q)}
        /\ pools' = Enlarged(pools, id, q)
    BY <2>1, <2>3 DEF Enlarged
  <2>6. /\ size <= psize => pool_error' = "none"
        /\ ~(size <= psize) => pool_error' = "addr of None"
    BY <2>1
  <2>7. q.size = psize
    OBVIOUS
  <2> HIDE DEF q
  <2>8. /\ PoolsRight(pools') /\ Lent(pools') = Lent(pools) \cup {MemoryOf(q)}
        /\ NoneEmpty(pools) /\ q.size > 0 => NoneEmpty(pools')
        /\ DOMAIN pools' = DOMAIN pools
        /\ \A e \in DOMAIN pools : /\ pools'[e].minsize = pools[e].minsize
                                   /\ pools'[e].thresh = pools[e].thresh
    <3>1. PoolsRight(pools) /\ \A m \in Lent(pools) : Extent(q) \cap Extent(m) = {}
      BY <2>2 DEF PoolsInv
    <3> QED BY <2>3, <2>4, <2>5, <3>1, PuddleAdded
  <2>9. main' = Lent(pools')
    BY <2>5, <2>8 DEF PoolsInv
  <2>10. pool_error' = "none" => NoneEmpty(pools')
    <3>1. NoneEmpty(pools) /\ (size <= psize => q.size > 0)
      BY <2>7 DEF PoolsInv
    <3> QED BY <2>6, <2>8, <3>1
  <2>11. PoolNeverNone'
    <3>1. pool_error' # "not recorded in puddle"
      BY <2>6
    <3>2. ASSUME pool_error' = "addr of None"
          PROVE  pools[id].thresh > pools[id].minsize + 1
      <4>1. ~(size <= psize)
        BY <2>6, <3>2
      <4>2. size > psize
        BY <4>1
      <4> QED BY <4>2
    <3>3. /\ pools'[id].thresh = pools[id].thresh /\ pools'[id].minsize = pools[id].minsize
          /\ id \in DOMAIN pools'
      BY <2>8
    <3> QED BY <3>1, <3>2, <3>3 DEF PoolNeverNone
  <2> QED BY <2>5, <2>8, <2>9, <2>10, <2>11 DEF PoolsInv
<1> QED BY <1>1, <1>2

\* Other blocks in one puddle, which are in it and apart, keep the invariant.
LEMMA RechunkedInv ==
    ASSUME PoolsInv, pool_error = "none", NEW id \in DOMAIN pools,
           NEW i \in DOMAIN pools[id].puddles, NEW C \in SUBSET PoolChunk,
           ChunksRight([pools[id].puddles[i] EXCEPT !.chunks = C]),
           pools' = Rechunked(pools, id, i, C),
           last_pool' = last_pool, main' = main, pool_error' = pool_error
    PROVE  PoolsInv'
<1>1. /\ PoolsRight(pools') /\ Lent(pools') = Lent(pools)
      /\ NoneEmpty(pools) => NoneEmpty(pools')
      /\ DOMAIN pools' = DOMAIN pools
  BY ChunksChanged DEF PoolsInv
<1> QED BY <1>1 DEF PoolsInv, PoolNeverNone

\* What a pool's record and puddles are.
LEMMA PuddleFacts ==
    ASSUME PoolsInv, NEW id \in DOMAIN pools
    PROVE  /\ pools[id].minsize \in Nat /\ pools[id].thresh \in Nat
           /\ \A i \in DOMAIN pools[id].puddles :
                /\ pools[id].puddles[i] \in PuddleRec
                /\ pools[id].puddles[i].addr \in Int /\ pools[id].puddles[i].size \in Nat
                /\ pools[id].puddles[i].chunks \subseteq PoolChunk
                /\ ChunksRight(pools[id].puddles[i])
<1>1. pools[id] \in PoolRec
  BY DEF PoolsInv, PoolsRight, PoolsTyped
<1>2. pools[id].puddles \in Seq(PuddleRec)
  BY <1>1 DEF PoolRec
<1>3. \A i \in DOMAIN pools[id].puddles : pools[id].puddles[i] \in PuddleRec
  BY <1>2
<1>4. \A q \in PuddleRec : q.addr \in Int /\ q.size \in Nat /\ q.chunks \subseteq PoolChunk
  BY DEF PuddleRec
<1>5. pools[id].minsize \in Nat /\ pools[id].thresh \in Nat
  BY <1>1 DEF PoolRec
<1>6. \A i \in DOMAIN pools[id].puddles : ChunksRight(pools[id].puddles[i])
  BY DEF PoolsInv, PoolsRight, AllChunksRight
<1> QED BY <1>3, <1>4, <1>5, <1>6

\* AllocPooled() puts a block into a gap of the first puddle with room, or makes a puddle.
LEMMA AllocPooledInv ==
    ASSUME PoolsInv, pool_error = "none", 0 \notin PoolSizes, NEW id \in DOMAIN pools,
           NEW size \in PoolSizes, AllocPooled(id, size)
    PROVE  PoolsInv'
<1> DEFINE p == pools[id]
           room == WithRoom(p.puddles, size)
<1>1. size \in Nat \ {0} /\ p.minsize \in Nat /\ p.thresh \in Nat
  BY PoolsAssumption, PuddleFacts
<1>2. CASE IsLarge(p, size)
  <2>1. NewPuddle(id, size, size)
    BY <1>2 DEF AllocPooled
  <2>2. ~(size > size)
    BY <1>1
  <2> QED BY <1>1, <2>1, <2>2, NewPuddleInv
<1>3. CASE ~IsLarge(p, size) /\ room = {}
  <2>1. NewPuddle(id, p.minsize, size)
    BY <1>3 DEF AllocPooled
  <2>2. size > p.minsize => p.thresh > p.minsize + 1
    BY <1>1, <1>3 DEF IsLarge
  <2> QED BY <1>1, <2>1, <2>2, NewPuddleInv
<1>4. CASE ~IsLarge(p, size) /\ room # {}
  <2>1. PICK i \in room :
          /\ \E a \in Gaps(p.puddles[i], p.puddles[i].chunks, size) :
                pools' = [pools EXCEPT ![id].puddles[i].chunks =
                            @ \cup {[addr |-> a, size |-> size]}]
          /\ UNCHANGED <<last_pool, main, pool_error>>
    BY <1>4 DEF AllocPooled
  <2>2. i \in DOMAIN p.puddles
    BY DEF WithRoom
  <2> DEFINE q == p.puddles[i]
  <2>3. PICK a \in Gaps(q, q.chunks, size) :
          pools' = [pools EXCEPT ![id].puddles[i].chunks = @ \cup {[addr |-> a, size |-> size]}]
    BY <2>1
  <2> DEFINE b == [addr |-> a, size |-> size]
             C == q.chunks \cup {b}
  <2>4. q.addr \in Int /\ q.size \in Nat /\ q.chunks \subseteq PoolChunk /\ ChunksRight(q)
        /\ q \in PuddleRec
    BY <2>2, PuddleFacts
  <2>5. b.addr = a /\ b.size = size
    OBVIOUS
  <2>6. pools' = Rechunked(pools, id, i, C)
    BY <2>3 DEF Rechunked
  <2> HIDE DEF b, p, q
  <2>7. /\ a \in Int /\ Extent(b) \subseteq Extent(q)
        /\ \A c \in q.chunks : Extent(b) \cap Extent(c) = {}
    BY <1>1, <2>4, <2>5, GapFacts
  <2>8. C \in SUBSET PoolChunk
    BY <1>1, <2>4, <2>7 DEF PoolChunk, b
  <2>9. ChunksRight([q EXCEPT !.chunks = C])
    <3> DEFINE r == [q EXCEPT !.chunks = C]
    <3>1. r.chunks = C /\ r.addr = q.addr /\ r.size = q.size
      BY <2>4 DEF PuddleRec
    <3>2. Extent(r) = Extent(q)
      BY <3>1 DEF Extent
    <3> HIDE DEF r
    <3>3. \A c, d \in C : /\ Extent(c) \subseteq Extent(q)
                          /\ c # d => Extent(c) \cap Extent(d) = {}
      BY <2>4, <2>7 DEF ChunksRight
    <3>4. ChunksRight(r)
      BY <3>1, <3>2, <3>3 DEF ChunksRight
    <3> QED BY <3>4 DEF r
  <2> QED BY <2>1, <2>2, <2>6, <2>8, <2>9, RechunkedInv DEF p, q
<1> QED BY <1>2, <1>3, <1>4

\* The first puddle that contains the address of a block is the one that has it.
LEMMA FreePooledInv ==
    ASSUME PoolsInv, pool_error = "none", NEW id \in DOMAIN pools,
           NEW b \in PoolBlocks(id), FreePooled(id, b)
    PROVE  PoolsInv'
<1> DEFINE s == pools[id].puddles
<1>1. PICK k \in DOMAIN s : b \in s[k].chunks
  BY DEF PoolBlocks, Range
<1>2. PICK i \in DOMAIN s :
        /\ b.addr \in Extent(s[i])
        /\ IF b \in s[i].chunks
           THEN /\ pools' = [pools EXCEPT ![id].puddles[i].chunks = @ \ {b}]
                /\ UNCHANGED pool_error
           ELSE pool_error' = "not recorded in puddle" /\ UNCHANGED pools
        /\ UNCHANGED <<last_pool, main>>
  BY DEF FreePooled
<1>3. b.addr \in Extent(s[k])
  <2>1. b \in PoolChunk /\ Extent(b) \subseteq Extent(s[k])
    BY <1>1, PuddleFacts DEF ChunksRight
  <2>2. b.addr \in Int /\ b.size \in Nat /\ b.size > 0
    BY <2>1 DEF PoolChunk
  <2>3. b.addr \in Extent(b)
    BY <2>2, InExtent
  <2> QED BY <2>1, <2>3
<1>4. i = k
  <2>1. i # k => Extent(s[i]) \cap Extent(s[k]) = {}
    BY <1>1, <1>2 DEF PoolsInv, PoolsRight, PuddlesApart
  <2> QED BY <1>2, <1>3, <2>1
<1> DEFINE q == s[i]
           C == q.chunks \ {b}
<1>5. pools' = Rechunked(pools, id, i, C) /\ pool_error' = pool_error
      /\ last_pool' = last_pool /\ main' = main
  BY <1>1, <1>2, <1>4 DEF Rechunked
<1>6. q \in PuddleRec /\ q.chunks \subseteq PoolChunk /\ ChunksRight(q)
  BY <1>2, PuddleFacts
<1> HIDE DEF q, s
<1>7. C \in SUBSET PoolChunk
  BY <1>6
<1>8. ChunksRight([q EXCEPT !.chunks = C])
  <2> DEFINE r == [q EXCEPT !.chunks = C]
  <2>1. r.chunks = C /\ r.addr = q.addr /\ r.size = q.size
    BY <1>6 DEF PuddleRec
  <2>2. Extent(r) = Extent(q)
    BY <2>1 DEF Extent
  <2> HIDE DEF r
  <2>3. ChunksRight(r)
    BY <1>6, <2>1, <2>2 DEF ChunksRight
  <2> QED BY <2>3 DEF r
<1> QED BY <1>2, <1>5, <1>7, <1>8, RechunkedInv DEF q, s

\* A pool that is deleted gives back the memory of its puddles and no other's.
LEMMA DeletePoolInv ==
    ASSUME PoolsInv, pool_error = "none", NEW id \in DOMAIN pools, DeletePool(id)
    PROVE  PoolsInv'
<1>1. /\ DOMAIN pools' = DOMAIN pools \ {id}
      /\ \A d \in DOMAIN pools' : pools'[d] = pools[d]
      /\ main' = main \ Memory(pools[id])
      /\ last_pool' = last_pool /\ pool_error' = pool_error
  BY DEF DeletePool, freed_memory
<1>2. \A d \in DOMAIN pools' : d \in DOMAIN pools /\ pools'[d] = pools[d]
  BY <1>1
<1>3. PoolsRight(pools')
  <2>1. PoolsTyped(pools')
    BY <1>2 DEF PoolsInv, PoolsRight, PoolsTyped
  <2>2. PuddlesApart(pools')
    BY <1>2 DEF PoolsInv, PoolsRight, PuddlesApart
  <2>3. AllChunksRight(pools')
    BY <1>2 DEF PoolsInv, PoolsRight, AllChunksRight
  <2> QED BY <2>1, <2>2, <2>3 DEF PoolsRight
<1>4. NoneEmpty(pools')
  BY <1>2 DEF PoolsInv, NoneEmpty
<1>5. \A d \in DOMAIN pools : d # id => Memory(pools[d]) \cap Memory(pools[id]) = {}
  <2> SUFFICES ASSUME NEW d \in DOMAIN pools, d # id,
                      NEW m \in Memory(pools[d]), m \in Memory(pools[id])
               PROVE  FALSE
    OBVIOUS
  <2>1. PICK j \in DOMAIN pools[d].puddles : m = MemoryOf(pools[d].puddles[j])
    BY DEF Memory, MemoryOf, Range
  <2>2. PICK k \in DOMAIN pools[id].puddles : m = MemoryOf(pools[id].puddles[k])
    BY DEF Memory, MemoryOf, Range
  <2> DEFINE q == pools[d].puddles[j]
             r == pools[id].puddles[k]
  <2>3. q.addr \in Int /\ q.size \in Nat /\ q.size > 0
    BY PuddleFacts DEF PoolsInv, NoneEmpty
  <2>4. q.addr = r.addr /\ q.size = r.size
    BY <2>1, <2>2 DEF MemoryOf
  <2>5. Extent(q) \cap Extent(r) = {}
    BY DEF PoolsInv, PoolsRight, PuddlesApart
  <2> HIDE DEF q, r
  <2>6. q.addr \in Extent(q) /\ Extent(r) = Extent(q)
    BY <2>3, <2>4, InExtent DEF Extent
  <2> QED BY <2>5, <2>6
<1>6. main' = Lent(pools')
  <2>1. main = Lent(pools)
    BY DEF PoolsInv
  <2>2. \A m : m \in Lent(pools') <=> \E d \in DOMAIN pools : d # id /\ m \in Memory(pools[d])
    BY <1>1, <1>2 DEF Lent
  <2>3. \A m : m \in Lent(pools) <=> \E d \in DOMAIN pools : m \in Memory(pools[d])
    BY DEF Lent
  <2>4. \A m : m \in main' <=> m \in Lent(pools')
    BY <1>1, <1>5, <2>1, <2>2, <2>3
  <2> QED BY <2>4
<1> QED BY <1>1, <1>3, <1>4, <1>6 DEF PoolsInv, PoolNeverNone

-----------------------------------------------------------------------------
\* The invariant, for programs that free what they have, with its size (Pool, Puddle).
THEOREM PoolsInvariance == ASSUME 0 \notin PoolSizes PROVE PoolsSpec => []PoolsInv
<1>1. PoolsInit => PoolsInv
  <2> SUFFICES ASSUME PoolsInit PROVE PoolsInv
    OBVIOUS
  <2>1. DOMAIN pools = {} /\ last_pool = 0 /\ main = {} /\ pool_error = "none"
    BY DEF PoolsInit
  <2>2. Lent(pools) = {}
    BY <2>1 DEF Lent
  <2> QED BY <2>1, <2>2 DEF PoolsInv, PoolsRight, PoolsTyped, PuddlesApart, AllChunksRight,
                            NoneEmpty, PoolNeverNone
<1>2. ASSUME PoolsInv, [PoolsNext]_pool_vars PROVE PoolsInv'
  <2>1. CASE UNCHANGED pool_vars
    BY <1>2, <2>1 DEF pool_vars, PoolsInv, PoolNeverNone
  <2>2. CASE PoolsNext
    BY <1>2, <2>2, CreatePoolInv, AllocPooledInv, FreePooledInv, DeletePoolInv DEF PoolsNext
  <2> QED BY <1>2, <2>1, <2>2
<1> QED BY <1>1, <1>2, PTL DEF PoolsSpec

\* What the system lent is what the pools have, blocks are apart and inside their puddle,
\* the memory of which is nobody else's, and a block that is freed is found: for any
\* memory and any pools and sizes but zero (Pool, Puddle).
THEOREM PoolsAreSound == ASSUME 0 \notin PoolSizes PROVE PoolsSpec => []PoolsSound
<1>1. ASSUME PoolsInv PROVE PoolBlocksApart
  <2> DEFINE all == UNION {{<<id, i>> : i \in DOMAIN pools[id].puddles} : id \in DOMAIN pools}
             At(x) == pools[x[1]].puddles[x[2]]
  <2>1. \A x \in all : x[1] \in DOMAIN pools /\ x[2] \in DOMAIN pools[x[1]].puddles
                       /\ x = <<x[1], x[2]>>
    OBVIOUS
  <2>2. \A x, y \in all : x # y => Extent(At(x)) \cap Extent(At(y)) = {}
    BY <1>1, <2>1 DEF PoolsInv, PoolsRight, PuddlesApart
  <2>3. \A x \in all : \A b, c \in At(x).chunks :
            /\ Extent(b) \subseteq Extent(At(x))
            /\ b # c => Extent(b) \cap Extent(c) = {}
    BY <1>1, <2>1 DEF PoolsInv, PoolsRight, AllChunksRight, ChunksRight
  <2> QED BY <2>2, <2>3 DEF PoolBlocksApart
<1>2. PoolsInv => PoolsSound
  BY <1>1 DEF PoolsInv, PoolsSound, PoolMemoryKnown, Lent
<1> QED BY <1>2, PoolsInvariance, PTL

-----------------------------------------------------------------------------
(* Allocate() and Deallocate(): the chunks of the chain behind a MemHeader *)
(* are what no program holds, in order and joined, and mh_Free is their    *)
(* sum.  Chunks and blocks are compared byte by byte: mh_free is the number *)
(* of bytes that are not held, and a step is shown to do to the bytes of   *)
(* the chain what it does to those.                                        *)

\* a MemChunk, or a block of memory
MemChunks == [addr : Int, bytes : Nat \ {0}]

Pool == MhLower..(MhUpper - 1)

End(c) == c.addr + c.bytes

\* the bytes of the chunks of a chain
InChunks(s, a) == \E i \in DOMAIN s : a \in SpanOf(s[i])

\* the chunks follow each other with something between them
Ordered(s) == \A i, j \in DOMAIN s : i < j => End(s[i]) < s[j].addr

\* the bytes that nobody holds
Unheld == {a \in Pool : \A b \in held : a \notin SpanOf(b)}

\* The inductive invariant.  The blocks need to be apart, as taking one away frees exactly
\* its bytes; and the chain has to hold every byte that is not held, as neighbours that
\* come back would not be joined otherwise.
MhInv ==
    /\ chunks \in Seq(MemChunks) /\ held \subseteq MemChunks
    /\ \A b \in held : SpanOf(b) \subseteq Pool
    /\ \A b, c \in held : \A a \in Int : a \in SpanOf(b) /\ a \in SpanOf(c) => b = c
    /\ Ordered(chunks)
    /\ \A a \in Int : InChunks(chunks, a) <=> a \in Unheld
    /\ mh_free = Cardinality(Unheld)

-----------------------------------------------------------------------------
\* The bytes of a block, without the interval.
LEMMA InSpan ==
    ASSUME NEW c \in MemChunks, NEW a \in Int
    PROVE  /\ c.addr \in Int /\ c.bytes \in Nat /\ c.bytes > 0
           /\ End(c) = c.addr + c.bytes /\ End(c) \in Int
           /\ a \in SpanOf(c) <=> c.addr <= a /\ a < End(c)
BY DEF MemChunks, SpanOf, End

\* A block is a record of its address and its size.
LEMMA ChunkIs ==
    ASSUME NEW a \in Int, NEW n \in Nat, n > 0
    PROVE  /\ Chunk(a, n) \in MemChunks
           /\ Chunk(a, n).addr = a /\ Chunk(a, n).bytes = n /\ End(Chunk(a, n)) = a + n
BY DEF Chunk, MemChunks, End

\* The spans have as many bytes as the block.
LEMMA SpanCounts ==
    ASSUME NEW c \in MemChunks
    PROVE  /\ IsFiniteSet(SpanOf(c)) /\ Cardinality(SpanOf(c)) = c.bytes
           /\ \A a \in SpanOf(c) : a \in Int
<1>1. c.addr \in Int /\ c.bytes \in Nat /\ c.bytes > 0
  BY DEF MemChunks
<1>2. SpanOf(c) = c.addr..(c.addr + c.bytes - 1)
  BY DEF SpanOf
<1>3. c.addr + c.bytes - 1 \in Int /\ c.addr <= c.addr + c.bytes - 1
      /\ (c.addr + c.bytes - 1) - c.addr + 1 = c.bytes
  BY <1>1
<1> QED BY <1>1, <1>2, <1>3, FS_Interval, SMTT(30)

\* The size that is used is a number, and not 0 unless the request is.
LEMMA RoundedIs ==
    ASSUME NEW n \in Nat PROVE Rounded(n) \in Nat
BY DEF Rounded

\* The bytes that nobody holds are finitely many.
LEMMA UnheldFinite == IsFiniteSet(Unheld) /\ Cardinality(Unheld) \in Nat
<1>1. IsFiniteSet(Pool)
  BY FS_Interval, MhAssumption DEF Pool
<1>2. Unheld \in SUBSET Pool
  BY DEF Unheld
<1> QED BY <1>1, <1>2, FS_Subset, FS_CardinalityType

-----------------------------------------------------------------------------
Replaced(s, p, q, e) == SubSeq(s, 1, p) \o <<e>> \o SubSeq(s, q + 1, Len(s))

\* Elements p + 1 to q of a list are replaced by one.
LEMMA ReplacedFacts ==
    ASSUME NEW T, NEW s \in Seq(T), NEW e \in T, NEW p \in Nat, NEW q \in Nat,
           p <= q, q <= Len(s)
    PROVE  LET r == Replaced(s, p, q, e)
           IN  /\ r \in Seq(T)
               /\ Len(r) = p + 1 + Len(s) - q
               /\ \A i \in 1..p : r[i] = s[i]
               /\ r[p + 1] = e
               /\ \A i \in (p + 2)..Len(r) : r[i] = s[i + q - p - 1]
<1> DEFINE x == SubSeq(s, 1, p)
           y == SubSeq(s, q + 1, Len(s))
           u == x \o <<e>>
           r == u \o y
<1>1. Len(s) \in Nat
  OBVIOUS
<1>2. /\ x \in Seq(T) /\ Len(x) = p
      /\ \A i \in 1..p : x[i] = s[i]
  BY <1>1
<1>3. /\ y \in Seq(T) /\ Len(y) = Len(s) - q
      /\ \A i \in 1..(Len(s) - q) : y[i] = s[q + i]
  <2>1. CASE q = Len(s)
    BY <1>1, <2>1
  <2>2. CASE q < Len(s)
    <3>1. /\ q + 1 \in 1..(Len(s) + 1) /\ Len(s) \in (q + 1 - 1)..Len(s)
      BY <1>1, <2>2
    <3>2. \A i \in 1..(Len(s) - q) : q + 1 + i - 1 = q + i
      BY <1>1
    <3> QED BY <1>1, <2>2, <3>1, <3>2
  <2> QED BY <1>1, <2>1, <2>2
<1> HIDE DEF x, y
<1>4. /\ u \in Seq(T) /\ Len(u) = p + 1
      /\ \A i \in 1..p : u[i] = s[i]
      /\ u[p + 1] = e
  BY <1>2
<1> HIDE DEF u
<1>5. /\ r \in Seq(T) /\ Len(r) = p + 1 + Len(s) - q
      /\ \A i \in 1..(p + 1) : r[i] = u[i]
      /\ \A i \in (p + 2)..Len(r) : r[i] = y[i - (p + 1)]
  <2>1. Len(u) + Len(y) = p + 1 + Len(s) - q /\ Len(y) \in Nat
    BY <1>1, <1>3, <1>4
  <2>2. /\ r \in Seq(T) /\ Len(r) = Len(u) + Len(y)
        /\ \A i \in 1..(Len(u) + Len(y)) : r[i] = IF i <= Len(u) THEN u[i] ELSE y[i - Len(u)]
    BY <1>3, <1>4, ConcatProperties
  <2>3. \A i \in 1..(p + 1) : i \in 1..(Len(u) + Len(y)) /\ i <= Len(u)
    BY <1>4, <2>1
  <2>4. \A i \in (p + 2)..Len(r) : i \in 1..(Len(u) + Len(y)) /\ ~(i <= Len(u))
    BY <1>4, <2>1, <2>2
  <2> HIDE DEF r
  <2> QED BY <1>4, <2>1, <2>2, <2>3, <2>4
<1>6. \A i \in (p + 2)..Len(r) : r[i] = s[i + q - p - 1]
  <2> SUFFICES ASSUME NEW i \in (p + 2)..Len(r) PROVE r[i] = s[i + q - p - 1]
    OBVIOUS
  <2>0. Len(r) = p + 1 + Len(s) - q
    BY <1>5
  <2>1. i - (p + 1) \in 1..(Len(s) - q) /\ q + (i - (p + 1)) = i + q - p - 1
    BY <1>1, <2>0
  <2> QED BY <1>3, <1>5, <2>1
<1>7. 1..p \subseteq 1..(p + 1) /\ p + 1 \in 1..(p + 1)
  OBVIOUS
<1>8. Replaced(s, p, q, e) = r
  BY DEF Replaced, r, u, x, y
<1> HIDE DEF r
<1> QED BY <1>4, <1>5, <1>6, <1>7, <1>8

-----------------------------------------------------------------------------
\* The chunks below an address are the first ones of the chain, so their number, which
\* deallocate() finds by walking along it, is the position of the last of them.
LEMMA BelowAreFirst ==
    ASSUME NEW s \in Seq(MemChunks), Ordered(s), NEW x \in Int
    PROVE  \E k \in 0..Len(s) :
                /\ Cardinality({i \in DOMAIN s : s[i].addr < x}) = k
                /\ \A i \in DOMAIN s : s[i].addr < x <=> i <= k
<1> DEFINE S == {i \in DOMAIN s : s[i].addr < x}
           T == {n \in Nat \ {0} : n <= Len(s) => ~(s[n].addr < x)}
<1>1. Len(s) \in Nat /\ DOMAIN s = 1..Len(s)
  OBVIOUS
<1>2. Len(s) + 1 \in T /\ T \subseteq Nat
  BY <1>1
<1>3. PICK n \in T : \A m \in T : n <= m
  <2> HIDE DEF T
  <2>1. T # {}
    BY <1>2
  <2> QED BY <1>2, <2>1, NatLeast
<1>4. n \in Nat /\ n >= 1 /\ n <= Len(s) + 1
  BY <1>1, <1>2, <1>3
<1>5. \A i \in DOMAIN s : s[i].addr < x <=> i < n
  <2> SUFFICES ASSUME NEW i \in DOMAIN s PROVE s[i].addr < x <=> i < n
    OBVIOUS
  <2>1. i \in Nat \ {0} /\ i <= Len(s)
    BY <1>1
  <2>2. CASE i < n
    <3>1. i \notin T
      BY <1>3, <1>4, <2>1, <2>2
    <3> QED BY <2>1, <2>2, <3>1
  <2>3. CASE i = n
    BY <1>3, <2>1, <2>3
  <2>4. CASE i > n
    <3>1. n \in DOMAIN s /\ n < i
      BY <1>1, <1>4, <2>1, <2>4
    <3>2. s[n] \in MemChunks /\ s[i] \in MemChunks /\ End(s[n]) < s[i].addr
      BY <1>1, <3>1 DEF Ordered
    <3>3. ~(s[n].addr < x)
      BY <1>1, <1>3, <3>1
    <3>4. s[n].addr \in Int /\ s[i].addr \in Int /\ s[n].bytes \in Nat /\ End(s[n]) = s[n].addr + s[n].bytes
      BY <3>2 DEF MemChunks, End
    <3> QED BY <2>4, <1>4, <2>1, <3>2, <3>3, <3>4
  <2> QED BY <1>4, <2>1, <2>2, <2>3, <2>4
<1>6. n - 1 \in 0..Len(s) /\ \A i \in DOMAIN s : i < n <=> i <= n - 1
  BY <1>1, <1>4
<1>7. S = 1..(n - 1)
  <2>1. \A i : i \in S <=> i \in 1..Len(s) /\ i <= n - 1
    BY <1>1, <1>5, <1>6
  <2>2. \A i : i \in 1..Len(s) /\ i <= n - 1 <=> i \in 1..(n - 1)
    BY <1>1, <1>4
  <2> HIDE DEF S
  <2> QED BY <2>1, <2>2
<1>8. Cardinality(1..(n - 1)) = n - 1
  <2>1. n - 1 \in Int /\ (1 > n - 1 => n - 1 = 0) /\ n - 1 - 1 + 1 = n - 1
    BY <1>4
  <2> QED BY <2>1, FS_Interval
<1> QED BY <1>5, <1>6, <1>7, <1>8

\* A chunk in place of those from p + 1 to q, apart from the ones before and behind it.
LEMMA JoinedChain ==
    ASSUME NEW s \in Seq(MemChunks), Ordered(s), NEW c \in MemChunks,
           NEW p \in Nat, NEW q \in Nat, p <= q, q <= Len(s),
           \A i \in 1..p : End(s[i]) < c.addr,
           \A i \in (q + 1)..Len(s) : End(c) < s[i].addr
    PROVE  LET r == Replaced(s, p, q, c)
           IN  /\ r \in Seq(MemChunks)
               /\ Ordered(r)
               /\ \A a : InChunks(r, a) <=>
                    \/ a \in SpanOf(c)
                    \/ \E i \in DOMAIN s : (i <= p \/ q < i) /\ a \in SpanOf(s[i])
<1> DEFINE r == Replaced(s, p, q, c)
           Was(i) == i + q - p - 1
<1>1. /\ r \in Seq(MemChunks) /\ Len(r) = p + 1 + Len(s) - q
      /\ \A i \in 1..p : r[i] = s[i]
      /\ r[p + 1] = c
      /\ \A i \in (p + 2)..Len(r) : r[i] = s[Was(i)]
  <2>1. r \in Seq(MemChunks) /\ Len(r) = p + 1 + Len(s) - q
    BY ReplacedFacts
  <2>2. /\ \A i \in 1..p : r[i] = s[i]
        /\ r[p + 1] = c
    BY ReplacedFacts
  <2>3. \A i \in (p + 2)..Len(r) : r[i] = s[Was(i)]
    BY ReplacedFacts
  <2> QED BY <2>1, <2>2, <2>3
<1> HIDE DEF r
<1>2. Len(s) \in Nat /\ DOMAIN s = 1..Len(s) /\ Len(r) \in Nat /\ DOMAIN r = 1..Len(r)
  BY <1>1
<1>3. \A i \in (p + 2)..Len(r) : Was(i) \in (q + 1)..Len(s) /\ Was(i) \in DOMAIN s
  BY <1>1, <1>2
<1>4. \A i \in 1..Len(r) : i \in 1..p \/ i = p + 1 \/ i \in (p + 2)..Len(r)
  BY <1>2
<1>5. \A i \in 1..p : i \in DOMAIN s /\ i \in 1..Len(r) /\ i < q + 1
  BY <1>1, <1>2
<1>6. Ordered(r)
  <2> SUFFICES ASSUME NEW i \in 1..Len(r), NEW j \in 1..Len(r), i < j
               PROVE  End(r[i]) < r[j].addr
    BY <1>2 DEF Ordered
  <2>1. CASE i \in 1..p /\ j \in 1..p
    BY <1>1, <1>5, <2>1 DEF Ordered
  <2>2. CASE i \in 1..p /\ j = p + 1
    BY <1>1, <2>2
  <2>3. CASE i \in 1..p /\ j \in (p + 2)..Len(r)
    <3>1. i < Was(j) /\ i \in DOMAIN s /\ Was(j) \in DOMAIN s
      BY <1>2, <1>3, <1>5, <2>3
    <3>2. End(s[i]) < s[Was(j)].addr
      BY <3>1 DEF Ordered
    <3> QED BY <1>1, <2>3, <3>2
  <2>4. CASE i = p + 1 /\ j \in (p + 2)..Len(r)
    BY <1>1, <1>3, <2>4
  <2>5. CASE i \in (p + 2)..Len(r) /\ j \in (p + 2)..Len(r)
    <3>1. Was(i) < Was(j) /\ Was(i) \in DOMAIN s /\ Was(j) \in DOMAIN s
      BY <1>2, <1>3, <2>5
    <3>2. End(s[Was(i)]) < s[Was(j)].addr
      BY <3>1 DEF Ordered
    <3> QED BY <1>1, <2>5, <3>2
  <2>6. /\ i \in 1..p \/ i = p + 1 \/ i \in (p + 2)..Len(r)
        /\ j \in 1..p \/ j = p + 1 \/ j \in (p + 2)..Len(r)
    BY <1>4
  <2>7. /\ i = p + 1 => j \notin 1..p /\ j # p + 1
        /\ i \in (p + 2)..Len(r) => j \notin 1..p /\ j # p + 1
    BY <1>2
  <2> QED BY <2>1, <2>2, <2>3, <2>4, <2>5, <2>6, <2>7
<1>7. ASSUME NEW a
      PROVE  InChunks(r, a) <=>
                \/ a \in SpanOf(c)
                \/ \E i \in DOMAIN s : (i <= p \/ q < i) /\ a \in SpanOf(s[i])
  <2>1. ASSUME NEW i \in 1..Len(r), a \in SpanOf(r[i])
        PROVE  \/ a \in SpanOf(c)
               \/ \E j \in DOMAIN s : (j <= p \/ q < j) /\ a \in SpanOf(s[j])
    <3>1. CASE i \in 1..p
      <4>1. i \in DOMAIN s /\ i <= p /\ a \in SpanOf(s[i])
        BY <1>1, <1>5, <2>1, <3>1
      <4> QED BY <4>1
    <3>2. CASE i = p + 1
      BY <1>1, <2>1, <3>2
    <3>3. CASE i \in (p + 2)..Len(r)
      <4>1. Was(i) \in DOMAIN s /\ q < Was(i)
        BY <1>2, <1>3, <3>3
      <4>2. a \in SpanOf(s[Was(i)])
        BY <1>1, <2>1, <3>3
      <4> HIDE DEF Was
      <4> QED BY <4>1, <4>2
    <3> QED BY <1>4, <3>1, <3>2, <3>3
  <2>2. ASSUME a \in SpanOf(c) PROVE InChunks(r, a)
    <3>1. p + 1 \in DOMAIN r
      BY <1>1, <1>2
    <3> QED BY <1>1, <2>2, <3>1 DEF InChunks
  <2>3. ASSUME NEW j \in DOMAIN s, j <= p, a \in SpanOf(s[j]) PROVE InChunks(r, a)
    <3>1. j \in 1..p /\ j \in DOMAIN r
      BY <1>1, <1>2, <2>3
    <3> QED BY <1>1, <2>3, <3>1 DEF InChunks
  <2>4. ASSUME NEW j \in DOMAIN s, q < j, a \in SpanOf(s[j]) PROVE InChunks(r, a)
    <3> DEFINE i == j + p + 1 - q
    <3>1. i \in (p + 2)..Len(r) /\ i \in DOMAIN r /\ Was(i) = j
      <4>1. j \in Nat /\ q < j /\ j <= Len(s)
        BY <1>2, <2>4
      <4>2. i \in Int /\ p + 2 <= i /\ 1 <= i /\ i <= p + 1 + Len(s) - q /\ Was(i) = j
        BY <1>2, <4>1
      <4> HIDE DEF i, Was
      <4> QED BY <1>1, <1>2, <4>2
    <3>2. r[i] = s[j]
      BY <1>1, <3>1
    <3> HIDE DEF i
    <3> QED BY <2>4, <3>1, <3>2 DEF InChunks
  <2> QED BY <1>2, <2>1, <2>2, <2>3, <2>4 DEF InChunks
<1> QED BY <1>1, <1>6, <1>7 DEF r

-----------------------------------------------------------------------------
\* A chunk of the chain and a block that shares no byte with it do not overlap.
LEMMA ApartFromBlock ==
    ASSUME NEW c \in MemChunks, NEW b \in MemChunks,
           \A a \in SpanOf(b) : a \notin SpanOf(c)
    PROVE  /\ c.addr < b.addr => End(c) <= b.addr
           /\ ~(c.addr < b.addr) => End(b) <= c.addr
<1>1. /\ c.addr \in Int /\ End(c) \in Int /\ c.addr < End(c)
      /\ b.addr \in Int /\ End(b) \in Int /\ b.addr < End(b)
  BY DEF MemChunks, End
<1>2. /\ b.addr \in SpanOf(b)
      /\ b.addr \in SpanOf(c) <=> c.addr <= b.addr /\ b.addr < End(c)
      /\ c.addr \in SpanOf(c)
      /\ c.addr \in SpanOf(b) <=> b.addr <= c.addr /\ c.addr < End(b)
  BY <1>1, InSpan
<1> QED BY <1>1, <1>2

\* deallocate(): the bytes of the block are added to those of the chain, which stays in
\* order with nothing left to join.
LEMMA ReturnedRight ==
    ASSUME chunks \in Seq(MemChunks), Ordered(chunks), NEW b \in MemChunks,
           \A a \in SpanOf(b) : ~InChunks(chunks, a)
    PROVE  /\ Returned(b) \in Seq(MemChunks)
           /\ Ordered(Returned(b))
           /\ \A a \in Int : InChunks(Returned(b), a) <=>
                InChunks(chunks, a) \/ a \in SpanOf(b)
<1> DEFINE s == chunks
           k == Cardinality({i \in DOMAIN s : s[i].addr < b.addr})
           last_merge == k > 0 /\ s[k].addr + s[k].bytes = b.addr
           mc_merge == k < Len(s) /\ b.addr + b.bytes = s[k + 1].addr
           p == (IF last_merge THEN k ELSE k + 1) - 1
           q == IF mc_merge THEN k + 1 ELSE k
           start == IF last_merge THEN s[k].addr ELSE b.addr
           size == b.bytes + (IF last_merge THEN s[k].bytes ELSE 0)
                           + (IF mc_merge THEN s[k + 1].bytes ELSE 0)
           c == Chunk(start, size)
<1>0. Returned(b) = Replaced(s, p, q, c)
  BY DEF Returned, Replaced
<1>1. b.addr \in Int /\ b.bytes \in Nat /\ b.bytes > 0 /\ End(b) = b.addr + b.bytes
  BY DEF MemChunks, End
<1>2. Len(s) \in Nat /\ DOMAIN s = 1..Len(s)
  OBVIOUS
<1>3. k \in 0..Len(s) /\ \A i \in DOMAIN s : s[i].addr < b.addr <=> i <= k
  BY <1>1, BelowAreFirst
<1> HIDE DEF k
<1>4. \A i \in DOMAIN s :
        /\ s[i] \in MemChunks /\ s[i].addr \in Int /\ s[i].bytes \in Nat /\ s[i].bytes > 0
        /\ End(s[i]) = s[i].addr + s[i].bytes
        /\ i <= k => End(s[i]) <= b.addr
        /\ ~(i <= k) => End(b) <= s[i].addr
  <2> SUFFICES ASSUME NEW i \in DOMAIN s
               PROVE  /\ s[i] \in MemChunks
                      /\ s[i].addr \in Int /\ s[i].bytes \in Nat /\ s[i].bytes > 0
                      /\ End(s[i]) = s[i].addr + s[i].bytes
                      /\ i <= k => End(s[i]) <= b.addr
                      /\ ~(i <= k) => End(b) <= s[i].addr
    OBVIOUS
  <2>1. s[i] \in MemChunks
    BY <1>2
  <2>2. \A a \in SpanOf(b) : a \notin SpanOf(s[i])
    BY DEF InChunks
  <2>3. /\ s[i].addr < b.addr => End(s[i]) <= b.addr
        /\ ~(s[i].addr < b.addr) => End(b) <= s[i].addr
    BY <2>1, <2>2, ApartFromBlock
  <2>4. /\ s[i].addr \in Int /\ s[i].bytes \in Nat /\ s[i].bytes > 0
        /\ End(s[i]) = s[i].addr + s[i].bytes
    BY <2>1 DEF MemChunks, End
  <2> QED BY <1>3, <2>1, <2>3, <2>4
<1>5. k > 0 => k \in DOMAIN s
  BY <1>2, <1>3
<1>6. k < Len(s) => k + 1 \in DOMAIN s
  BY <1>2, <1>3
<1>7. /\ p \in Nat /\ q \in Nat /\ p <= k /\ k <= p + 1 /\ k <= q /\ q <= k + 1
      /\ p <= q /\ q <= Len(s)
      /\ last_merge => p = k - 1
      /\ ~last_merge => p = k
      /\ mc_merge => q = k + 1
      /\ ~mc_merge => q = k
  BY <1>2, <1>3
<1>8. /\ start \in Int /\ size \in Nat /\ size > 0
      /\ last_merge => start = s[k].addr /\ End(s[k]) = b.addr
      /\ ~last_merge => start = b.addr
      /\ mc_merge => start + size = End(s[k + 1]) /\ End(b) = s[k + 1].addr
      /\ ~mc_merge => start + size = End(b)
  BY <1>1, <1>4, <1>5, <1>6, SMTT(30)
<1>9. c \in MemChunks /\ c.addr = start /\ End(c) = start + size
  BY <1>8, ChunkIs, ZenonT(30)
<1> HIDE DEF start, size, c, p, q
<1>10. \A i \in 1..p : End(s[i]) < c.addr
  <2> SUFFICES ASSUME NEW i \in 1..p PROVE End(s[i]) < start
    BY <1>9
  <2>1. i \in DOMAIN s /\ i \in Nat /\ i <= k
    BY <1>2, <1>3, <1>7
  <2>2. CASE last_merge
    <3>1. i < k /\ k \in DOMAIN s
      BY <1>5, <1>7, <2>1, <2>2
    <3> QED BY <1>8, <2>1, <2>2, <3>1 DEF Ordered
  <2>3. CASE ~last_merge
    <3>1. CASE i = k
      <4>1. k > 0 /\ End(s[k]) <= b.addr /\ End(s[k]) = s[k].addr + s[k].bytes
        BY <1>2, <1>4, <2>1, <3>1
      <4>2. End(s[k]) # b.addr /\ End(s[k]) \in Int
        BY <1>4, <2>1, <2>3, <3>1, <4>1
      <4> QED BY <1>1, <1>8, <2>3, <3>1, <4>1, <4>2
    <3>2. CASE i < k
      <4>1. k \in DOMAIN s /\ End(s[i]) < s[k].addr
        BY <1>3, <1>5, <2>1, <3>2 DEF Ordered
      <4>2. s[k].addr < b.addr
        BY <1>3, <4>1
      <4>3. End(s[i]) \in Int /\ s[k].addr \in Int
        BY <1>4, <2>1, <4>1
      <4> QED BY <1>1, <1>8, <2>3, <4>1, <4>2, <4>3
    <3> QED BY <1>3, <2>1, <3>1, <3>2
  <2> QED BY <2>2, <2>3
<1>11. \A i \in (q + 1)..Len(s) : End(c) < s[i].addr
  <2> SUFFICES ASSUME NEW i \in (q + 1)..Len(s) PROVE start + size < s[i].addr
    BY <1>9
  <2>1. i \in DOMAIN s /\ i \in Nat /\ ~(i <= k) /\ k < Len(s)
    BY <1>2, <1>3, <1>7
  <2>2. k + 1 \in DOMAIN s
    BY <1>6, <2>1
  <2>3. CASE mc_merge
    <3>1. k + 1 < i
      BY <1>3, <1>7, <2>1, <2>3
    <3> QED BY <1>8, <2>1, <2>2, <2>3, <3>1 DEF Ordered
  <2>4. CASE ~mc_merge
    <3>1. CASE i = k + 1
      <4>1. End(b) <= s[k + 1].addr /\ s[k + 1].addr \in Int
        <5>1. k + 1 \in DOMAIN s /\ ~(k + 1 <= k)
          BY <1>3, <2>2
        <5> QED BY <1>4, <5>1
      <4>2. End(b) # s[k + 1].addr
        BY <1>1, <2>1, <2>4
      <4> QED BY <1>1, <1>8, <2>4, <3>1, <4>1, <4>2, SMTT(30)
    <3>2. CASE k + 1 < i
      <4>1. End(s[k + 1]) < s[i].addr
        BY <2>1, <2>2, <3>2 DEF Ordered
      <4>2. End(b) <= s[k + 1].addr /\ s[k + 1].addr < End(s[k + 1])
            /\ s[k + 1].addr \in Int /\ End(s[k + 1]) \in Int /\ s[i].addr \in Int
        BY <1>3, <1>4, <2>1, <2>2
      <4> QED BY <1>1, <1>8, <2>4, <4>1, <4>2
    <3> QED BY <1>3, <2>1, <3>1, <3>2
  <2> QED BY <2>3, <2>4
<1>12. /\ Returned(b) \in Seq(MemChunks) /\ Ordered(Returned(b))
       /\ \A a : InChunks(Returned(b), a) <=>
            \/ a \in SpanOf(c)
            \/ \E i \in DOMAIN s : (i <= p \/ q < i) /\ a \in SpanOf(s[i])
  <2> DEFINE Chained(x) ==
                /\ x \in Seq(MemChunks) /\ Ordered(x)
                /\ \A a : InChunks(x, a) <=>
                        \/ a \in SpanOf(c)
                        \/ \E i \in DOMAIN s : (i <= p \/ q < i) /\ a \in SpanOf(s[i])
  <2>1. Chained(Replaced(s, p, q, c))
    BY <1>7, <1>9, <1>10, <1>11, JoinedChain
  <2> HIDE DEF Chained
  <2>2. Chained(Returned(b))
    BY <1>0, <2>1
  <2> QED BY <2>2 DEF Chained
<1>13. ASSUME NEW a \in Int
       PROVE  a \in SpanOf(c) <=>
                \/ a \in SpanOf(b)
                \/ \E i \in DOMAIN s : ~(i <= p \/ q < i) /\ a \in SpanOf(s[i])
  <2>1. a \in SpanOf(c) <=> start <= a /\ a < start + size
    BY <1>8, <1>9, InSpan
  <2>2. a \in SpanOf(b) <=> b.addr <= a /\ a < End(b)
    BY InSpan
  <2>3. \A i \in DOMAIN s : a \in SpanOf(s[i]) <=> s[i].addr <= a /\ a < End(s[i])
    BY <1>4, InSpan
  <2>4. \A i \in DOMAIN s : ~(i <= p \/ q < i) <=>
            (i = k /\ last_merge) \/ (i = k + 1 /\ mc_merge)
    BY <1>2, <1>3, <1>7
  <2>5. (\E i \in DOMAIN s : ~(i <= p \/ q < i) /\ a \in SpanOf(s[i])) <=>
            \/ last_merge /\ s[k].addr <= a /\ a < End(s[k])
            \/ mc_merge /\ s[k + 1].addr <= a /\ a < End(s[k + 1])
    BY <1>5, <1>6, <2>3, <2>4
  <2>6. /\ last_merge => s[k].addr \in Int /\ End(s[k]) \in Int /\ s[k].addr < End(s[k])
        /\ mc_merge => /\ s[k + 1].addr \in Int /\ End(s[k + 1]) \in Int
                       /\ s[k + 1].addr < End(s[k + 1])
    BY <1>4, <1>5, <1>6
  <2> HIDE DEF last_merge, mc_merge
  <2> QED BY <1>1, <1>8, <2>1, <2>2, <2>5, <2>6, SMTT(30)
<1> QED BY <1>12, <1>13 DEF InChunks

\* A byte is in one chunk of a chain at most.
LEMMA OneChunk ==
    ASSUME NEW s \in Seq(MemChunks), Ordered(s), NEW i \in DOMAIN s, NEW j \in DOMAIN s,
           NEW a \in Int, a \in SpanOf(s[i]), a \in SpanOf(s[j])
    PROVE  i = j
<1>1. i \in Nat /\ j \in Nat /\ s[i] \in MemChunks /\ s[j] \in MemChunks
  <2>1. DOMAIN s = 1..Len(s) /\ Len(s) \in Nat
    OBVIOUS
  <2> QED BY <2>1
<1>2. /\ s[i].addr <= a /\ a < End(s[i]) /\ s[i].addr \in Int /\ End(s[i]) \in Int
      /\ s[j].addr <= a /\ a < End(s[j]) /\ s[j].addr \in Int /\ End(s[j]) \in Int
  BY <1>1, InSpan
<1>3. /\ i < j => End(s[i]) < s[j].addr
      /\ j < i => End(s[j]) < s[i].addr
  BY DEF Ordered
<1> QED BY <1>1, <1>2, <1>3

\* What stands in a chain of chunks.
LEMMA MemElements ==
    ASSUME NEW s \in Seq(MemChunks)
    PROVE  \A j \in DOMAIN s : /\ s[j] \in MemChunks /\ s[j].addr \in Int
                              /\ s[j].bytes \in Nat /\ s[j].bytes > 0
                              /\ End(s[j]) = s[j].addr + s[j].bytes /\ End(s[j]) \in Int
<1>1. \A c \in MemChunks : /\ c.addr \in Int /\ c.bytes \in Nat /\ c.bytes > 0
                           /\ End(c) = c.addr + c.bytes /\ End(c) \in Int
  BY DEF MemChunks, End
<1>2. \A j \in DOMAIN s : s[j] \in MemChunks
  OBVIOUS
<1> QED BY <1>1, <1>2

\* allocate(): the bytes of the block, at the end of the chunk, leave the chain.
LEMMA TakenRight ==
    ASSUME chunks \in Seq(MemChunks), Ordered(chunks), NEW i \in DOMAIN chunks,
           NEW n \in Nat, n > 0, chunks[i].bytes >= n,
           NEW b \in MemChunks, b.addr = chunks[i].addr + chunks[i].bytes - n, b.bytes = n
    PROVE  /\ Taken(i, n) \in Seq(MemChunks)
           /\ Ordered(Taken(i, n))
           /\ \A a \in Int : InChunks(Taken(i, n), a) <=>
                InChunks(chunks, a) /\ a \notin SpanOf(b)
           /\ SpanOf(b) \subseteq SpanOf(chunks[i])
<1> DEFINE s == chunks
           r == Taken(i, n)
<1>1. Len(s) \in Nat /\ DOMAIN s = 1..Len(s) /\ i \in Nat
  OBVIOUS
<1>2. \A j \in DOMAIN s : /\ s[j] \in MemChunks /\ s[j].addr \in Int /\ s[j].bytes \in Nat
                          /\ s[j].bytes > 0 /\ End(s[j]) = s[j].addr + s[j].bytes
                          /\ End(s[j]) \in Int
  BY MemElements
<1>3. \A a \in Int : /\ a \in SpanOf(s[i]) <=> s[i].addr <= a /\ a < s[i].addr + s[i].bytes
                     /\ a \in SpanOf(b) <=>
                          s[i].addr + s[i].bytes - n <= a /\ a < s[i].addr + s[i].bytes
  <2>1. End(b) = s[i].addr + s[i].bytes
    BY <1>2 DEF End
  <2> QED BY <1>2, <2>1, InSpan
<1>4. SpanOf(b) \subseteq SpanOf(s[i])
  <2>1. \A a \in SpanOf(b) : a \in Int
    BY SpanCounts
  <2> QED BY <1>2, <1>3, <2>1
<1>5. ASSUME NEW a \in Int, NEW j \in DOMAIN s, j # i, a \in SpanOf(s[j])
      PROVE  a \notin SpanOf(b)
  BY <1>4, <1>5, OneChunk
<1>6. CASE s[i].bytes > n
  <2> DEFINE c == [s[i] EXCEPT !.bytes = @ - n]
  <2>1. /\ c \in MemChunks /\ c.addr = s[i].addr /\ c.bytes = s[i].bytes - n
        /\ End(c) = s[i].addr + s[i].bytes - n
    BY <1>2, <1>6, SMTT(30) DEF MemChunks, End
  <2>2. r = [s EXCEPT ![i] = c]
    BY <1>6 DEF Taken
  <2> HIDE DEF c
  <2>3. /\ r \in Seq(MemChunks) /\ DOMAIN r = DOMAIN s
        /\ r[i] = c
        /\ \A j \in DOMAIN s : j # i => r[j] = s[j]
    BY <1>1, <2>1, <2>2
  <2> HIDE DEF r
  <2>4. \A j \in DOMAIN s : r[j].addr = s[j].addr /\ End(r[j]) <= End(s[j]) /\ End(r[j]) \in Int
    <3> SUFFICES ASSUME NEW j \in DOMAIN s
                 PROVE  /\ r[j].addr = s[j].addr
                        /\ End(r[j]) <= End(s[j]) /\ End(r[j]) \in Int
      OBVIOUS
    <3> HIDE DEF s
    <3>1. CASE j = i
      BY <1>2, <2>1, <2>3, <3>1
    <3>2. CASE j # i
      BY <1>2, <2>3, <3>2
    <3> QED BY <3>1, <3>2
  <2>5. Ordered(r)
    <3> SUFFICES ASSUME NEW j \in DOMAIN s, NEW k \in DOMAIN s, j < k
                 PROVE  End(r[j]) < r[k].addr
      BY <2>3 DEF Ordered
    <3>1. End(s[j]) < s[k].addr
      BY DEF Ordered
    <3>2. /\ End(s[j]) \in Int /\ s[k].addr \in Int
          /\ r[k].addr = s[k].addr /\ End(r[j]) <= End(s[j]) /\ End(r[j]) \in Int
      BY <1>2, <2>4
    <3> QED BY <3>1, <3>2
  <2>6. ASSUME NEW a \in Int PROVE InChunks(r, a) <=> InChunks(s, a) /\ a \notin SpanOf(b)
    <3>1. a \in SpanOf(c) <=> a \in SpanOf(s[i]) /\ a \notin SpanOf(b)
      <4>1. a \in SpanOf(c) <=> s[i].addr <= a /\ a < s[i].addr + s[i].bytes - n
        BY <2>1, InSpan
      <4> QED BY <1>2, <1>3, <4>1
    <3>2. \A j \in DOMAIN s : a \in SpanOf(r[j]) <=> a \in SpanOf(s[j]) /\ a \notin SpanOf(b)
      BY <1>5, <2>3, <3>1
    <3> QED BY <2>3, <3>2 DEF InChunks
  <2> QED BY <1>4, <2>3, <2>5, <2>6 DEF r
<1>7. CASE ~(s[i].bytes > n)
  <2>1. r = RemoveAt(s, i)
    BY <1>7 DEF Taken
  <2>2. s[i].bytes = n
    BY <1>2, <1>7
  <2> HIDE DEF r
  <2>3. /\ r \in Seq(MemChunks) /\ Len(r) = Len(s) - 1
        /\ \A j \in 1..(Len(s) - 1) : r[j] = IF j < i THEN s[j] ELSE s[j + 1]
    <3> HIDE DEF s
    <3>1. s \in Seq(MemChunks) /\ i \in 1..Len(s)
      BY <1>1 DEF s
    <3> QED BY <2>1, <3>1, RemoveAtFacts
  <2>4. DOMAIN r = 1..(Len(s) - 1)
    BY <2>3
  <2> DEFINE Was(j) == IF j < i THEN j ELSE j + 1
  <2>5. \A j \in DOMAIN r : j \in Nat /\ Was(j) \in DOMAIN s /\ Was(j) # i /\ r[j] = s[Was(j)]
    BY <1>1, <2>3, <2>4
  <2>6. \A j, k \in DOMAIN r : j < k => Was(j) < Was(k)
    BY <1>1, <2>4
  <2>7. \A k \in DOMAIN s : k # i => \E j \in DOMAIN r : Was(j) = k
    <3> SUFFICES ASSUME NEW k \in DOMAIN s, k # i PROVE \E j \in DOMAIN r : Was(j) = k
      OBVIOUS
    <3> DEFINE j == IF k < i THEN k ELSE k - 1
    <3>1. j \in DOMAIN r /\ Was(j) = k
      BY <1>1, <2>4
    <3> HIDE DEF j
    <3> QED BY <3>1
  <2> HIDE DEF Was
  <2>8. Ordered(r)
    <3> SUFFICES ASSUME NEW j \in DOMAIN r, NEW k \in DOMAIN r, j < k
                 PROVE  End(r[j]) < r[k].addr
      BY DEF Ordered
    <3>1. Was(j) < Was(k) /\ Was(j) \in DOMAIN s /\ Was(k) \in DOMAIN s
      BY <2>5, <2>6
    <3>2. End(s[Was(j)]) < s[Was(k)].addr
      BY <3>1 DEF Ordered
    <3> QED BY <2>5, <3>2
  <2>9. ASSUME NEW a \in Int PROVE InChunks(r, a) <=> InChunks(s, a) /\ a \notin SpanOf(b)
    <3>1. a \in SpanOf(s[i]) <=> a \in SpanOf(b)
      BY <1>2, <1>3, <2>2
    <3>2. InChunks(s, a) /\ a \notin SpanOf(b) <=> \E k \in DOMAIN s : k # i /\ a \in SpanOf(s[k])
      BY <1>5, <3>1 DEF InChunks
    <3>3. (\E k \in DOMAIN s : k # i /\ a \in SpanOf(s[k])) <=> \E j \in DOMAIN r : a \in SpanOf(s[Was(j)])
      BY <2>5, <2>7
    <3>4. InChunks(r, a) <=> \E j \in DOMAIN r : a \in SpanOf(s[Was(j)])
      BY <2>5 DEF InChunks
    <3> QED BY <3>2, <3>3, <3>4
  <2> QED BY <1>4, <2>3, <2>8, <2>9 DEF r
<1> QED BY <1>6, <1>7

-----------------------------------------------------------------------------
\* A block is taken from a chunk: its bytes were nobody's.
LEMMA AllocateInv ==
    ASSUME MhInv, NEW size \in Requests, Allocate(size) PROVE MhInv'
<1> DEFINE n == Rounded(size)
<1>1. n \in Nat /\ n > 0
  <2>1. n \in Nat
    BY MhAssumption, RoundedIs
  <2>2. n # 0
    BY DEF Allocate
  <2> HIDE DEF n
  <2> QED BY <2>1, <2>2
<1>2. PICK i \in Fits(n) :
        /\ chunks' = Taken(i, n)
        /\ held' = held \cup {Chunk(chunks[i].addr + chunks[i].bytes - n, n)}
  BY DEF Allocate
<1>3. mh_free' = mh_free - n
  <2>1. mh_free' = mh_free + (-n)
    BY DEF Allocate, mh_free_by
  <2>2. mh_free \in Nat
    BY UnheldFinite DEF MhInv
  <2> HIDE DEF n
  <2> QED BY <1>1, <2>1, <2>2
<1> HIDE DEF n
<1>4. i \in DOMAIN chunks /\ chunks[i].bytes >= n
  BY <1>2 DEF Fits
<1> DEFINE b == Chunk(chunks[i].addr + chunks[i].bytes - n, n)
<1>5. b \in MemChunks /\ b.addr = chunks[i].addr + chunks[i].bytes - n /\ b.bytes = n
  <2>1. chunks[i] \in MemChunks
    <3>1. chunks \in Seq(MemChunks)
      BY DEF MhInv
    <3> QED BY <1>4, <3>1
  <2>2. chunks[i].addr + chunks[i].bytes - n \in Int
    BY <1>1, <2>1 DEF MemChunks
  <2> QED BY <1>1, <2>2, ChunkIs
<1>6. held' = held \cup {b}
  BY <1>2
<1> HIDE DEF b
<1>7. /\ chunks' \in Seq(MemChunks) /\ Ordered(chunks')
      /\ \A a \in Int : InChunks(chunks', a) <=> InChunks(chunks, a) /\ a \notin SpanOf(b)
      /\ SpanOf(b) \subseteq SpanOf(chunks[i])
  <2>1. chunks \in Seq(MemChunks) /\ Ordered(chunks)
    BY DEF MhInv
  <2> QED BY <1>1, <1>2, <1>4, <1>5, <2>1, TakenRight
<1>8. \A a \in SpanOf(b) : a \in Int /\ a \in Unheld
  <2>1. \A a \in SpanOf(b) : a \in Int /\ InChunks(chunks, a)
    BY <1>4, <1>5, <1>7, SpanCounts DEF InChunks
  <2> QED BY <2>1 DEF MhInv
<1>9. Unheld' = Unheld \ SpanOf(b)
  <2>1. Unheld' = {a \in Pool : \A c \in held' : a \notin SpanOf(c)}
    BY DEF Unheld, Pool
  <2>2. \A a : (\A c \in held' : a \notin SpanOf(c)) <=>
                a \notin SpanOf(b) /\ \A c \in held : a \notin SpanOf(c)
    BY <1>6
  <2> QED BY <2>1, <2>2 DEF Unheld
<1>10. /\ held' \subseteq MemChunks
       /\ \A c \in held' : SpanOf(c) \subseteq Pool
  <2>1. SpanOf(b) \subseteq Pool
    BY <1>8 DEF Unheld
  <2> QED BY <1>5, <1>6, <2>1 DEF MhInv
<1>11. \A c, d \in held' : \A a \in Int : a \in SpanOf(c) /\ a \in SpanOf(d) => c = d
  <2>1. \A a \in SpanOf(b) : \A c \in held : a \notin SpanOf(c)
    BY <1>8 DEF Unheld
  <2> QED BY <1>6, <2>1 DEF MhInv
<1>12. \A a \in Int : InChunks(chunks', a) <=> a \in Unheld'
  BY <1>7, <1>9 DEF MhInv
<1>13. mh_free' = Cardinality(Unheld')
  <2>1. Unheld \cap SpanOf(b) = SpanOf(b)
    BY <1>8
  <2>2. Cardinality(Unheld \ SpanOf(b)) = Cardinality(Unheld) - Cardinality(Unheld \cap SpanOf(b))
    BY UnheldFinite, FS_Difference
  <2>3. Cardinality(SpanOf(b)) = n
    BY <1>5, SpanCounts
  <2>4. mh_free = Cardinality(Unheld)
    BY DEF MhInv
  <2> QED BY <1>3, <1>9, <2>1, <2>2, <2>3, <2>4
<1>14. Pool' = Pool
  BY DEF Pool
<1> QED BY <1>7, <1>10, <1>11, <1>12, <1>13, <1>14 DEF MhInv, Ordered, InChunks, Unheld, Pool

\* A block comes back, or its first part: its bytes are nobody's again.
LEMMA DeallocateInv ==
    ASSUME MhInv, NEW b \in held, NEW size \in Requests, Deallocate(b, size) PROVE MhInv'
<1> DEFINE n == Rounded(size)
           c == Chunk(b.addr, n)
           rest == Chunk(b.addr + n, b.bytes - n)
<1>1. n \in Nat /\ n > 0 /\ n <= b.bytes
  <2>1. n \in Nat
    BY MhAssumption, RoundedIs
  <2>2. n # 0 /\ n <= b.bytes
    BY DEF Deallocate
  <2> HIDE DEF n
  <2> QED BY <2>1, <2>2
<1>2. b \in MemChunks /\ b.addr \in Int /\ b.bytes \in Nat /\ End(b) = b.addr + b.bytes
  BY DEF MhInv, MemChunks, End
<1>3. /\ chunks' = Returned(c)
      /\ held' = (held \ {b}) \cup (IF n = b.bytes THEN {} ELSE {rest})
      /\ mh_free' = mh_free + n
  BY DEF Deallocate, mh_free_by
<1> HIDE DEF n
<1>4. c \in MemChunks /\ c.addr = b.addr /\ c.bytes = n /\ End(c) = b.addr + n
  BY <1>1, <1>2, ChunkIs
<1>5. n # b.bytes => /\ rest \in MemChunks /\ rest.addr = b.addr + n
                     /\ End(rest) = b.addr + b.bytes
  <2> SUFFICES ASSUME n # b.bytes
               PROVE  rest \in MemChunks /\ rest.addr = b.addr + n /\ End(rest) = b.addr + b.bytes
    OBVIOUS
  <2>1. b.addr + n \in Int /\ b.bytes - n \in Nat /\ b.bytes - n > 0
        /\ (b.addr + n) + (b.bytes - n) = b.addr + b.bytes
    BY <1>1, <1>2
  <2> QED BY <2>1, ChunkIs
<1> HIDE DEF c, rest
<1>6. \A a \in Int : /\ a \in SpanOf(c) => a \in SpanOf(b)
                     /\ n = b.bytes => (a \in SpanOf(b) <=> a \in SpanOf(c))
                     /\ n # b.bytes => (a \in SpanOf(rest) <=> a \in SpanOf(b) /\ a \notin SpanOf(c))
  <2> SUFFICES ASSUME NEW a \in Int
               PROVE  /\ a \in SpanOf(c) => a \in SpanOf(b)
                      /\ n = b.bytes => (a \in SpanOf(b) <=> a \in SpanOf(c))
                      /\ n # b.bytes => (a \in SpanOf(rest) <=> a \in SpanOf(b) /\ a \notin SpanOf(c))
    OBVIOUS
  <2>1. a \in SpanOf(b) <=> b.addr <= a /\ a < b.addr + b.bytes
    BY <1>2, InSpan
  <2>2. a \in SpanOf(c) <=> b.addr <= a /\ a < b.addr + n
    BY <1>4, InSpan
  <2>3. n # b.bytes => (a \in SpanOf(rest) <=> b.addr + n <= a /\ a < b.addr + b.bytes)
    BY <1>5, InSpan
  <2> QED BY <1>1, <1>2, <2>1, <2>2, <2>3
<1>7. \A d \in held : \A a \in SpanOf(d) : a \in Int /\ a \in Pool
  BY DEF MhInv, Pool
<1>8. \A a \in SpanOf(c) : a \in Int /\ a \in SpanOf(b) /\ a \in Pool /\ a \notin Unheld
  <2>1. \A a \in SpanOf(c) : a \in Int /\ a \in SpanOf(b)
    BY <1>4, <1>6, SpanCounts
  <2> QED BY <1>7, <2>1 DEF Unheld
<1>9. \A d \in held' : \/ d \in held /\ d # b
                       \/ n # b.bytes /\ d = rest
  BY <1>3
<1>10. /\ \A d \in held : d # b => d \in held'
       /\ n # b.bytes => rest \in held'
  BY <1>3
<1>11. held' \subseteq MemChunks
  BY <1>5, <1>9 DEF MhInv
<1>12. \A d \in held' : \A a \in SpanOf(d) : a \in Int /\ a \in Pool /\ a \notin SpanOf(c)
  <2> SUFFICES ASSUME NEW d \in held', NEW a \in SpanOf(d)
               PROVE  a \in Int /\ a \in Pool /\ a \notin SpanOf(c)
    OBVIOUS
  <2>1. CASE d \in held /\ d # b
    BY <1>7, <1>8, <2>1 DEF MhInv
  <2>2. CASE n # b.bytes /\ d = rest
    <3>1. a \in Int
      BY <1>5, <2>2, SpanCounts
    <3> QED BY <1>6, <1>7, <2>2, <3>1
  <2> QED BY <1>9, <2>1, <2>2
<1>13. \A d, e \in held' : \A a \in Int : a \in SpanOf(d) /\ a \in SpanOf(e) => d = e
  <2> SUFFICES ASSUME NEW d \in held', NEW e \in held', NEW a \in Int,
                      a \in SpanOf(d), a \in SpanOf(e)
               PROVE  d = e
    OBVIOUS
  <2>1. n # b.bytes /\ a \in SpanOf(rest) => a \in SpanOf(b)
    BY <1>6
  <2> QED BY <1>9, <2>1 DEF MhInv
<1>14. Unheld' = {a \in Pool : \A d \in held' : a \notin SpanOf(d)}
  BY DEF Unheld, Pool
<1>15. Unheld' = Unheld \cup SpanOf(c)
  <2>1. ASSUME NEW a \in Unheld' PROVE a \in Unheld \/ a \in SpanOf(c)
    <3>1. a \in Pool /\ a \in Int /\ \A d \in held' : a \notin SpanOf(d)
      BY <1>14, MhAssumption DEF Pool
    <3>2. a \in SpanOf(b) => a \in SpanOf(c)
      BY <1>6, <1>10, <3>1
    <3>3. \A d \in held : d # b => a \notin SpanOf(d)
      BY <1>10, <3>1
    <3> QED BY <3>1, <3>2, <3>3 DEF Unheld
  <2>2. ASSUME NEW a \in Unheld PROVE a \in Unheld'
    <3>1. a \in Pool /\ a \in Int /\ \A d \in held : a \notin SpanOf(d)
      BY MhAssumption DEF Unheld, Pool
    <3>2. n # b.bytes => a \notin SpanOf(rest)
      BY <1>6, <3>1
    <3> QED BY <1>9, <1>14, <3>1, <3>2
  <2>3. ASSUME NEW a \in SpanOf(c) PROVE a \in Unheld'
    BY <1>8, <1>12, <1>14, <2>3
  <2> QED BY <2>1, <2>2, <2>3
<1>16. /\ chunks' \in Seq(MemChunks) /\ Ordered(chunks')
       /\ \A a \in Int : InChunks(chunks', a) <=> InChunks(chunks, a) \/ a \in SpanOf(c)
  <2>1. chunks \in Seq(MemChunks) /\ Ordered(chunks)
    BY DEF MhInv
  <2>2. \A a \in SpanOf(c) : ~InChunks(chunks, a)
    BY <1>8 DEF MhInv
  <2> QED BY <1>3, <1>4, <2>1, <2>2, ReturnedRight
<1>17. \A a \in Int : InChunks(chunks', a) <=> a \in Unheld'
  BY <1>15, <1>16 DEF MhInv
<1>18. mh_free' = Cardinality(Unheld')
  <2>1. Unheld \cap SpanOf(c) = {}
    BY <1>8
  <2>2. IsFiniteSet(SpanOf(c)) /\ Cardinality(SpanOf(c)) = n
    BY <1>4, SpanCounts
  <2>3. Cardinality(Unheld \cup SpanOf(c)) =
            Cardinality(Unheld) + Cardinality(SpanOf(c)) - Cardinality(Unheld \cap SpanOf(c))
    BY <2>2, UnheldFinite, FS_Union
  <2>4. mh_free = Cardinality(Unheld) /\ Cardinality(Unheld) \in Nat
    BY UnheldFinite DEF MhInv
  <2>5. Cardinality(Unheld \cap SpanOf(c)) = 0
    BY <2>1, FS_EmptySet
  <2>6. Cardinality(Unheld') = Cardinality(Unheld) + n
    BY <1>1, <1>15, <2>2, <2>3, <2>4, <2>5
  <2> QED BY <1>3, <2>4, <2>6
<1> QED BY <1>11, <1>12, <1>13, <1>16, <1>17, <1>18 DEF MhInv, Ordered, InChunks, Unheld, Pool

-----------------------------------------------------------------------------
\* The invariant holds in every state.
THEOREM MhInvariance == MhSpec => []MhInv
<1>1. MhInit => MhInv
  <2> SUFFICES ASSUME MhInit PROVE MhInv
    OBVIOUS
  <2> DEFINE c == Chunk(MhLower, MhUpper - MhLower)
  <2>1. MhLower \in Int /\ MhUpper \in Int /\ MhUpper - MhLower \in Nat /\ MhUpper - MhLower > 0
    BY MhAssumption
  <2>2. c \in MemChunks /\ c.addr = MhLower /\ c.bytes = MhUpper - MhLower /\ End(c) = MhUpper
    <3>1. /\ c \in MemChunks /\ c.addr = MhLower /\ c.bytes = MhUpper - MhLower
          /\ End(c) = MhLower + (MhUpper - MhLower)
      BY <2>1, ChunkIs
    <3>2. MhLower + (MhUpper - MhLower) = MhUpper
      BY <2>1
    <3> HIDE DEF c
    <3> QED BY <3>1, <3>2
  <2>3. chunks = <<c>> /\ held = {} /\ mh_free = MhUpper - MhLower
    BY DEF MhInit
  <2> HIDE DEF c
  <2>4. chunks \in Seq(MemChunks) /\ DOMAIN chunks = {1} /\ chunks[1] = c
    BY <2>2, <2>3
  <2>5. Unheld = Pool /\ Pool = SpanOf(c)
    <3>1. Unheld = Pool
      BY <2>3 DEF Unheld
    <3>2. MhLower + (MhUpper - MhLower) - 1 = MhUpper - 1
      BY <2>1
    <3> QED BY <2>2, <3>1, <3>2 DEF Pool, SpanOf
  <2>6. Cardinality(Unheld) = mh_free
    BY <2>2, <2>3, <2>5, SpanCounts
  <2>7. \A a : InChunks(chunks, a) <=> a \in Unheld
    BY <2>4, <2>5 DEF InChunks
  <2>8. Ordered(chunks)
    BY <2>4 DEF Ordered
  <2> QED BY <2>3, <2>4, <2>6, <2>7, <2>8 DEF MhInv
<1>2. ASSUME MhInv, [MhNext]_mh_vars PROVE MhInv'
  <2>1. ASSUME NEW size \in Requests, AllocateFails(size) PROVE UNCHANGED mh_vars
    BY <2>1 DEF AllocateFails
  <2>2. CASE UNCHANGED mh_vars
    <3>1. chunks' = chunks /\ held' = held /\ mh_free' = mh_free
      BY <2>2 DEF mh_vars
    <3>2. Unheld' = Unheld
      BY <3>1 DEF Unheld, Pool
    <3> QED BY <1>2, <3>1, <3>2 DEF MhInv, Ordered, InChunks, Pool
  <2> QED BY <1>2, <2>1, <2>2, AllocateInv, DeallocateInv DEF MhNext
<1> QED BY <1>1, <1>2, PTL DEF MhSpec

\* Every byte of the header's range is in one chunk or in one block, mh_Free is the sum of
\* the chunks, and no two chunks touch: for any range and any requests, in whatever parts
\* and order the blocks come back (allocate(), deallocate()).
THEOREM MhMemorySound == MhSpec => []MhSound
<1>1. ASSUME MhInv PROVE MhPartition
  <2> SUFFICES ASSUME NEW a \in Pool
               PROVE  Cardinality({i \in DOMAIN chunks : a \in SpanOf(chunks[i])})
                        + Cardinality({b \in held : a \in SpanOf(b)}) = 1
    BY DEF MhPartition, Pool
  <2> DEFINE C == {i \in DOMAIN chunks : a \in SpanOf(chunks[i])}
             H == {b \in held : a \in SpanOf(b)}
  <2>1. a \in Int
    BY MhAssumption DEF Pool
  <2>2. CASE InChunks(chunks, a)
    <3>1. PICK i \in DOMAIN chunks : a \in SpanOf(chunks[i])
      BY <2>2 DEF InChunks
    <3>2. \A j \in DOMAIN chunks : a \in SpanOf(chunks[j]) => j = i
      BY <1>1, <2>1, <3>1, OneChunk DEF MhInv
    <3>3. C = {i} /\ H = {}
      BY <1>1, <2>1, <2>2, <3>1, <3>2 DEF MhInv, Unheld
    <3> HIDE DEF C, H
    <3>4. Cardinality(C) = 1 /\ Cardinality(H) = 0
      BY <3>3, FS_Singleton, FS_EmptySet
    <3> QED BY <3>4 DEF C, H
  <2>3. CASE ~InChunks(chunks, a)
    <3>1. PICK b \in held : a \in SpanOf(b)
      BY <1>1, <2>1, <2>3 DEF MhInv, Unheld
    <3>2. \A c \in held : a \in SpanOf(c) => c = b
      BY <1>1, <2>1, <3>1 DEF MhInv
    <3>3. C = {} /\ H = {b}
      BY <2>3, <3>1, <3>2 DEF InChunks
    <3> HIDE DEF C, H
    <3>4. Cardinality(C) = 0 /\ Cardinality(H) = 1
      BY <3>3, FS_Singleton, FS_EmptySet
    <3> QED BY <3>4 DEF C, H
  <2> QED BY <2>2, <2>3
<1>2. ASSUME MhInv PROVE MhFreeIsSum
  <2> DEFINE U == UNION {SpanOf(chunks[i]) : i \in DOMAIN chunks}
  <2>1. \A i \in DOMAIN chunks : chunks[i] \in MemChunks
    <3>1. chunks \in Seq(MemChunks)
      BY <1>2 DEF MhInv
    <3> QED BY <3>1
  <2>2. \A a : a \in U <=> a \in Int /\ InChunks(chunks, a)
    BY <2>1, SpanCounts DEF InChunks
  <2>3. \A a \in Unheld : a \in Int
    BY MhAssumption DEF Unheld, Pool
  <2>4. \A a : a \in U <=> a \in Unheld
    BY <1>2, <2>2, <2>3 DEF MhInv
  <2> HIDE DEF U
  <2>5. U = Unheld
    BY <2>4
  <2> QED BY <1>2, <2>5 DEF MhFreeIsSum, MhInv, U
<1>3. ASSUME MhInv PROVE MhCoalesced
  <2> SUFFICES ASSUME NEW i \in 1..(Len(chunks) - 1)
               PROVE  chunks[i].addr + chunks[i].bytes < chunks[i + 1].addr
    BY DEF MhCoalesced
  <2>1. Len(chunks) \in Nat /\ DOMAIN chunks = 1..Len(chunks)
    BY <1>3 DEF MhInv
  <2>2. i \in DOMAIN chunks /\ i + 1 \in DOMAIN chunks /\ i < i + 1
    BY <2>1
  <2> QED BY <1>3, <2>2 DEF MhInv, Ordered, End
<1>4. MhInv => MhSound
  BY <1>1, <1>2, <1>3 DEF MhSound
<1> QED BY <1>4, MhInvariance, PTL
==============================================================================
