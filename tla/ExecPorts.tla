------------------------------ MODULE ExecPorts ------------------------------
(***************************************************************************)
(* Message passing of exec.library: PortManager (vamos/lib/lexec), the     *)
(* port, message and I/O request functions of ExecLibrary, the packets of  *)
(* dos.library that travel through ports and FileManager's two handlers.   *)
(*                                                                         *)
(* The programs that call these functions are external.  They are          *)
(* disciplined: a message they have sent is theirs again only when they    *)
(* got it from a port, and ports they gave up are not used any more.  A    *)
(* function that raises ends vamos (port_error).                           *)
(***************************************************************************)
EXTENDS Integers, Sequences, SequencesExt, FiniteSets

CONSTANTS
    PortAddrs,    \* addresses at which a MsgPort fits
    Messages,     \* messages of the programs
    Packets,      \* messages that carry a DosPacket
    IORequests,   \* messages that are I/O requests
    Nobody,       \* NULL
    Gone,         \* where mail is that was in a port when the port went
    ReuseOwn      \* may memory of a deleted port become a program's own port?

Mail == Messages \cup Packets \cup IORequests

ASSUME MailAssumption ==
    /\ Nobody \notin PortAddrs /\ Gone \notin PortAddrs \cup {Nobody}
    /\ ReuseOwn \in BOOLEAN
    /\ Messages \cap Packets = {} /\ (Messages \cup Packets) \cap IORequests = {}

VARIABLES
    ports,        \* PortManager.ports: [queue, mem] by address
    block,        \* what the memory at an address is used for
    reply_to,     \* mn_ReplyPort of a message, dp_Port of a packet
    replied,      \* ln_Type is NT_REPLYMSG
    port_error,   \* the exception that ended the program
    sent,         \* ghost: the port a message was put to and not taken from
    origin        \* ghost: the port for the answer its sender waits for

port_vars == <<ports, block, reply_to, replied, port_error, sent, origin>>

PortsInit ==
    /\ ports = [a \in {} |-> Nobody]
    /\ block = [a \in PortAddrs |-> "free"]
    /\ reply_to = [m \in Mail |-> Nobody]
    /\ replied = [m \in Mail |-> FALSE]
    /\ port_error = "none"
    /\ sent = [m \in Mail |-> Nobody]
    /\ origin = [m \in Mail |-> Nobody]

has_port(a) == a \in DOMAIN ports

Raise(what) ==
    /\ port_error' = what
    /\ UNCHANGED <<ports, block, reply_to, replied, sent, origin>>

With(ps, a, p) == [b \in DOMAIN ps \cup {a} |-> IF b = a THEN p ELSE ps[b]]

Lost(a) ==
    [m \in Mail |-> IF sent[m] = a THEN Gone ELSE sent[m]]

-----------------------------------------------------------------------------
(* Ports *)

\* Mutant: a port that is still known at the address is kept
create_port_kept(ps, a) ==
    IF a \in DOMAIN ps THEN ps ELSE With(ps, a, [queue |-> <<>>, mem |-> TRUE])

create_port(ps, a) == With(ps, a, [queue |-> <<>>, mem |-> TRUE])

\* register_port() behind the test of has_port(), as all its callers do
ensure_port(ps, a) ==
    IF a \in DOMAIN ps THEN ps ELSE With(ps, a, [queue |-> <<>>, mem |-> FALSE])

CreateMsgPort(a) ==
    /\ block[a] = "free"
    /\ ports' = create_port(ports, a)
    /\ block' = [block EXCEPT ![a] = "created"]
    /\ UNCHANGED <<reply_to, replied, port_error, sent, origin>>

\* A program builds a port in memory of its own.
BuildPort(a) ==
    /\ block[a] = "free" /\ (has_port(a) => ReuseOwn)
    /\ block' = [block EXCEPT ![a] = "own"]
    /\ UNCHANGED <<ports, reply_to, replied, port_error, sent, origin>>

FreeOwnPort(a) ==
    /\ block[a] = "own" /\ ~has_port(a)
    /\ block' = [block EXCEPT ![a] = "free"]
    /\ UNCHANGED <<ports, reply_to, replied, port_error, sent, origin>>

AddPort(a) ==
    /\ block[a] # "free"
    /\ ports' = ensure_port(ports, a)
    /\ UNCHANGED <<block, reply_to, replied, port_error, sent, origin>>

\* The port of a new process lies inside the process structure.
CreateNewProc(a) ==
    /\ block[a] = "free" /\ (has_port(a) => ReuseOwn)
    /\ block' = [block EXCEPT ![a] = "process"]
    /\ ports' = ensure_port(ports, a)
    /\ UNCHANGED <<reply_to, replied, port_error, sent, origin>>

RemPort(a) ==
    /\ block[a] # "free"
    /\ ports' = Restrict(ports, DOMAIN ports \ {a})
    /\ sent' = Lost(a)
    /\ UNCHANGED <<block, reply_to, replied, port_error, origin>>

\* free_port(): the entry in ports stays
DeleteMsgPort(a) ==
    /\ block[a] = "created"
    /\ IF ~has_port(a) THEN Raise("Invalid Port free mem")
       ELSE IF ~ports[a].mem THEN Raise("Free non created port")
       ELSE /\ block' = [block EXCEPT ![a] = "free"]
            /\ sent' = Lost(a)
            /\ UNCHANGED <<ports, reply_to, replied, port_error, origin>>

-----------------------------------------------------------------------------
(* Messages *)

\* Mutant: the newest message is the first to be taken
put_msg_front(ps, a, m) == [ps EXCEPT ![a].queue = <<m>> \o @]

put_msg(ps, a, m) == [ps EXCEPT ![a].queue = Append(@, m)]

\* PortManager.put_msg(); a message for a port that was deleted is lost
Put(a, m) ==
    /\ ports' = put_msg(ensure_port(ports, a), a, m)
    /\ sent' = [sent EXCEPT ![m] = IF block[a] = "free" THEN Gone ELSE a]

\* A program sends a message it holds and chooses the port of the answer.
PutMsg(a, m, r) ==
    /\ block[a] # "free" /\ sent[m] = Nobody
    /\ IF ~has_port(a) THEN Raise("PutMsg: on invalid Port")
       ELSE /\ Put(a, m)
            /\ reply_to' = [reply_to EXCEPT ![m] = r]
            /\ origin' = [origin EXCEPT ![m] = r]
            /\ replied' = [replied EXCEPT ![m] = FALSE]
            /\ UNCHANGED <<block, port_error>>

get_msg(a) == ports' = [ports EXCEPT ![a].queue = Tail(@)]

\* GetMsg(), and WaitPkt() of a process on its own port
GetMsg(a) ==
    /\ block[a] # "free"
    /\ IF ~has_port(a)
       THEN block[a] # "process" /\ Raise("GetMsg: on invalid Port")
       ELSE IF ports[a].queue = <<>>
       THEN block[a] = "process" /\ Raise("WaitPkt on empty message queue")
       ELSE /\ sent' = [sent EXCEPT ![Head(ports[a].queue)] = Nobody]
            /\ get_msg(a)
            /\ origin' = [m \in Mail |-> IF m = Head(ports[a].queue) /\ replied[m]
                                        THEN Nobody ELSE origin[m]]
            /\ UNCHANGED <<block, reply_to, replied, port_error>>

\* WaitPort() never waits: it peeks, or gives up
WaitPort(a) ==
    /\ block[a] # "free"
    /\ \/ ~has_port(a) /\ Raise("WaitPort: on invalid Port")
       \/ has_port(a) /\ ports[a].queue = <<>> /\ Raise("WaitPort on empty message queue")

\* ReplyMsg() drops a message whose reply port is unknown
ReplyMsg(m) ==
    /\ sent[m] = Nobody /\ ~replied[m] /\ reply_to[m] \in DOMAIN ports
    /\ Put(reply_to[m], m)
    /\ replied' = [replied EXCEPT ![m] = TRUE]
    /\ UNCHANGED <<block, reply_to, port_error, origin>>

\* Process p answers: the packet goes to dp_Port even if that port is not
\* known, and names p's own port as the one for the next packet.
ReplyPkt(m, p) ==
    /\ sent[m] = Nobody /\ ~replied[m] /\ reply_to[m] # Nobody
    /\ block[p] = "process" /\ block[reply_to[m]] # "free"
    /\ Put(reply_to[m], m)
    /\ reply_to' = [reply_to EXCEPT ![m] = p]
    /\ replied' = [replied EXCEPT ![m] = TRUE]
    /\ UNCHANGED <<block, port_error, origin>>

\* fs_put_msg(): a packet put to the port of the file system is answered at
\* once; for a type it does not know it fails on a name that does not exist.
fs_put_msg(m, r, known) ==
    /\ block[r] # "free" /\ sent[m] = Nobody
    /\ IF ~known THEN Raise("NameError: dos_pkg")
       ELSE /\ Put(r, m)
            /\ reply_to' = [reply_to EXCEPT ![m] = r]
            /\ origin' = [origin EXCEPT ![m] = r]
            /\ UNCHANGED <<block, replied, port_error>>

\* console_put_msg(): every packet is answered, with a result or an error
console_put_msg(m, r) == fs_put_msg(m, r, TRUE)

-----------------------------------------------------------------------------
(* I/O requests of vamos' own devices, whose BeginIO() is finished when it   *)
(* returns                                                                   *)

\* _dispatch_begin_io(): without a device the request is not marked as done.
\* DoIO() sends no message.
DoIO(m, found) ==
    /\ sent[m] = Nobody
    /\ replied' = [replied EXCEPT ![m] = @ \/ found]
    /\ UNCHANGED <<ports, block, reply_to, port_error, sent, origin>>

\* SendIO(): the reply is queued whether there was a device or not
SendIO(m, r, found) ==
    /\ sent[m] = Nobody
    /\ reply_to' = [reply_to EXCEPT ![m] = r]
    /\ origin' = [origin EXCEPT ![m] = r]
    /\ replied' = [replied EXCEPT ![m] = @ \/ found]
    /\ IF has_port(r) THEN Put(r, m) ELSE UNCHANGED <<ports, sent>>
    /\ UNCHANGED <<block, port_error>>

-----------------------------------------------------------------------------
LivePorts == {a \in PortAddrs : block[a] # "free"}

PortsNext ==
    /\ port_error = "none"
    /\ \/ \E a \in PortAddrs :
            \/ CreateMsgPort(a) \/ BuildPort(a) \/ FreeOwnPort(a) \/ AddPort(a)
            \/ CreateNewProc(a) \/ RemPort(a) \/ DeleteMsgPort(a)
            \/ GetMsg(a) \/ WaitPort(a)
       \/ \E a \in LivePorts, m \in Messages \cup Packets,
             r \in LivePorts \cup {Nobody} : PutMsg(a, m, r)
       \/ \E m \in Messages : ReplyMsg(m)
       \/ \E m \in Packets, p \in LivePorts : ReplyPkt(m, p)
       \/ \E m \in Packets, r \in LivePorts :
            \/ \E known \in BOOLEAN : fs_put_msg(m, r, known)
            \/ console_put_msg(m, r)
       \/ \E m \in IORequests :
            \/ \E found \in BOOLEAN : DoIO(m, found)
            \/ \E r \in LivePorts, found \in BOOLEAN : SendIO(m, r, found)

PortsSpec == PortsInit /\ [][PortsNext]_port_vars

-----------------------------------------------------------------------------
PortsTypeOK ==
    /\ DOMAIN ports \subseteq PortAddrs
    /\ \A a \in DOMAIN ports : ports[a] \in [queue : Seq(Mail), mem : BOOLEAN]
    /\ block \in [PortAddrs -> {"free", "created", "own", "process"}]
    /\ reply_to \in [Mail -> PortAddrs \cup {Nobody}]
    /\ replied \in [Mail -> BOOLEAN]
    /\ sent \in [Mail -> PortAddrs \cup {Nobody, Gone}]
    /\ origin \in [Mail -> PortAddrs \cup {Nobody}]

Copies(m, a) == Cardinality({i \in DOMAIN ports[a].queue : ports[a].queue[i] = m})

\* A message that was put to a port and not taken from it waits there, once,
\* and no port in use has a message of anyone who did not send it there: what
\* an earlier port at the same address left in its queue is never delivered
\* (PortManager.put_msg(), free_port(), register_port()).
MailConserved ==
    \A m \in Mail, a \in DOMAIN ports : block[a] # "free" =>
        Copies(m, a) = (IF sent[m] = a THEN 1 ELSE 0)

\* The answer to a message or packet is found at the port its sender named,
\* whoever answered it and whatever ports were made and deleted in between.
RepliesReachSender ==
    \A m \in Mail : (replied[m] /\ sent[m] \in PortAddrs) => sent[m] = origin[m]

\* Messages leave a port in the order in which they came (queue.append() and
\* queue.pop(0)).
PortsFifo ==
    [][\A a \in DOMAIN ports \cap DOMAIN ports' :
        (block[a] = block'[a] /\ block[a] # "free") =>
            \/ IsPrefix(ports[a].queue, ports'[a].queue)
            \/ ports'[a].queue = Tail(ports[a].queue)]_port_vars

\* A message, packet or request is in one queue or in one program's hands and its reply
\* goes to who sent it, also when ports go and come back (PortManager).
MailSafe == PortsTypeOK /\ MailConserved /\ RepliesReachSender
==============================================================================
